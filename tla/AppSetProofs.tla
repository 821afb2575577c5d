---------------------------- MODULE AppSetProofs ----------------------------
(***************************************************************************)
(* AppSet for any number of apps, any app ids, answers and changes of      *)
(* channels: it is type correct, a restart forgets nothing that was saved, *)
(* a request sends the cohort that Omaha last returned, and an answer      *)
(* changes no app but the one it is about.                                 *)
(***************************************************************************)
EXTENDS AppSet, TLAPS, FiniteSetTheorems, WellFoundedInduction

-----------------------------------------------------------------------------
(***************************************************************************)
(* The inductive invariants                                                *)
(***************************************************************************)

\* What load makes of data is the state of app a, as far as load is in charge.
Restored(a, data) ==
    LET again == Load(Config[a], data)
    IN apps[a].id = Config[a].id =>
         /\ \A f \in Loaded(a) : again.cohort[f] = apps[a].cohort[f]
         /\ Config[a].counting = None => again.counting = apps[a].counting

\* As long as some app counts as saved, nothing waits to be committed, and a
\* restart, at whatever point of a check, would find every such app.
Kept ==
    /\ pc = "off" \/ unsaved # Apps => store = disk
    /\ \A a \in Apps \ unsaved : Restored(a, disk)

\* A cohort that was returned for an app's configured id, and saved, is what
\* was saved with it.
Faithful(data) ==
    \A a \in Apps : Config[a].id \in DOMAIN data =>
      \A f \in Loaded(a) :
        LET saved == data[Config[a].id]
        IN saved.returned[f] # None => saved.cohort[f] = saved.returned[f]

\* An app in memory has the cohort that Omaha returned for it, and storage too.
Current ==
    /\ \A a \in Apps : \A f \in Loaded(a) :
         returned[a][f] # None => apps[a].cohort[f] = returned[a][f]
    /\ Faithful(store)
    /\ Faithful(disk)

\* The request is about app ids of each app, and the answer about the request or
\* about apps that are nobody's.
Asked ==
    /\ pc \in {"waiting", "installing", "answered"} =>
         \A a \in Apps : request[a].id \in AppIds[a]
    /\ pc \in {"installing", "answered"} =>
         \A i \in 1..Len(answer.apps) :
           \/ answer.apps[i].id \in Strangers
           \/ \E a \in Apps : answer.apps[i].id = request[a].id
    /\ pc \in {"waiting", "installing", "answered"} => request \in [Apps -> App]

-----------------------------------------------------------------------------
(***************************************************************************)
(* Apps, cohorts and answers                                               *)
(***************************************************************************)

\* A set of natural numbers that has an element has a least one.
LEMMA Least ==
  ASSUME NEW T \in SUBSET Nat, T # {}
  PROVE  \E i \in T : \A j \in T : i <= j
  <1>1. PICK i \in T : \A j \in T : ~(<<j, i>> \in OpToRel(<, Nat))
    BY NatLessThanWellFounded, WFMin, Zenon
  <1>2. \A j \in T : ~(j < i)
    BY <1>1 DEF OpToRel
  <1>3. QED
    BY <1>2

\* Len(Config) apps, and the system app is one of them.
LEMMA AppsAre ==
  /\ Len(Config) \in Nat
  /\ Apps \subseteq Nat
  /\ SystemApp \in Apps
  /\ \A a \in Apps : Config[a] \in App /\ Config[a].id \in AppIds[a]
  BY AppsAssumption DEF Apps, SystemApp

\* The app ids of an app are no other's.
LEMMA IdsOwn ==
  ASSUME NEW a \in Apps, NEW b \in Apps, NEW i \in AppIds[a], i \in AppIds[b]
  PROVE  a = b
  BY AppsAssumption

\* A cohort stays a cohort, whatever is put over it.
LEMMA OverlayTyped ==
  ASSUME NEW old \in Cohort, NEW new \in Cohort
  PROVE  /\ Overlay(old, new) \in Cohort
         /\ \A f \in Fields : Overlay(old, new)[f] = IF new[f] # None THEN new[f] ELSE old[f]
  BY DEF Overlay, Cohort

\* Load takes what the configuration leaves open from the record of the app's
\* id, and keeps the id.
LEMMA LoadIs ==
  ASSUME NEW app \in App, NEW data, \A i \in DOMAIN data : data[i] \in Record
  PROVE  /\ Load(app, data) \in App
         /\ Load(app, data).id = app.id
         /\ app.id \notin DOMAIN data => Load(app, data) = app
         /\ app.id \in DOMAIN data =>
              /\ \A f \in Fields : app.cohort[f] = None =>
                   Load(app, data).cohort[f] = data[app.id].cohort[f]
              /\ app.counting = None => Load(app, data).counting = data[app.id].counting
  <1>1. CASE app.id \notin DOMAIN data
    BY <1>1 DEF Load
  <1>2. CASE app.id \in DOMAIN data
    <2> DEFINE cohort == Overlay(data[app.id].cohort, app.cohort)
               counting == IF app.counting = None THEN data[app.id].counting ELSE app.counting
    <2>1. data[app.id].cohort \in Cohort /\ data[app.id].counting \in Nat \cup {None}
      BY <1>2 DEF Record
    <2>2. app.cohort \in Cohort /\ app.counting \in Nat \cup {None} /\ app.id \in Ids
      BY DEF App
    <2>3. cohort \in Cohort /\ \A f \in Fields :
            cohort[f] = IF app.cohort[f] # None THEN app.cohort[f] ELSE data[app.id].cohort[f]
      BY <2>1, <2>2, OverlayTyped
    <2>4. counting \in Nat \cup {None}
      BY <2>1, <2>2
    <2>5. Load(app, data) = [app EXCEPT !.cohort = cohort, !.counting = counting]
      BY <1>2 DEF Load
    <2>6. app.counting = None => counting = data[app.id].counting
      OBVIOUS
    <2> HIDE DEF cohort, counting
    <2>7. Load(app, data) = [id |-> app.id, cohort |-> cohort, counting |-> counting]
      BY <2>5 DEF App
    <2>8. Load(app, data) \in App
      BY <2>2, <2>3, <2>4, <2>7 DEF App
    <2>9. QED
      BY <1>2, <2>3, <2>6, <2>7, <2>8
  <1>3. QED
    BY <1>1, <1>2

\* An answer to an app is one of those that Omaha gave for its app id.
LEMMA AnswerToIs ==
  ASSUME NEW a, NEW r \in Answers, Matches(a, r) # {}
  PROVE  /\ AnswerTo(a, r) \in AppAnswer
         /\ \E i \in 1..Len(r.apps) : r.apps[i] = AnswerTo(a, r) /\ r.apps[i].id = apps[a].id
  <1>1. r.apps \in Seq(AppAnswer)
    BY AnswersAssumption
  <1>2. Matches(a, r) \in SUBSET Nat
    BY <1>1 DEF Matches
  <1>3. \E i \in Matches(a, r) : \A j \in Matches(a, r) : i <= j
    BY <1>2, Least
  <1> DEFINE n == CHOOSE i \in Matches(a, r) : \A j \in Matches(a, r) : i <= j
  <1>4. n \in Matches(a, r)
    BY <1>3
  <1>5. AnswerTo(a, r) = r.apps[n]
    BY DEF AnswerTo
  <1> HIDE DEF n
  <1>6. n \in 1..Len(r.apps) /\ r.apps[n].id = apps[a].id
    BY <1>4 DEF Matches
  <1>7. QED
    BY <1>1, <1>5, <1>6

\* update_from_omaha changes an app's cohort, by that of an answer for its app
\* id, and its counting; and no app that has no answer.
LEMMA UpdateIs ==
  ASSUME TypeOK, NEW r \in {NoAnswer} \cup Answers, NEW a \in Apps
  PROVE  /\ UpdateFromOmaha(a, r) \in App
         /\ UpdateFromOmaha(a, r).id = apps[a].id
         /\ Matches(a, r) = {} => UpdateFromOmaha(a, r) = apps[a]
         /\ Matches(a, r) # {} =>
              /\ r \in Answers
              /\ UpdateFromOmaha(a, r).cohort = Overlay(apps[a].cohort, AnswerTo(a, r).cohort)
  <1>1. apps[a] \in App
    BY DEF TypeOK
  <1>2. CASE Matches(a, r) = {}
    BY <1>1, <1>2 DEF UpdateFromOmaha
  <1>3. CASE Matches(a, r) # {}
    <2> DEFINE cohort == Overlay(apps[a].cohort, AnswerTo(a, r).cohort)
               counting == UserCounting(r.daystart)
    <2>0. r \in Answers
      BY <1>3 DEF Matches, NoAnswer
    <2>1. AnswerTo(a, r).cohort \in Cohort
      BY <1>3, <2>0, AnswerToIs DEF AppAnswer
    <2>2. apps[a].cohort \in Cohort /\ apps[a].id \in Ids
      BY <1>1 DEF App
    <2>3. cohort \in Cohort
      BY <2>1, <2>2, OverlayTyped
    <2>4. counting \in Nat \cup {None}
      BY <2>0, AnswersAssumption DEF UserCounting, DayStart
    <2>5. UpdateFromOmaha(a, r) = [apps[a] EXCEPT !.cohort = cohort, !.counting = counting]
      BY <1>3 DEF UpdateFromOmaha, CohortUpdate
    <2> HIDE DEF counting
    <2>6. UpdateFromOmaha(a, r).cohort = cohort
      BY <1>1, <2>5 DEF App
    <2> HIDE DEF cohort
    <2>7. UpdateFromOmaha(a, r) = [id |-> apps[a].id, cohort |-> cohort, counting |-> counting]
      BY <1>1, <2>5 DEF App
    <2>8. UpdateFromOmaha(a, r) \in App
      BY <2>2, <2>3, <2>4, <2>7 DEF App
    <2>9. QED
      BY <1>3, <2>0, <2>6, <2>7, <2>8 DEF cohort
  <1>4. QED
    BY <1>2, <1>3

\* What persist writes for app a.
RecordOf(a) ==
    [cohort |-> apps[a].cohort, counting |-> apps[a].counting, returned |-> returned[a]]

\* persist writes under the app ids there are now, each app under its own, and
\* leaves all else.
LEMMA PersistIs ==
  ASSUME TypeOK, NEW failed \in SUBSET Apps, NEW ok \in BOOLEAN, Persist(failed, ok)
  PROVE  /\ \A a \in Apps \ failed :
              apps[a].id \in DOMAIN store' /\ store'[apps[a].id] = RecordOf(a)
         /\ \A i \in DOMAIN store' :
              \/ i \in DOMAIN store /\ store'[i] = store[i]
              \/ \E a \in Apps : i = apps[a].id /\ store'[i] = RecordOf(a)
         /\ disk' = IF ok THEN store' ELSE disk
  <1> DEFINE Saved == {apps[a].id : a \in Apps \ failed}
             Of(i) == CHOOSE a \in Apps : apps[a].id = i
  <1>1. /\ store' = [i \in DOMAIN store \cup Saved |->
                       IF i \in Saved THEN RecordOf(Of(i)) ELSE store[i]]
        /\ disk' = IF ok THEN store' ELSE disk
    BY DEF Persist, RecordOf
  <1>2. \A a \in Apps : Of(apps[a].id) = a
    <2> SUFFICES ASSUME NEW a \in Apps
                 PROVE  Of(apps[a].id) = a
      OBVIOUS
    <2>1. Of(apps[a].id) \in Apps /\ apps[Of(apps[a].id)].id = apps[a].id
      OBVIOUS
    <2>2. \A b \in Apps : apps[b].id \in AppIds[b]
      BY DEF TypeOK
    <2> HIDE DEF Of
    <2>3. QED
      BY <2>1, <2>2, IdsOwn
  <1> HIDE DEF Of
  <1>3. \A a \in Apps \ failed :
          apps[a].id \in DOMAIN store' /\ store'[apps[a].id] = RecordOf(a)
    BY <1>1, <1>2
  <1>4. \A i \in DOMAIN store' :
          \/ i \in DOMAIN store /\ store'[i] = store[i]
          \/ \E a \in Apps : i = apps[a].id /\ store'[i] = RecordOf(a)
    BY <1>1, <1>2
  <1>5. QED
    BY <1>1, <1>3, <1>4

\* What the embedder's set_target_channel makes of an app.
LEMMA SwitchIs ==
  ASSUME TypeOK, NEW a \in Apps, NEW channel \in Values \cup {None},
         NEW id \in AppIds[a] \cup {None}, SetTargetChannel(a, channel, id)
  PROVE  /\ apps' \in [Apps -> App]
         /\ \A b \in Apps \ {a} : apps'[b] = apps[b] /\ returned'[b] = returned[b]
         /\ apps'[a].id \in AppIds[a]
         /\ \A f \in Fields \ {"hint"} : apps'[a].cohort[f] = apps[a].cohort[f]
         /\ returned' \in [Apps -> Cohort]
         /\ returned'[a]["hint"] = None
         /\ \A f \in Fields : returned'[a][f] # None => returned'[a][f] = returned[a][f]
  <1>1. apps[a] \in App /\ apps[a].id \in AppIds[a] /\ apps \in [Apps -> App]
    BY DEF TypeOK
  <1>2. apps[a].cohort \in Cohort /\ apps[a].counting \in Nat \cup {None}
    BY <1>1 DEF App
  <1> DEFINE cohort == [apps[a].cohort EXCEPT !["hint"] = channel]
             newId == IF id # None THEN id ELSE apps[a].id
             app == [id |-> newId, cohort |-> cohort, counting |-> apps[a].counting]
  <1>3. cohort \in Cohort /\ \A f \in Fields \ {"hint"} : cohort[f] = apps[a].cohort[f]
    BY <1>2 DEF Cohort, Fields
  <1>4. newId \in AppIds[a] /\ newId \in Ids
    BY <1>1 DEF Ids
  <1>5. apps' = [apps EXCEPT ![a].cohort.hint = channel,
                             ![a].id = IF id # None THEN id ELSE @]
    BY DEF SetTargetChannel
  <1>6. /\ apps' = [b \in Apps |-> apps'[b]]
        /\ \A b \in Apps \ {a} : apps'[b] = apps[b]
    BY <1>1, <1>5
  <1>7. apps'[a] = app
    <2>1. apps[a] = [id |-> apps[a].id, cohort |-> apps[a].cohort, counting |-> apps[a].counting]
      BY <1>1 DEF App
    <2>2. apps'[a].id = newId
      BY <1>1, <1>5, <2>1
    <2>3. apps'[a].cohort = cohort
      BY <1>1, <1>2, <1>5, <2>1
    <2>4. apps'[a].counting = apps[a].counting
      BY <1>1, <1>5, <2>1
    <2>5. apps'[a] = [id |-> apps'[a].id, cohort |-> apps'[a].cohort, counting |-> apps'[a].counting]
      BY <1>1, <1>5, <2>1
    <2>6. QED
      BY <2>2, <2>3, <2>4, <2>5
  <1>8. app \in App
    BY <1>2, <1>3, <1>4 DEF App
  <1>9. app.id = newId /\ app.cohort = cohort
    OBVIOUS
  <1> DEFINE ret == IF id # None THEN Nothing ELSE [returned[a] EXCEPT !["hint"] = None]
  <1>10. returned' = [returned EXCEPT ![a] = ret]
    BY DEF SetTargetChannel
  <1>11. returned \in [Apps -> Cohort] /\ returned[a] \in Cohort
    BY DEF TypeOK
  <1>12. ret \in Cohort /\ ret["hint"] = None
         /\ \A f \in Fields : ret[f] # None => ret[f] = returned[a][f]
    BY <1>11 DEF Cohort, Fields, Nothing
  <1> HIDE DEF cohort, newId, app, ret
  <1>13. QED
    BY <1>1, <1>3, <1>4, <1>6, <1>7, <1>8, <1>9, <1>10, <1>11, <1>12

-----------------------------------------------------------------------------
(***************************************************************************)
(* Type correctness                                                        *)
(***************************************************************************)

\* A storage holds a record for some app ids.
Stored(data) == DOMAIN data \subseteq Ids /\ \A i \in DOMAIN data : data[i] \in Record

\* What the machine is built with is a set of apps under their own app ids.
LEMMA BuiltTyped ==
  ASSUME NEW data, Stored(data)
  PROVE  /\ Built(data) \in [Apps -> App]
         /\ \A a \in Apps : Built(data)[a] = Load(Config[a], data)
         /\ \A a \in Apps : Built(data)[a].id = Config[a].id
  <1>1. \A a \in Apps : Load(Config[a], data) \in App /\ Load(Config[a], data).id = Config[a].id
    BY AppsAre, LoadIs DEF Stored
  <1>2. QED
    BY <1>1 DEF Built

\* Before anything is saved there is nothing in storage.
LEMMA EmptyStored == Stored(<<>>)
  <1>1. DOMAIN <<>> = {}
    OBVIOUS
  <1>2. QED
    BY <1>1 DEF Stored

\* The apps that the embedder configures are typed.
LEMMA TypeInit == Init => TypeOK
  <1> SUFFICES ASSUME Init PROVE TypeOK
    OBVIOUS
  <1>1. apps \in [Apps -> App] /\ \A a \in Apps : apps[a].id \in AppIds[a]
    BY EmptyStored, BuiltTyped, AppsAre DEF Init
  <1>2. Stored(store) /\ Stored(disk)
    BY EmptyStored DEF Init
  <1>3. returned \in [Apps -> Cohort]
    BY DEF Init, Nothing, Cohort
  <1>4. target \in BOOLEAN
    BY Zenon DEF Init
  <1>5. switches \in 0..MaxSwitches
    BY MaxSwitchesAssumption DEF Init
  <1>6. QED
    BY <1>1, <1>2, <1>3, <1>4, <1>5 DEF Init, TypeOK, Stored

\* No step of a check, of the embedder or of the device leaves the types.
LEMMA TypeNext == TypeOK /\ [Next]_vars => TypeOK'
  <1> SUFFICES ASSUME TypeOK, [Next]_vars
               PROVE  TypeOK'
    OBVIOUS
  <1>1. CASE Send
    BY <1>1 DEF Send, TypeOK
  <1>2. ASSUME NEW r \in Answers, Answer(r)
        PROVE  TypeOK'
    <2>1. pc' \in {"answered", "installing"}
      BY <1>2 DEF Answer
    <2>2. QED
      BY <1>2, <2>1 DEF Answer, TypeOK
  <1>3. CASE CheckFails
    BY <1>3 DEF CheckFails, TypeOK
  <1>4. ASSUME NEW ok \in BOOLEAN, Installed(ok)
        PROVE  TypeOK'
    <2>1. target' \in BOOLEAN
      <3>1. target' = (apps[SystemApp].id \in NextVersions)
        BY <1>4 DEF Installed
      <3>2. CASE apps[SystemApp].id \in NextVersions
        BY <3>1, <3>2
      <3>3. CASE ~(apps[SystemApp].id \in NextVersions)
        BY <3>1, <3>3
      <3>4. QED
        BY <3>2, <3>3
    <2>2. disk' = disk \/ disk' = store
      BY <1>4 DEF Installed
    <2>3. QED
      BY <1>4, <2>1, <2>2 DEF Installed, TypeOK
  <1>5. CASE InstallFails
    BY <1>5 DEF InstallFails, TypeOK
  <1>6. CASE Apply
    <2>1. answer \in {NoAnswer} \cup Answers
      BY DEF TypeOK
    <2>2. \A a \in Apps : /\ UpdateFromOmaha(a, answer) \in App
                          /\ UpdateFromOmaha(a, answer).id = apps[a].id
                          /\ Matches(a, answer) # {} => answer \in Answers
      BY <2>1, UpdateIs
    <2>3. apps' \in [Apps -> App] /\ \A a \in Apps : apps'[a].id \in AppIds[a]
      BY <1>6, <2>2 DEF Apply, TypeOK
    <2>4. ASSUME NEW a \in Apps, Matches(a, answer) # {}
          PROVE  Overlay(returned[a], AnswerTo(a, answer).cohort) \in Cohort
      <3>1. AnswerTo(a, answer).cohort \in Cohort
        BY <2>2, <2>4, AnswerToIs DEF AppAnswer
      <3>2. returned[a] \in Cohort
        BY DEF TypeOK
      <3>3. QED
        BY <3>1, <3>2, OverlayTyped
    <2>5. returned' \in [Apps -> Cohort]
      BY <1>6, <2>4 DEF Apply, TypeOK
    <2>6. QED
      BY <1>6, <2>3, <2>5 DEF Apply, TypeOK
  <1>7. ASSUME NEW failed \in SUBSET Apps, NEW ok \in BOOLEAN, Persist(failed, ok)
        PROVE  TypeOK'
    <2>1. /\ \A i \in DOMAIN store' :
               \/ i \in DOMAIN store /\ store'[i] = store[i]
               \/ \E a \in Apps : i = apps[a].id /\ store'[i] = RecordOf(a)
          /\ disk' = IF ok THEN store' ELSE disk
      BY <1>7, PersistIs
    <2>2. \A a \in Apps : apps[a].id \in Ids /\ RecordOf(a) \in Record
      BY DEF TypeOK, App, RecordOf, Record
    <2>3. Stored(store')
      BY <2>1, <2>2 DEF Stored, TypeOK
    <2>4. Stored(disk')
      BY <2>1, <2>3 DEF Stored, TypeOK
    <2>5. /\ pc' = "idle" /\ request' = <<>> /\ answer' = NoAnswer /\ target' \in BOOLEAN
          /\ unsaved' \subseteq Apps /\ UNCHANGED <<apps, switches, returned>>
      BY <1>7 DEF Persist
    <2>6. QED
      BY <2>3, <2>4, <2>5 DEF Stored, TypeOK
  <1>8. ASSUME NEW a \in Apps, NEW channel \in Values \cup {None},
               NEW id \in AppIds[a] \cup {None}, SetTargetChannel(a, channel, id)
        PROVE  TypeOK'
    <2>1. /\ apps' \in [Apps -> App]
          /\ \A b \in Apps \ {a} : apps'[b] = apps[b]
          /\ apps'[a].id \in AppIds[a]
          /\ returned' \in [Apps -> Cohort]
      BY <1>8, SwitchIs
    <2>2. \A b \in Apps : apps'[b].id \in AppIds[b]
      BY <2>1 DEF TypeOK
    <2>3. switches' \in 0..MaxSwitches /\ unsaved' \subseteq Apps
      BY <1>8, MaxSwitchesAssumption DEF SetTargetChannel, TypeOK
    <2>4. UNCHANGED <<pc, request, answer, target, store, disk>>
      BY <1>8 DEF SetTargetChannel
    <2>5. QED
      BY <2>1, <2>2, <2>3, <2>4 DEF TypeOK
  <1>9. CASE Crash
    BY <1>9 DEF Crash, TypeOK
  <1>10. CASE Boot
    <2>1. Stored(disk)
      BY DEF TypeOK, Stored
    <2>2. apps' \in [Apps -> App] /\ \A a \in Apps : apps'[a].id \in AppIds[a]
      BY <1>10, <2>1, BuiltTyped, AppsAre DEF Boot
    <2>3. returned' \in [Apps -> Cohort]
      <3>1. Nothing \in Cohort
        BY DEF Nothing, Cohort
      <3>2. \A i \in DOMAIN disk : disk[i].returned \in Cohort
        BY <2>1 DEF Stored, Record
      <3>3. QED
        BY <1>10, <3>1, <3>2 DEF Boot
    <2>4. QED
      BY <1>10, <2>2, <2>3 DEF Boot, TypeOK
  <1>11. CASE UNCHANGED vars
    BY <1>11 DEF vars, TypeOK
  <1>12. QED
    BY <1>1, <1>2, <1>3, <1>4, <1>5, <1>6, <1>7, <1>8, <1>9, <1>10, <1>11 DEF Next

\* Every reachable state is typed; in particular an app has an app id of its
\* own at every moment, whatever the embedder and Omaha do.
THEOREM TypeCorrect == Spec => []TypeOK
  <1>1. QED
    BY TypeInit, TypeNext, PTL DEF Spec

-----------------------------------------------------------------------------
(***************************************************************************)
(* A restart                                                               *)
(***************************************************************************)

\* A step that leaves the apps and the count of what is unsaved, and commits
\* at most, keeps what a restart finds.
LEMMA KeptIdle ==
  ASSUME Kept, UNCHANGED <<apps, store, unsaved>>, disk' \in {disk, store},
         pc' # "off" \/ disk' = store
  PROVE  Kept'
  <1>1. pc' = "off" \/ unsaved' # Apps => store' = disk'
    BY DEF Kept
  <1>2. unsaved # Apps => disk' = disk
    BY DEF Kept
  <1>3. ASSUME NEW a \in Apps \ unsaved'
        PROVE  Restored(a, disk)'
    BY <1>2, <1>3 DEF Kept, Restored
  <1>4. QED
    BY <1>1, <1>3 DEF Kept

\* Neither a check, nor the embedder, nor a crash, nor a set that fails makes a
\* restart forget an app that counts as saved.
LEMMA KeptNext == TypeOK /\ Kept /\ [Next]_vars => Kept'
  <1> SUFFICES ASSUME TypeOK, Kept, [Next]_vars
               PROVE  Kept'
    OBVIOUS
  <1>1. CASE Send \/ CheckFails \/ InstallFails
    BY <1>1, KeptIdle DEF Send, CheckFails, InstallFails
  <1>2. ASSUME NEW r \in Answers, Answer(r)
        PROVE  Kept'
    BY <1>2, KeptIdle DEF Answer
  <1>3. ASSUME NEW ok \in BOOLEAN, Installed(ok)
        PROVE  Kept'
    BY <1>3, KeptIdle DEF Installed
  <1>4. CASE Apply
    BY <1>4 DEF Apply, Kept
  <1>5. ASSUME NEW failed \in SUBSET Apps, NEW ok \in BOOLEAN, Persist(failed, ok)
        PROVE  Kept'
    <2>1. pc' = "idle" /\ unsaved' = (IF ok THEN failed ELSE Apps) /\ UNCHANGED apps
      BY <1>5 DEF Persist
    <2>2. CASE ~ok
      BY <2>1, <2>2 DEF Kept
    <2>3. CASE ok
      <3>1. /\ \A a \in Apps \ failed :
                 apps[a].id \in DOMAIN store' /\ store'[apps[a].id] = RecordOf(a)
            /\ disk' = store'
        BY <1>5, <2>3, PersistIs
      <3>2. Stored(disk')
        BY TypeNext DEF TypeOK, Stored
      <3>3. ASSUME NEW a \in Apps \ failed, apps[a].id = Config[a].id
            PROVE  /\ \A f \in Loaded(a) :
                        Load(Config[a], disk').cohort[f] = apps[a].cohort[f]
                   /\ Config[a].counting = None =>
                        Load(Config[a], disk').counting = apps[a].counting
        <4>1. Config[a] \in App
          BY AppsAre
        <4>2. Config[a].id \in DOMAIN disk' /\ disk'[Config[a].id] = RecordOf(a)
          BY <3>1, <3>3
        <4>3. disk'[Config[a].id].cohort = apps[a].cohort
              /\ disk'[Config[a].id].counting = apps[a].counting
          BY <4>2 DEF RecordOf
        <4>4. QED
          BY <3>2, <4>1, <4>2, <4>3, LoadIs DEF Loaded, Stored
      <3>4. \A a \in Apps \ unsaved' : Restored(a, disk)'
        BY <2>1, <2>3, <3>3 DEF Restored
      <3>5. QED
        BY <3>1, <3>4 DEF Kept
    <2>4. QED
      BY <2>2, <2>3
  <1>6. ASSUME NEW a \in Apps, NEW channel \in Values \cup {None},
               NEW id \in AppIds[a] \cup {None}, SetTargetChannel(a, channel, id)
        PROVE  Kept'
    <2>1. \A b \in Apps \ {a} : apps'[b] = apps[b]
      BY <1>6, SwitchIs
    <2>2. unsaved' = unsaved \cup {a} /\ unsaved \subseteq Apps
          /\ UNCHANGED <<pc, store, disk>>
      BY <1>6 DEF SetTargetChannel, TypeOK
    <2>3. \A b \in Apps \ unsaved' : Restored(b, disk)'
      BY <2>1, <2>2 DEF Kept, Restored
    <2>4. unsaved' # Apps => unsaved # Apps
      BY <2>2
    <2>5. QED
      BY <2>2, <2>3, <2>4 DEF Kept
  <1>7. CASE Crash
    <2>1. UNCHANGED <<apps, disk, unsaved>> /\ store' = disk
      BY <1>7 DEF Crash
    <2>2. QED
      BY <2>1 DEF Kept, Restored
  <1>8. CASE Boot
    <2>1. /\ UNCHANGED <<store, disk>> /\ apps' = Built(disk) /\ store = disk
          /\ pc' = "idle" /\ unsaved' = {}
      BY <1>8 DEF Boot, Kept
    <2>2. \A a \in Apps : apps'[a] = Load(Config[a], disk)
      BY <2>1, BuiltTyped DEF TypeOK, Stored
    <2>3. \A a \in Apps : Restored(a, disk)'
      BY <2>1, <2>2 DEF Restored
    <2>4. QED
      BY <2>1, <2>3 DEF Kept
  <1>9. CASE UNCHANGED vars
    BY <1>9 DEF vars, Kept, Restored
  <1>10. QED
    BY <1>1, <1>2, <1>3, <1>4, <1>5, <1>6, <1>7, <1>8, <1>9 DEF Next

\* At rest a restart changes no app but those that the embedder changed or the
\* storage failed to save; one failing set costs no other app its state.
THEOREM NothingIsForgotten == Spec => []RestartForgetsNothing
  <1>1. Init => Kept
    <2> SUFFICES ASSUME Init PROVE Kept
      OBVIOUS
    <2>1. \A a \in Apps : apps[a] = Load(Config[a], disk)
      BY EmptyStored, BuiltTyped DEF Init
    <2>2. QED
      BY <2>1 DEF Init, Kept, Restored
  <1>2. Kept => RestartForgetsNothing
    BY DEF Kept, Restored, RestartForgetsNothing
  <1>3. QED
    BY <1>1, <1>2, KeptNext, TypeCorrect, PTL DEF Spec

-----------------------------------------------------------------------------
(***************************************************************************)
(* What is sent                                                            *)
(***************************************************************************)

\* The cohort in memory and in storage is the one that Omaha returned, through
\* answers, changes of channels, saves that fail, crashes and restarts.
LEMMA CurrentNext == TypeOK /\ Current /\ [Next]_vars => Current'
  <1> SUFFICES ASSUME TypeOK, Current, [Next]_vars
               PROVE  Current'
    OBVIOUS
  <1>0. ASSUME UNCHANGED <<apps, returned>>, store' \in {store, disk}, disk' \in {store, disk}
        PROVE  Current'
    <2>1. \A a \in Apps : \A f \in Loaded(a) :
            returned'[a][f] # None => apps'[a].cohort[f] = returned'[a][f]
      BY <1>0 DEF Current
    <2>2. Faithful(store') /\ Faithful(disk')
      BY <1>0 DEF Current
    <2>3. QED
      BY <2>1, <2>2 DEF Current, Faithful, Loaded
  <1>1. CASE Send \/ CheckFails \/ InstallFails \/ Crash \/ UNCHANGED vars
    BY <1>0, <1>1 DEF Send, CheckFails, InstallFails, Crash, vars
  <1>2. ASSUME NEW r \in Answers, Answer(r)
        PROVE  Current'
    BY <1>0, <1>2 DEF Answer
  <1>3. ASSUME NEW ok \in BOOLEAN, Installed(ok)
        PROVE  Current'
    BY <1>0, <1>3 DEF Installed
  <1>4. CASE Apply
    <2>1. UNCHANGED <<store, disk>>
      BY <1>4 DEF Apply
    <2>2. ASSUME NEW a \in Apps, NEW f \in Loaded(a), returned'[a][f] # None
          PROVE  apps'[a].cohort[f] = returned'[a][f]
      <3>1. answer \in {NoAnswer} \cup Answers /\ f \in Fields
            /\ returned[a] \in Cohort /\ apps[a].cohort \in Cohort
        BY DEF TypeOK, Loaded, App
      <3>2. apps'[a] = UpdateFromOmaha(a, answer)
        BY <1>4 DEF Apply
      <3>3. returned'[a] = IF Matches(a, answer) = {} THEN returned[a]
                           ELSE Overlay(returned[a], AnswerTo(a, answer).cohort)
        BY <1>4 DEF Apply
      <3>4. CASE Matches(a, answer) = {}
        BY <2>2, <3>1, <3>2, <3>3, <3>4, UpdateIs DEF Current
      <3>5. CASE Matches(a, answer) # {}
        <4>1. apps'[a].cohort = Overlay(apps[a].cohort, AnswerTo(a, answer).cohort)
              /\ answer \in Answers
          BY <3>1, <3>2, <3>5, UpdateIs
        <4>2. AnswerTo(a, answer).cohort \in Cohort
          BY <3>5, <4>1, AnswerToIs DEF AppAnswer
        <4>3. returned[a][f] # None => apps[a].cohort[f] = returned[a][f]
          BY DEF Current
        <4>4. QED
          BY <2>2, <3>1, <3>3, <3>5, <4>1, <4>2, <4>3, OverlayTyped
      <3>6. QED
        BY <3>4, <3>5
    <2>3. QED
      BY <2>1, <2>2 DEF Current, Faithful, Loaded
  <1>5. ASSUME NEW failed \in SUBSET Apps, NEW ok \in BOOLEAN, Persist(failed, ok)
        PROVE  Current'
    <2>1. /\ \A i \in DOMAIN store' :
               \/ i \in DOMAIN store /\ store'[i] = store[i]
               \/ \E a \in Apps : i = apps[a].id /\ store'[i] = RecordOf(a)
          /\ disk' = IF ok THEN store' ELSE disk
      BY <1>5, PersistIs
    <2>2. UNCHANGED <<apps, returned>>
      BY <1>5 DEF Persist
    <2>3. Faithful(store')
      <3> SUFFICES ASSUME NEW a \in Apps, Config[a].id \in DOMAIN store', NEW f \in Loaded(a),
                          store'[Config[a].id].returned[f] # None
                   PROVE  store'[Config[a].id].cohort[f] = store'[Config[a].id].returned[f]
        BY DEF Faithful
      <3>1. CASE Config[a].id \in DOMAIN store /\ store'[Config[a].id] = store[Config[a].id]
        BY <3>1 DEF Current, Faithful
      <3>2. ASSUME NEW b \in Apps, Config[a].id = apps[b].id,
                   store'[Config[a].id] = RecordOf(b)
            PROVE  store'[Config[a].id].cohort[f] = store'[Config[a].id].returned[f]
        <4>1. a = b
          BY <3>2, AppsAre, IdsOwn DEF TypeOK
        <4>2. store'[Config[a].id].cohort = apps[a].cohort
              /\ store'[Config[a].id].returned = returned[a]
          BY <3>2, <4>1 DEF RecordOf
        <4>3. QED
          BY <4>2 DEF Current
      <3>3. QED
        BY <2>1, <3>1, <3>2
    <2>4. Faithful(disk')
      BY <2>1, <2>3 DEF Current
    <2>5. QED
      BY <2>2, <2>3, <2>4 DEF Current, Faithful, Loaded
  <1>6. ASSUME NEW a \in Apps, NEW channel \in Values \cup {None},
               NEW id \in AppIds[a] \cup {None}, SetTargetChannel(a, channel, id)
        PROVE  Current'
    <2>1. /\ \A b \in Apps \ {a} : apps'[b] = apps[b] /\ returned'[b] = returned[b]
          /\ \A f \in Fields \ {"hint"} : apps'[a].cohort[f] = apps[a].cohort[f]
          /\ returned'[a]["hint"] = None
          /\ \A f \in Fields : returned'[a][f] # None => returned'[a][f] = returned[a][f]
      BY <1>6, SwitchIs
    <2>2. UNCHANGED <<store, disk>>
      BY <1>6 DEF SetTargetChannel
    <2>3. ASSUME NEW b \in Apps, NEW f \in Loaded(b), returned'[b][f] # None
          PROVE  apps'[b].cohort[f] = returned'[b][f]
      BY <2>1, <2>3 DEF Current, Loaded
    <2>4. QED
      BY <2>2, <2>3 DEF Current, Faithful, Loaded
  <1>7. CASE Boot
    <2>1. Stored(disk) /\ UNCHANGED <<store, disk>>
      BY <1>7 DEF TypeOK, Stored, Boot
    <2>2. ASSUME NEW a \in Apps, NEW f \in Loaded(a), returned'[a][f] # None
          PROVE  apps'[a].cohort[f] = returned'[a][f]
      <3>1. apps'[a] = Load(Config[a], disk) /\ Config[a] \in App
        BY <1>7, <2>1, BuiltTyped, AppsAre DEF Boot
      <3>2. returned'[a] = IF Config[a].id \in DOMAIN disk THEN disk[Config[a].id].returned
                           ELSE Nothing
        BY <1>7 DEF Boot
      <3>3. Config[a].id \in DOMAIN disk
        BY <2>2, <3>2 DEF Nothing, Loaded
      <3>4. apps'[a].cohort[f] = disk[Config[a].id].cohort[f]
        BY <2>1, <3>1, <3>3, LoadIs DEF Stored, Loaded
      <3>5. QED
        BY <2>2, <3>2, <3>3, <3>4 DEF Current, Faithful
    <2>3. QED
      BY <2>1, <2>2 DEF Current, Faithful, Loaded
  <1>8. QED
    BY <1>1, <1>2, <1>3, <1>4, <1>5, <1>6, <1>7 DEF Next

\* Every request says of an app the cohort that Omaha last returned for it and
\* that was saved, whatever came in between.
THEOREM CohortIsSent == Spec => ReturnedCohortIsSent
  <1>1. Init => Current
    <2> SUFFICES ASSUME Init PROVE Current
      OBVIOUS
    <2>1. \A a \in Apps : \A f \in Loaded(a) : returned[a][f] = None
      BY DEF Init, Nothing, Loaded
    <2>2. DOMAIN store = {} /\ DOMAIN disk = {}
      BY DEF Init
    <2>3. QED
      BY <2>1, <2>2 DEF Current, Faithful
  <1>2. Current /\ [Next]_vars =>
          [Send => \A a \in Apps : \A f \in Loaded(a) :
             returned[a][f] # None => request'[a].cohort[f] = returned[a][f]]_vars
    BY DEF Current, Send
  <1>3. QED
    BY <1>1, <1>2, CurrentNext, TypeCorrect, PTL DEF Spec, ReturnedCohortIsSent

-----------------------------------------------------------------------------
(***************************************************************************)
(* What an answer is about                                                 *)
(***************************************************************************)

\* A request and its answer stay together.
LEMMA AskedNext == TypeOK /\ Asked /\ [Next]_vars => Asked'
  <1> SUFFICES ASSUME TypeOK, Asked, [Next]_vars
               PROVE  Asked'
    OBVIOUS
  <1>1. CASE Send
    BY <1>1 DEF Send, TypeOK, Asked
  <1>2. ASSUME NEW r \in Answers, Answer(r)
        PROVE  Asked'
    BY <1>2 DEF Answer, Asked
  <1>3. CASE CheckFails
    BY <1>3 DEF CheckFails, Asked
  <1>4. ASSUME NEW ok \in BOOLEAN, Installed(ok)
        PROVE  Asked'
    BY <1>4 DEF Installed, Asked
  <1>5. CASE InstallFails
    BY <1>5 DEF InstallFails, Asked
  <1>6. CASE Apply \/ Crash \/ Boot
    BY <1>6 DEF Apply, Crash, Boot, Asked
  <1>7. ASSUME NEW failed \in SUBSET Apps, NEW ok \in BOOLEAN, Persist(failed, ok)
        PROVE  Asked'
    BY <1>7 DEF Persist, Asked
  <1>8. ASSUME NEW a \in Apps, NEW channel \in Values \cup {None},
               NEW id \in AppIds[a] \cup {None}, SetTargetChannel(a, channel, id)
        PROVE  Asked'
    BY <1>8 DEF SetTargetChannel, Asked
  <1>9. CASE UNCHANGED vars
    BY <1>9 DEF vars, Asked
  <1>10. QED
    BY <1>1, <1>2, <1>3, <1>4, <1>5, <1>6, <1>7, <1>8, <1>9 DEF Next

\* An answer changes an app only if it is about the app id that the app had in
\* the request and still has, however often the embedder changed channels in
\* between and in whatever order Omaha answered.
THEOREM AnswerMeetsItsApp == Spec => AnswerIsForItsApp
  <1> DEFINE Meets ==
        Apply => \A a \in Apps :
          apps'[a] # apps[a] =>
            /\ apps[a].id = request[a].id
            /\ \E i \in 1..Len(answer.apps) :
                 /\ answer.apps[i].id = request[a].id
                 /\ \A f \in Fields : apps'[a].cohort[f] \in
                      {apps[a].cohort[f], answer.apps[i].cohort[f]}
  <1>1. Init => Asked
    BY DEF Init, Asked
  <1>2. TypeOK /\ Asked => Meets
    <2> SUFFICES ASSUME TypeOK, Asked, Apply, NEW a \in Apps, apps'[a] # apps[a]
                 PROVE  /\ apps[a].id = request[a].id
                        /\ \E i \in 1..Len(answer.apps) :
                             /\ answer.apps[i].id = request[a].id
                             /\ \A f \in Fields : apps'[a].cohort[f] \in
                                  {apps[a].cohort[f], answer.apps[i].cohort[f]}
      OBVIOUS
    <2>1. answer \in {NoAnswer} \cup Answers /\ apps'[a] = UpdateFromOmaha(a, answer)
      BY DEF TypeOK, Apply
    <2>2. /\ Matches(a, answer) # {} /\ answer \in Answers
          /\ apps'[a].cohort = Overlay(apps[a].cohort, AnswerTo(a, answer).cohort)
      BY <2>1, UpdateIs
    <2>3. PICK i \in 1..Len(answer.apps) :
            answer.apps[i] = AnswerTo(a, answer) /\ answer.apps[i].id = apps[a].id
      BY <2>2, AnswerToIs
    <2>o. apps[a].id \in Ids /\ apps[a].id \notin Strangers
      BY AppsAssumption DEF TypeOK, App
    <2>4. PICK b \in Apps : answer.apps[i].id = request[b].id
      BY <2>3, <2>o DEF Asked, Apply
    <2>5. request[b].id \in AppIds[b] /\ apps[a].id \in AppIds[a]
      BY DEF Asked, Apply, TypeOK
    <2>6. a = b
      BY <2>3, <2>4, <2>5, IdsOwn
    <2>7. apps[a].cohort \in Cohort /\ answer.apps[i].cohort \in Cohort
      BY <2>2, <2>3, AnswerToIs DEF TypeOK, App, AppAnswer
    <2>8. \A f \in Fields : apps'[a].cohort[f] \in {apps[a].cohort[f], answer.apps[i].cohort[f]}
      BY <2>2, <2>3, <2>7, OverlayTyped
    <2>9. QED
      BY <2>3, <2>4, <2>6, <2>8
  <1>3. TypeOK /\ Asked => [Meets]_vars
    BY <1>2
  <1>4. QED
    BY <1>1, <1>3, AskedNext, TypeCorrect, PTL DEF Spec, AnswerIsForItsApp

=============================================================================
