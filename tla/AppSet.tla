------------------------------- MODULE AppSet -------------------------------
(***************************************************************************)
(* The apps that updates are checked for: App, Cohort and AppSetExt        *)
(* (common.rs, protocol.rs, app_set.rs), as the state machine and the      *)
(* embedder use them.                                                      *)
(*                                                                         *)
(* The app set is shared. The state machine copies it for a request, puts  *)
(* Omaha's answer into it and persists it; it gives up the lock between    *)
(* these steps, so the embedder may give an app another channel, and with  *)
(* it another app id, at any point of a check. Apps are persisted under    *)
(* their app ids, and loaded when the state machine is built.              *)
(***************************************************************************)
EXTENDS Naturals, Sequences

CONSTANTS
    None,           \* Option::None
    Values,         \* what a cohort's fields may hold
    Config,         \* the apps as the embedder configures them when it starts
    AppIds,         \* the app ids that the embedder may give to each app
    Strangers,      \* app ids that are no app's
    Answers,        \* what Omaha may answer
    MaxSwitches     \* bound on the embedder's changes of a channel

Apps == 1..Len(Config)

\* VecAppSet: the first app is the system app.
SystemApp == 1

Ids == UNION {AppIds[a] : a \in Apps}

Fields == {"id", "hint", "name"}

Cohort == [Fields -> Values \cup {None}]

App == [id : Ids, cohort : Cohort, counting : Nat \cup {None}]

AppAnswer == [id : Ids \cup Strangers, cohort : Cohort, offered : BOOLEAN]

\* What counts of the daystart of an answer.
DayStart == [elapsed_days : Nat \cup {None}]

\* The app ids of an app are its own: on whatever channels two apps are, Omaha
\* never takes one for the other.
ASSUME AppsAssumption ==
    /\ None \notin Values \cup Nat
    /\ Config \in Seq(App) /\ Len(Config) > 0
    /\ \A a \in Apps : Config[a].id \in AppIds[a]
    /\ \A a, b \in Apps : a # b => AppIds[a] \cap AppIds[b] = {}
    /\ Strangers \cap Ids = {}

ASSUME AnswersAssumption ==
    Answers \subseteq [daystart : DayStart \cup {None}, apps : Seq(AppAnswer)]

ASSUME MaxSwitchesAssumption == MaxSwitches \in Nat

VARIABLES
    pc,         \* "idle", "waiting" for Omaha, "installing", "answered" (an
                \* answer is about to be applied), "saving", or "off"
    apps,       \* the apps in memory
    request,    \* the copy of the apps that the check in progress is about
    answer,     \* Omaha's answer to it
    target,     \* was TARGET_VERSION written for this check's update
    store,      \* the storage, with what has not been committed
    disk,       \* what has been committed
    switches,   \* the number of the embedder's changes
    unsaved,    \* history: the apps whose state the storage need not have
    returned    \* history: the cohort that Omaha returned for each app

vars == <<pc, apps, request, answer, target, store, disk, switches, unsaved, returned>>

\* No answer yet.
NoAnswer == [daystart |-> None, apps |-> <<>>]

\* PersistedApp, with the history of the cohort it holds.
Record == [cohort : Cohort, counting : Nat \cup {None}, returned : Cohort]

TypeOK ==
    /\ pc \in {"idle", "waiting", "installing", "answered", "saving", "off"}
    /\ apps \in [Apps -> App]
    /\ \A a \in Apps : apps[a].id \in AppIds[a]
    /\ request \in {<<>>} \cup [Apps -> App]
    /\ answer \in {NoAnswer} \cup Answers
    /\ target \in BOOLEAN
    /\ DOMAIN store \subseteq Ids /\ \A i \in DOMAIN store : store[i] \in Record
    /\ DOMAIN disk \subseteq Ids /\ \A i \in DOMAIN disk : disk[i] \in Record
    /\ switches \in 0..MaxSwitches
    /\ unsaved \subseteq Apps
    /\ returned \in [Apps -> Cohort]

Nothing == [f \in Fields |-> None]

-----------------------------------------------------------------------------
(***************************************************************************)
(* Operations on apps                                                      *)
(***************************************************************************)

\* A field of a cohort takes a new value if there is one.
Overlay(old, new) ==
    [f \in Fields |-> IF new[f] # None THEN new[f] ELSE old[f]]

\* Mutants: a field that was not transmitted is erased; apps are matched by
\* their place in the answer.
CohortUpdateErases(old, new) == new

MatchesByPlace(a, r) == {a} \cap 1..Len(r.apps)

\* Cohort::update_from_omaha
CohortUpdate(old, new) == Overlay(old, new)

\* From<Option<DayStart>> for UserCounting
UserCounting(daystart) == IF daystart = None THEN None ELSE daystart.elapsed_days

\* The places of the answers to an app, of which the first counts.
Matches(a, r) == {i \in 1..Len(r.apps) : r.apps[i].id = apps[a].id}

AnswerTo(a, r) ==
    r.apps[CHOOSE i \in Matches(a, r) : \A j \in Matches(a, r) : i <= j]

\* AppSetExt::update_from_omaha
UpdateFromOmaha(a, r) ==
    IF Matches(a, r) = {} THEN apps[a]
    ELSE [apps[a] EXCEPT
            !.cohort = CohortUpdate(@, AnswerTo(a, r).cohort),
            !.counting = UserCounting(r.daystart)]

\* App::load: a field that is configured is kept.
Load(app, data) ==
    IF app.id \notin DOMAIN data THEN app
    ELSE [app EXCEPT
            !.cohort = Overlay(data[app.id].cohort, @),
            !.counting = IF @ = None THEN data[app.id].counting ELSE @]

-----------------------------------------------------------------------------
(***************************************************************************)
(* The state machine and the embedder                                      *)
(***************************************************************************)

\* AppSetExt::load in StateMachineBuilder::build
Built(data) == [a \in Apps |-> Load(Config[a], data)]

Init ==
    /\ pc = "idle"
    /\ apps = Built(<<>>)
    /\ request = <<>>
    /\ answer = NoAnswer
    /\ target = FALSE
    /\ store = <<>>
    /\ disk = <<>>
    /\ switches = 0
    /\ unsaved = {}
    /\ returned = [a \in Apps |-> Nothing]

\* A check or a ping begins: it asks about a copy of the apps.
Send ==
    /\ pc = "idle"
    /\ pc' = "waiting"
    /\ request' = apps
    /\ UNCHANGED <<apps, answer, target, store, disk, switches, unsaved, returned>>

\* Omaha answers about apps of the request, and perhaps about others, which the
\* client does not know. When an app has an update, it may be installed; the
\* answer to a ping never offers one. A new poll interval, and an update seen
\* for the first time, are committed at once.
Answer(r) ==
    /\ pc = "waiting"
    /\ \A i \in 1..Len(r.apps) :
         r.apps[i].id \in Strangers \/ \E a \in Apps : r.apps[i].id = request[a].id
    /\ answer' = r
    /\ pc' \in {"answered"} \cup
         {"installing" : i \in {j \in 1..Len(r.apps) : r.apps[j].offered}}
    /\ disk' \in {disk, store}
    /\ UNCHANGED <<apps, request, target, store, switches, unsaved, returned>>

\* The request fails, or its answer cannot be used: nothing is applied.
CheckFails ==
    /\ pc = "waiting"
    /\ pc' = "saving"
    /\ disk' \in {disk, store}
    /\ UNCHANGED <<apps, request, answer, target, store, switches, unsaved, returned>>

\* next_versions: the ids that have an update.
NextVersions ==
    {answer.apps[i].id : i \in {j \in 1..Len(answer.apps) : answer.apps[j].offered}}

\* Everything has been installed: TARGET_VERSION is written if the system app,
\* by the id it has now, has an update, and the storage is committed.
Installed(ok) ==
    /\ pc = "installing"
    /\ pc' = "answered"
    /\ target' = (apps[SystemApp].id \in NextVersions)
    /\ disk' = IF ok THEN store ELSE disk
    /\ UNCHANGED <<apps, request, answer, store, switches, unsaved, returned>>

\* An app could not be installed.
InstallFails ==
    /\ pc = "installing"
    /\ pc' = "answered"
    /\ UNCHANGED <<apps, request, answer, target, store, disk, switches, unsaved, returned>>

\* The answer is put into the apps.
Apply ==
    /\ pc = "answered"
    /\ pc' = "saving"
    /\ apps' = [a \in Apps |-> UpdateFromOmaha(a, answer)]
    /\ returned' = [a \in Apps |->
         IF Matches(a, answer) = {} THEN returned[a]
         ELSE Overlay(returned[a], AnswerTo(a, answer).cohort)]
    /\ unsaved' = Apps
    /\ UNCHANGED <<request, answer, target, store, disk, switches>>

\* Mutant: a failing set ends the loop.
PersistUntilFailure(failed, ok) ==
    LET Kept == {a \in Apps : \A b \in 1..a : b \notin failed}
        Saved == {apps[a].id : a \in Kept}
        Of(i) == CHOOSE a \in Apps : apps[a].id = i
    IN /\ pc = "saving"
       /\ pc' = "idle"
       /\ store' = [i \in DOMAIN store \cup Saved |->
            IF i \in Saved
              THEN [cohort |-> apps[Of(i)].cohort, counting |-> apps[Of(i)].counting,
                    returned |-> returned[Of(i)]]
              ELSE store[i]]
       /\ disk' = IF ok THEN store' ELSE disk
       /\ unsaved' = IF ok THEN failed ELSE Apps
       /\ request' = <<>>
       /\ answer' = NoAnswer
       /\ target' = FALSE
       /\ UNCHANGED <<apps, switches, returned>>

\* persist_data: every app is set, the ones after a failing set too, and the
\* storage is committed.
Persist(failed, ok) ==
    LET Saved == {apps[a].id : a \in Apps \ failed}
        Of(i) == CHOOSE a \in Apps : apps[a].id = i
    IN /\ pc = "saving"
       /\ pc' = "idle"
       /\ store' = [i \in DOMAIN store \cup Saved |->
            IF i \in Saved
              THEN [cohort |-> apps[Of(i)].cohort, counting |-> apps[Of(i)].counting,
                    returned |-> returned[Of(i)]]
              ELSE store[i]]
       /\ disk' = IF ok THEN store' ELSE disk
       /\ unsaved' = IF ok THEN failed ELSE Apps
       /\ request' = <<>>
       /\ answer' = NoAnswer
       /\ target' = FALSE
       /\ UNCHANGED <<apps, switches, returned>>

\* Mutant: the app id is overwritten when none is given, too.
SetTargetChannelAndId(a, channel, id) ==
    /\ pc # "off"
    /\ switches < MaxSwitches
    /\ apps' = [apps EXCEPT ![a].cohort.hint = channel, ![a].id = id]
    /\ switches' = switches + 1
    /\ unsaved' = unsaved \cup {a}
    /\ UNCHANGED <<pc, request, answer, target, store, disk, returned>>

\* The embedder calls set_target_channel, at any time; id is None if the app
\* keeps its app id.
SetTargetChannel(a, channel, id) ==
    /\ pc # "off"
    /\ switches < MaxSwitches
    /\ apps' = [apps EXCEPT ![a].cohort.hint = channel,
                            ![a].id = IF id # None THEN id ELSE @]
    /\ switches' = switches + 1
    /\ unsaved' = unsaved \cup {a}
    /\ returned' = [returned EXCEPT ![a] =
         IF id # None THEN Nothing ELSE [@ EXCEPT !.hint = None]]
    /\ UNCHANGED <<pc, request, answer, target, store, disk>>

\* The device stops, in any state; what was not committed is lost.
Crash ==
    /\ pc # "off"
    /\ pc' = "off"
    /\ store' = disk
    /\ request' = <<>>
    /\ answer' = NoAnswer
    /\ target' = FALSE
    /\ UNCHANGED <<apps, disk, switches, unsaved, returned>>

\* It starts again: the embedder configures the apps, and build loads them.
Boot ==
    /\ pc = "off"
    /\ pc' = "idle"
    /\ apps' = Built(disk)
    /\ unsaved' = {}
    /\ returned' = [a \in Apps |->
         IF Config[a].id \in DOMAIN disk THEN disk[Config[a].id].returned ELSE Nothing]
    /\ UNCHANGED <<request, answer, target, store, disk, switches>>

Next ==
    \/ Send
    \/ \E r \in Answers : Answer(r)
    \/ CheckFails
    \/ \E ok \in BOOLEAN : Installed(ok)
    \/ InstallFails
    \/ Apply
    \/ \E failed \in SUBSET Apps, ok \in BOOLEAN : Persist(failed, ok)
    \/ \E a \in Apps : \E channel \in Values \cup {None}, id \in AppIds[a] \cup {None} :
         SetTargetChannel(a, channel, id)
    \/ Crash
    \/ Boot

Spec == Init /\ [][Next]_vars

-----------------------------------------------------------------------------
(***************************************************************************)
(* Properties                                                              *)
(***************************************************************************)

\* The fields that load takes from the storage: a field that the embedder
\* configures is kept ("Do not overwrite existing fields in app").
Loaded(a) == {f \in Fields : Config[a].cohort[f] = None}

\* What persist_data saved is what load restores: at rest, a restart would
\* change no app but those the embedder changed or the storage failed to save,
\* one app's failing set costs no other app its state, and an app id never
\* gets the state of another.
RestartForgetsNothing ==
    pc = "idle" =>
      \A a \in Apps \ unsaved :
        LET again == Load(Config[a], disk)
        IN apps[a].id = Config[a].id =>
             /\ \A f \in Loaded(a) : again.cohort[f] = apps[a].cohort[f]
             /\ Config[a].counting = None => again.counting = apps[a].counting

\* "On the next update check for that application, the updater needs to use
\* this newly returned cohort as the one that it sends to Omaha with that
\* application" (Cohort): what a request says of an app is what Omaha last
\* returned for it, unless a crash came before it was saved, the embedder has
\* changed the channel since, or it configures the field.
ReturnedCohortIsSent ==
    [][Send => \A a \in Apps : \A f \in Loaded(a) :
         returned[a][f] # None => request'[a].cohort[f] = returned[a][f]]_vars

\* An answer changes an app only if it is about the app id that the app had
\* in the request and still has, whatever the order of the answers and whatever
\* apps it names that the client does not know.
AnswerIsForItsApp ==
    [][Apply => \A a \in Apps :
         apps'[a] # apps[a] =>
           /\ apps[a].id = request[a].id
           /\ \E i \in 1..Len(answer.apps) :
                /\ answer.apps[i].id = request[a].id
                /\ \A f \in Fields : apps'[a].cohort[f] \in
                     {apps[a].cohort[f], answer.apps[i].cohort[f]}]_vars

\* Refuted: perform_update_check, where it looks up the system app's version:
\* "If not found then this is not a system update".
SystemUpdateIsFound ==
    [][\A ok \in BOOLEAN : Installed(ok) =>
         (target' <=> request[SystemApp].id \in NextVersions)]_vars
=============================================================================
