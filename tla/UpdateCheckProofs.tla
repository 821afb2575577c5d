------------------------- MODULE UpdateCheckProofs -------------------------
(***************************************************************************)
(* UpdateCheck's safety, for any app set and any responses: its types,     *)
(* what of the context is on disk, what a check leaves there, what Omaha   *)
(* is told of each app, how an install is counted, and that the States     *)
(* yielded are those ObservedStates promises.                              *)
(***************************************************************************)
EXTENDS UpdateCheck, TLAPS, FiniteSetTheorems, SequenceTheorems

-----------------------------------------------------------------------------
(***************************************************************************)
(* The inductive invariant, in parts                                       *)
(***************************************************************************)

\* The request for p is under way: in do_omaha_request_and_update_context, or
\* just returned from it.
Talking(p) == pc \in {"sending", "savingPoll", "returned"} /\ purpose = p

\* perform_update_check has a response that offers an update.
Acting == \/ pc \in {"planFailed", "conclude"}
          \/ \E p \in {"planError", "deferred", "denied", "started", "results", "complete"} :
               Talking(p)

\* An update is being installed.
Installing == pc = "conclude" \/ Talking("started") \/ Talking("results") \/ Talking("complete")

\* perform_update_check has returned.
Settling == pc \in {"settle", "saving"}

\* The machine waits for a reboot, or pings meanwhile.
AwaitsReboot == pc \in {"rebootWait", "pingSave"} \/ Talking("ping")

\* A check is running.
Checking == Talking("check") \/ Talking("parseError") \/ Acting \/ Settling

\* Which State was yielded last, and what the check has come to, at each point.
Coherent ==
    /\ pc = "off" => observed = "Ended" /\ check = "none" /\ ~reboot
    /\ pc = "idle" => observed = "Idle" /\ check = "none" /\ ~reboot
    /\ Checking => check = "running" /\ ~reboot
    /\ pc = "over" \/ AwaitsReboot => check = "over"
    /\ pc = "over" => (reboot => observed = "InstallingUpdate") /\ observed # "Ended"
    /\ AwaitsReboot => reboot /\ observed = "WaitingForReboot"
    /\ Talking("check") =>
         observed = "CheckingForUpdates" /\ error = "none" /\ ~needed
           /\ resp = <<>> /\ results = <<>> /\ actions = <<>>
    /\ Talking("parseError") =>
         observed = "ErrorCheckingForUpdate" /\ error = "ResponseParser" /\ ~needed
           /\ resp = <<>> /\ results = <<>> /\ actions = <<>>
    /\ Acting => resp \in Responses /\ Updated(resp) # {} /\ ~needed
    /\ pc = "planFailed" => observed = "InstallingUpdate"
    /\ Talking("planError") => observed = "InstallationError"
    /\ Talking("deferred") \/ Talking("denied") => observed = "CheckingForUpdates"
    /\ Installing => observed = "InstallingUpdate"
    /\ Acting => error = IF pc = "planFailed" \/ Talking("planError") THEN "InstallPlan"
                                                                     ELSE "none"
    /\ Settling => (needed => observed = "InstallingUpdate") /\ observed # "Ended"

\* The three places that save: between a change of the context and its commit
\* only the part that changed differs from what is on disk, and else only what
\* the last save failed to put there.
Saved ==
    /\ pc # "saving" /\ "commit" \notin faulty => store = disk
    /\ pc # "savingPoll" /\ Kept("poll") => Load(disk).poll = ctx.poll
    /\ pc \notin {"saving", "pingSave"} /\ Kept("failed") => Load(disk).failed = ctx.failed
    /\ pc \notin {"saving", "pingSave"} /\ Kept("lastUpdate") =>
         Load(disk).lastUpdate = ctx.lastUpdate

\* The interval in force is the one that Omaha's last answer dictated, and those
\* in storage are within the cap.
Heard ==
    /\ ctx.poll = DictatedInterval(dictated)
    /\ store.poll = DictatedInterval(store.poll)
    /\ disk.poll = DictatedInterval(disk.poll)

\* How the context tells the outcome of the check that is settled.
Outcome ==
    pc \in {"saving", "over"} =>
      (ctx.failed = 0 <=> error = "none") /\ (error # "OmahaRequest" => ctx.lastUpdate = "this")

\* What the installer did is what the Actions say.
ActionsTell ==
    /\ "Failed" \in {results[i] : i \in 1..Len(results)}
         <=> "InstallPlanExecutionError" \in {actions[i] : i \in 1..Len(actions)}
    /\ "Installed" \in {results[i] : i \in 1..Len(results)}
         <=> "Updated" \in {actions[i] : i \in 1..Len(actions)}

\* The count of failed installs follows them, unless it could not be set.
AttemptsTell ==
    LET outcome == {results[i] : i \in 1..Len(results)} IN
    /\ "Failed" \in outcome => store.installAttempts > 0
    /\ "Failed" \notin outcome /\ "Installed" \in outcome => store.installAttempts = Missing

Counted ==
    /\ Talking("results") \/ pc = "conclude" \/ Talking("complete") =>
         results \in PerformInstall(Len(AppsWithUpdate(resp)))
    /\ Acting /\ ~(Talking("results") \/ pc = "conclude" \/ Talking("complete")) =>
         results = <<>>
    /\ results # <<>> =>
         /\ pc \in {"settle", "saving", "over"} => error = "none"
         /\ pc = "settle" => ActionsTell
         /\ Settling /\ "Failed" \in {results[i] : i \in 1..Len(results)} => ~needed
         /\ pc \in {"saving", "over"} /\ "installAttempts" \notin faulty => AttemptsTell
         /\ pc = "over" /\ "Failed" \in {results[i] : i \in 1..Len(results)} => ~reboot

\* The events an app with the i-th place in the response has been reported
\* with once the results are known.
InstallStory(i) ==
    IF Rank(resp, i) <= Len(results)
      THEN <<"DownloadStarted", EventFor(results[Rank(resp, i)])>>
      ELSE <<"DownloadStarted">>

WasInstalled(i) == Rank(resp, i) <= Len(results) /\ results[Rank(resp, i)] = "Installed"

\* The events reported so far for an app that has an update, at each point of
\* the check, and once it is settled.
Told(i, evs) ==
    /\ pc = "planFailed" => evs = <<>>
    /\ Talking("planError") => evs = <<"ErrorConstructInstallPlan">>
    /\ Talking("deferred") => evs = <<"UpdateDeferred">>
    /\ Talking("denied") => evs = <<"ErrorDeniedByPolicy">>
    /\ Talking("started") => evs = <<"DownloadStarted">>
    /\ Talking("results") => evs = InstallStory(i)
    /\ pc = "conclude" => evs = InstallStory(i) /\ ~WasInstalled(i)
    /\ Talking("complete") =>
         evs = IF WasInstalled(i) THEN Append(InstallStory(i), "UpdateComplete")
                                  ELSE InstallStory(i)
    /\ Settling \/ pc = "over" \/ AwaitsReboot =>
         IF error = "InstallPlan" THEN evs = <<"ErrorConstructInstallPlan">>
           ELSE error = "none" /\ evs \in Stories(actions[i])

EventsTold ==
    /\ Talking("denied") => actions = SameAction(resp, "DeniedByPolicy")
    /\ error \in {"OmahaRequest", "ResponseParser"} => resp = <<>>
    /\ \A x \in Apps \ Offered(resp) :
         events[x] = IF error = "ResponseParser" THEN <<"ErrorParseResponse">> ELSE <<>>
    /\ \A i \in Updated(resp) : resp[i].id \in Apps => Told(i, events[resp[i].id])

-----------------------------------------------------------------------------
(***************************************************************************)
(* The response: which app takes which result                              *)
(***************************************************************************)

\* A response is a sequence of apps, each with its status and each id once.
LEMMA ResponseTyped ==
    ASSUME NEW r \in Responses \cup {<<>>}
    PROVE  /\ Len(r) \in Nat
           /\ DOMAIN r = 1..Len(r)
           /\ \A i, j \in 1..Len(r) : r[i].id = r[j].id => i = j
           /\ Updated(r) \subseteq 1..Len(r)
           /\ IsFiniteSet(Updated(r))
           /\ Cardinality(Updated(r)) \in Nat
<1>1. CASE r = <<>>
  <2>1. Len(r) = 0 /\ DOMAIN r = 1..Len(r) /\ Updated(r) = {}
    BY <1>1 DEF Updated
  <2> QED
    BY <2>1, FS_EmptySet
<1>2. CASE r \in Responses
  <2>1. /\ r \in Seq([id : {r[i].id : i \in DOMAIN r}, status : {"ok", "noupdate"}])
        /\ \A i, j \in 1..Len(r) : r[i].id = r[j].id => i = j
    BY <1>2, ResponsesAssumption
  <2>2. Len(r) \in Nat /\ DOMAIN r = 1..Len(r)
    BY <2>1
  <2>3. Updated(r) \subseteq 1..Len(r)
    BY DEF Updated
  <2>4. IsFiniteSet(1..Len(r))
    BY <2>2, FS_Interval
  <2>5. IsFiniteSet(Updated(r))
    BY <2>3, <2>4, FS_Subset
  <2> QED
    BY <2>1, <2>2, <2>3, <2>5, FS_CardinalityType
<1> QED
  BY <1>1, <1>2

\* The rank of an app with an update lies among the number of those apps.
LEMMA RankBounds ==
    ASSUME NEW r \in Responses \cup {<<>>}, NEW i \in Updated(r)
    PROVE  Rank(r, i) \in 1..Cardinality(Updated(r))
<1> DEFINE U == Updated(r)
           B == {j \in U : j <= i}
<1>1. IsFiniteSet(U) /\ Cardinality(U) \in Nat /\ i \in Nat
  BY ResponseTyped DEF Updated
<1>2. IsFiniteSet(B) /\ Cardinality(B) <= Cardinality(U)
  BY <1>1, FS_Subset
<1>3. Cardinality(B) \in Nat
  BY <1>2, FS_CardinalityType
<1>4. i \in B
  BY <1>1
<1>5. Cardinality(B) # 0
  BY <1>2, <1>4, FS_EmptySet
<1>6. Rank(r, i) = Cardinality(B)
  BY DEF Rank
<1> HIDE DEF U, B
<1>7. Rank(r, i) \in 1..Cardinality(U)
  BY <1>1, <1>2, <1>3, <1>5, <1>6
<1> QED
  BY <1>7 DEF U

\* The later of two apps has the larger rank.
LEMMA RankGrows ==
    ASSUME NEW r \in Responses \cup {<<>>}, NEW i \in Updated(r), NEW j \in Updated(r), i < j
    PROVE  Rank(r, i) < Rank(r, j)
<1> DEFINE B(k) == {m \in Updated(r) : m <= k}
<1>1. IsFiniteSet(Updated(r)) /\ i \in Nat /\ j \in Nat /\ Updated(r) \subseteq Nat
  BY ResponseTyped DEF Updated
<1>2. IsFiniteSet(B(j)) /\ B(i) \subseteq B(j) /\ j \in B(j) /\ j \notin B(i)
  BY <1>1, FS_Subset
<1>3. Cardinality(B(i)) <= Cardinality(B(j)) /\ Cardinality(B(i)) # Cardinality(B(j))
  BY <1>2, FS_Subset
<1>4. Cardinality(B(i)) \in Nat /\ Cardinality(B(j)) \in Nat
  BY <1>2, FS_Subset, FS_CardinalityType
<1>5. Rank(r, i) = Cardinality(B(i)) /\ Rank(r, j) = Cardinality(B(j))
  BY DEF Rank
<1> HIDE DEF B
<1> QED
  BY <1>3, <1>4, <1>5

\* No two apps take the same result.
LEMMA RankInjective ==
    ASSUME NEW r \in Responses \cup {<<>>}, NEW i \in Updated(r), NEW j \in Updated(r),
           Rank(r, i) = Rank(r, j)
    PROVE  i = j
<1>1. i \in Nat /\ j \in Nat
  BY ResponseTyped DEF Updated
<1>2. Rank(r, i) \in Nat /\ Rank(r, j) \in Nat
  BY RankBounds, ResponseTyped
<1>3. ~(i < j) /\ ~(j < i)
  BY <1>2, RankGrows
<1> QED
  BY <1>1, <1>3

\* Every place among the apps with an update is the rank of one of them.
LEMMA RankOnto ==
    ASSUME NEW r \in Responses \cup {<<>>}, NEW k \in 1..Cardinality(Updated(r))
    PROVE  \E i \in Updated(r) : Rank(r, i) = k
<1> DEFINE U == Updated(r)
           n == Cardinality(U)
           f == [i \in U |-> Rank(r, i)]
<1>1. IsFiniteSet(U) /\ n \in Nat
  BY ResponseTyped
<1>2. IsFiniteSet(1..n) /\ Cardinality(1..n) = n
  BY <1>1, FS_Interval
<1>3. f \in [U -> 1..n]
  BY RankBounds
<1>4. \A i, j \in U : f[i] = f[j] => i = j
  BY RankInjective
<1>5. f \in Injection(U, 1..n)
  BY <1>3, <1>4 DEF Injection, IsInjective
<1> HIDE DEF U, n, f
<1>6. f \in Surjection(U, 1..n)
  BY <1>2, <1>5, FS_Injection DEF n
<1>7. PICK i \in U : f[i] = k
  BY <1>6 DEF Surjection, U, n
<1> QED
  BY <1>7 DEF f, U

\* AppsWithUpdate keeps the apps with an update, in order: the app at position
\* i of the response is the one at the place that is its rank.
LEMMA Filtered ==
    ASSUME NEW r \in Responses \cup {<<>>}
    PROVE  /\ Len(AppsWithUpdate(r)) = Cardinality(Updated(r))
           /\ \A i \in Updated(r) : AppsWithUpdate(r)[Rank(r, i)] = r[i]
<1>1. Cardinality(Updated(r)) \in Nat
  BY ResponseTyped
<1>2. Len(AppsWithUpdate(r)) = Cardinality(Updated(r))
  BY <1>1 DEF AppsWithUpdate
<1>3. ASSUME NEW i \in Updated(r)
      PROVE  AppsWithUpdate(r)[Rank(r, i)] = r[i]
  <2> DEFINE c == CHOOSE j \in Updated(r) : Rank(r, j) = Rank(r, i)
  <2>1. c \in Updated(r) /\ Rank(r, c) = Rank(r, i)
    OBVIOUS
  <2>2. c = i
    BY <2>1, RankInjective
  <2>3. AppsWithUpdate(r)[Rank(r, i)] = r[c]
    BY RankBounds, Zenon DEF AppsWithUpdate
  <2> QED
    BY <2>2, <2>3
<1> QED
  BY <1>2, <1>3

\* next_versions names exactly the apps whose status is ok.
LEMMA OfferedIds ==
    ASSUME NEW r \in Responses \cup {<<>>}
    PROVE  Offered(r) = {r[i].id : i \in Updated(r)}
<1> DEFINE n == Cardinality(Updated(r))
<1>1. Len(AppsWithUpdate(r)) = n /\ n \in Nat
  BY Filtered, ResponseTyped
<1>2. \A i \in Updated(r) : Rank(r, i) \in 1..n /\ AppsWithUpdate(r)[Rank(r, i)] = r[i]
  BY RankBounds, Filtered
<1>3. \A k \in 1..n : \E i \in Updated(r) : Rank(r, i) = k
  BY RankOnto
<1>4. Offered(r) = {AppsWithUpdate(r)[k].id : k \in 1..n}
  BY <1>1 DEF Offered
<1> HIDE DEF n
<1> QED
  BY <1>2, <1>3, <1>4

\* A response without an update is one in which no status is ok.
LEMMA NothingFiltered ==
    ASSUME NEW r \in Responses \cup {<<>>}
    PROVE  AppsWithUpdate(r) = <<>> <=> Updated(r) = {}
<1>1. Len(AppsWithUpdate(r)) = Cardinality(Updated(r))
  BY Filtered
<1>2. IsFiniteSet(Updated(r)) /\ Cardinality(Updated(r)) \in Nat
  BY ResponseTyped
<1>3. ASSUME AppsWithUpdate(r) = <<>>
      PROVE  Updated(r) = {}
  BY <1>1, <1>2, <1>3, FS_EmptySet
<1>4. ASSUME Updated(r) = {}
      PROVE  AppsWithUpdate(r) = <<>>
  <2>1. Cardinality(Updated(r)) = 0
    BY <1>4, FS_EmptySet
  <2> QED
    BY <2>1 DEF AppsWithUpdate
<1> QED
  BY <1>3, <1>4

-----------------------------------------------------------------------------
(***************************************************************************)
(* Type correctness                                                        *)
(***************************************************************************)

USE DEF Errors, Purposes, Replies, InstallResults, ActionKinds, EventKinds, Recency,
        Contexts, Stores, ContextKeys,
        Missing, NoPoll, MAX_OMAHA_REQUEST_ATTEMPTS,
        O!State, O!ObservedState, O!CheckStatus

\* The header is turned into an interval that the cap leaves as it is, and only
\* a header that is absent into None.
LEMMA DictatedTyped ==
    ASSUME NEW h \in Nat \cup {Missing}
    PROVE  /\ DictatedInterval(h) \in Nat \cup {NoPoll}
           /\ DictatedInterval(DictatedInterval(h)) = DictatedInterval(h)
           /\ DictatedInterval(h) = NoPoll => h = Missing
  BY DEF DictatedInterval

\* Persisting, loading and aging keep the types of context and storage.
LEMMA ContextTyped ==
    ASSUME NEW c \in Contexts, NEW s \in Stores, NEW failing
    PROVE  /\ Persist(c, s, failing) \in Stores
           /\ Load(s) \in Contexts
           /\ Age(c) \in Contexts
           /\ Age(s) \in Stores
<1>1. Persist(c, s, failing) \in Stores
  BY DEF Persist
<1>2. Load(s) \in Contexts
  BY DEF Load
<1>3. Age(c) \in Contexts
  BY DEF Age
<1>4. Age(s) \in Stores
  BY DEF Age
<1> QED
  BY <1>1, <1>2, <1>3, <1>4

\* So do the ways a check or a ping changes the context.
LEMMA UpdateTyped ==
    ASSUME NEW c \in Contexts, NEW n \in Nat, NEW t \in Recency
    PROVE  /\ [c EXCEPT !.failed = n, !.lastUpdate = t] \in Contexts
           /\ [c EXCEPT !.failed = n, !.lastUpdate = t].poll = c.poll
           /\ [c EXCEPT !.failed = n, !.lastUpdate = t].failed = n
           /\ [c EXCEPT !.failed = n, !.lastUpdate = t].lastUpdate = t
  OBVIOUS

\* The Action and the event a result is turned into.
LEMMA ResultsMean ==
    /\ ActionFor("Installed") = "Updated"
    /\ ActionFor("Deferred") = "DeferredByPolicy"
    /\ ActionFor("Failed") = "InstallPlanExecutionError"
    /\ EventFor("Installed") = "DownloadFinished"
    /\ EventFor("Deferred") = "UpdateDeferred"
    /\ EventFor("Failed") = "ErrorInstallation"
    /\ \A v \in InstallResults : ActionFor(v) \in ActionKinds /\ EventFor(v) \in EventKinds
<1>1. /\ ActionFor("Installed") = "Updated"
      /\ ActionFor("Deferred") = "DeferredByPolicy"
      /\ ActionFor("Failed") = "InstallPlanExecutionError"
      /\ EventFor("Installed") = "DownloadFinished"
      /\ EventFor("Deferred") = "UpdateDeferred"
      /\ EventFor("Failed") = "ErrorInstallation"
  BY Zenon DEF ActionFor, EventFor
<1>2. ASSUME NEW v \in InstallResults
      PROVE  ActionFor(v) \in ActionKinds
  BY <1>1
<1>3. ASSUME NEW v \in InstallResults
      PROVE  EventFor(v) \in EventKinds
  BY <1>1
<1> QED
  BY <1>1, <1>2, <1>3

\* The same Action for every app is a sequence of Actions.
LEMMA SameActionTyped ==
    ASSUME NEW r \in Responses \cup {<<>>}, NEW a \in ActionKinds
    PROVE  SameAction(r, a) \in Seq(ActionKinds)
<1>1. Len(r) \in Nat
  BY ResponseTyped
<1> QED
  BY <1>1 DEF SameAction

\* When no app with an update is left without a result, taking the results
\* one by one never runs out of them.
LEMMA InstallActionsTyped ==
    ASSUME NEW r \in Responses \cup {<<>>}, NEW res \in Seq(InstallResults),
           Len(res) >= Len(AppsWithUpdate(r))
    PROVE  InstallActions(r, res) \in Seq(ActionKinds)
<1>1. Len(r) \in Nat
  BY ResponseTyped
<1>2. ASSUME NEW i \in 1..Len(r), r[i].status = "ok"
      PROVE  ActionFor(res[Rank(r, i)]) \in ActionKinds
  <2>1. i \in Updated(r)
    BY <1>2 DEF Updated
  <2>2. Rank(r, i) \in 1..Cardinality(Updated(r))
    BY <2>1, RankBounds
  <2>3. Rank(r, i) \in 1..Len(res)
    BY <2>2, Filtered, ResponseTyped
  <2>4. res[Rank(r, i)] \in InstallResults
    BY <2>3
  <2> QED
    BY <2>4, ResultsMean
<1>3. \A i \in 1..Len(r) : (IF r[i].status = "ok" THEN ActionFor(res[Rank(r, i)])
                                                ELSE "NoUpdate") \in ActionKinds
  BY <1>2
<1> QED
  BY <1>1, <1>3 DEF InstallActions

\* Whatever the installer returns is a sequence of results.
LEMMA InstallTyped ==
    ASSUME NEW n \in Nat, NEW res \in PerformInstall(n)
    PROVE  res \in Seq(InstallResults)
<1>1. [1..n -> InstallResults] \subseteq Seq(InstallResults)
  OBVIOUS
<1>2. <<"Installed">> \in Seq(InstallResults) /\ <<"Failed">> \in Seq(InstallResults)
  OBVIOUS
<1> QED
  BY <1>1, <1>2 DEF PerformInstall, EveryResult, StubResults, MinimalResults

\* A report keeps the type of the events and of where the check is.
LEMMA ReportTyped ==
    ASSUME TypeOK, NEW e \in EventKinds, NEW apps, NEW versions, NEW p \in Purposes,
           Report(e, apps, versions, p)
    PROVE  /\ events' \in [Apps -> Seq(EventKinds)]
           /\ pc' = "sending" /\ purpose' \in Purposes /\ reply' \in Replies
<1>1. \A x \in Apps : events[x] \in Seq(EventKinds) /\ Append(events[x], e) \in Seq(EventKinds)
  BY DEF TypeOK
<1> QED
  BY <1>1 DEF Report

\* So does the report of the results.
LEMMA ResultsTyped ==
    ASSUME TypeOK, NEW res \in Seq(InstallResults), ReportResults(res)
    PROVE  /\ events' \in [Apps -> Seq(EventKinds)]
           /\ pc' = "sending" /\ purpose' \in Purposes /\ reply' \in Replies
<1> DEFINE paired(x) == {i \in Paired(resp, res) : AppsWithUpdate(resp)[i].id = x}
           c(x) == CHOOSE i \in paired(x) : TRUE
<1>1. ASSUME NEW x \in Apps, paired(x) # {}
      PROVE  Append(events[x], EventFor(res[c(x)])) \in Seq(EventKinds)
  <2>1. c(x) \in Paired(resp, res)
    BY <1>1
  <2>2. c(x) \in 1..Len(res)
    BY <2>1, Filtered, ResponseTyped DEF TypeOK, Paired
  <2>3. EventFor(res[c(x)]) \in EventKinds
    <3>1. res[c(x)] \in InstallResults
      BY <2>2
    <3> QED
      BY <3>1, ResultsMean
  <2> QED
    BY <2>3 DEF TypeOK
<1>2. \A x \in Apps : (IF paired(x) = {} THEN events[x]
                         ELSE Append(events[x], EventFor(res[c(x)]))) \in Seq(EventKinds)
  BY <1>1 DEF TypeOK
<1>3. events' = [x \in Apps |-> IF paired(x) = {} THEN events[x]
                                  ELSE Append(events[x], EventFor(res[c(x)]))]
  BY Zenon DEF ReportResults
<1> HIDE DEF paired, c
<1>4. events' \in [Apps -> Seq(EventKinds)]
  BY <1>2, <1>3
<1> QED
  BY <1>4 DEF ReportResults

\* The initial state is well typed.
LEMMA InitTypeOK == Init => TypeOK
<1> SUFFICES ASSUME Init
             PROVE  TypeOK
  OBVIOUS
<1>1. disk \in Stores /\ store \in Stores /\ ctx \in Contexts
  BY DEF Init, Load
<1>2. needed \in BOOLEAN /\ reboot \in BOOLEAN
  BY Zenon DEF Init, O!Init
<1> QED
  BY <1>1, <1>2 DEF Init, TypeOK, O!Init

\* No step of a check, of a ping or of the device leaves the types.
LEMMA NextTypeOK == TypeOK /\ [Next]_vars => TypeOK'
<1> SUFFICES ASSUME TypeOK, [Next]_vars
             PROVE  TypeOK'
  OBVIOUS
<1> USE DEF body, context, inner
<1>s. ASSUME PersistAndCommit
      PROVE  /\ ctx' \in Contexts /\ store' \in Stores /\ disk' \in Stores
             /\ faulty' \subseteq ContextKeys \cup {"installAttempts", "commit"}
             /\ dictated' \in Nat \cup {Missing}
  <2>1. PICK failing \in SUBSET (ContextKeys \cup {"commit"}) :
          /\ store' = Persist(ctx, store, failing)
          /\ disk' = IF "commit" \in failing THEN disk ELSE store'
          /\ faulty' = failing \cup (faulty \cap {"installAttempts"})
          /\ UNCHANGED <<ctx, dictated>>
    BY <1>s DEF PersistAndCommit
  <2>2. store' \in Stores
    BY <2>1, ContextTyped DEF TypeOK
  <2> QED
    BY <2>1, <2>2 DEF TypeOK
<1>1. CASE ExchangeFails
  BY <1>1 DEF ExchangeFails, TypeOK
<1>2. CASE Exchange
  <2>1. /\ dictated' \in Nat \cup {Missing}
        /\ ctx' = [ctx EXCEPT !.poll = DictatedInterval(dictated')]
        /\ pc' \in {"returned", "savingPoll"}
    BY <1>2, RetryAfterAssumption DEF Exchange
  <2>2. ctx' \in Contexts
    BY <2>1, DictatedTyped DEF TypeOK
  <2> QED
    BY <1>2, <2>1, <2>2 DEF Exchange, TypeOK
<1>3. CASE SavePoll
  <2>1. PersistAndCommit
    BY <1>3 DEF SavePoll
  <2> QED
    BY <1>3, <1>s, <2>1 DEF SavePoll, TypeOK
<1>4. CASE Retry
  BY <1>4 DEF Retry, Returned, MayRetry, TypeOK
<1>5. CASE GiveUp
  BY <1>5 DEF GiveUp, TypeOK
<1>6. CASE ParseFails
  BY <1>6, ReportTyped DEF ParseFails, TypeOK
<1>7. CASE NoUpdate
  <2>1. resp' \in Responses /\ actions' \in Seq(ActionKinds)
    BY <1>7, SameActionTyped DEF NoUpdate
  <2> QED
    BY <1>7, <2>1 DEF NoUpdate, TypeOK
<1>8. CASE PlanFails
  BY <1>8 DEF PlanFails, UpdateOffered, TypeOK
<1>9. CASE PlanFailureReported
  BY <1>9, ReportTyped DEF PlanFailureReported, TypeOK
<1>10. CASE Defer
  BY <1>10, ReportTyped DEF Defer, UpdateOffered, TypeOK
<1>11. CASE AnnounceDeferred
  <2>1. actions' \in Seq(ActionKinds)
    BY <1>11, SameActionTyped DEF AnnounceDeferred, TypeOK
  <2> QED
    BY <1>11, <2>1 DEF AnnounceDeferred, TypeOK
<1>12. CASE Deny
  <2>1. resp' \in Responses /\ actions' \in Seq(ActionKinds)
    BY <1>12, SameActionTyped DEF Deny, UpdateOffered
  <2> QED
    BY <1>12, <2>1, ReportTyped DEF Deny, TypeOK
<1>13. CASE StartInstall
  BY <1>13, ReportTyped DEF StartInstall, UpdateOffered, TypeOK
<1>14. CASE Install
  <2>1. PICK res \in PerformInstall(Len(AppsWithUpdate(resp))) :
          results' = res /\ ReportResults(res)
    BY <1>14 DEF Install
  <2>2. Len(AppsWithUpdate(resp)) \in Nat
    BY Filtered, ResponseTyped DEF TypeOK
  <2>3. res \in Seq(InstallResults)
    BY <2>2, InstallTyped
  <2> QED
    BY <1>14, <2>1, <2>3, ResultsTyped DEF Install, TypeOK
<1>15. CASE Complete
  BY <1>15, ReportTyped DEF Complete, TypeOK
<1>16. CASE Conclude
  <2>1. actions' \in Seq(ActionKinds)
    <3>1. Len(AppsWithUpdate(resp)) \in Nat /\ Len(results) \in Nat
      BY Filtered, ResponseTyped DEF TypeOK
    <3>2. Len(results) >= Len(AppsWithUpdate(resp))
      BY <1>16, <3>1 DEF Conclude, TooFewResults
    <3> QED
      BY <1>16, <3>2, InstallActionsTyped DEF Conclude, TypeOK
  <2>2. needed' \in BOOLEAN
    BY <1>16, Zenon DEF Conclude
  <2>3. observed' \in O!ObservedState
    BY <1>16 DEF Conclude, TypeOK
  <2> QED
    BY <1>16, <2>1, <2>2, <2>3 DEF Conclude, TypeOK
<1>17. CASE Reported
  BY <1>17 DEF Reported, TypeOK
<1>18. CASE CheckSucceeds
  <2>1. store' \in Stores
    <3>1. \/ CountInstall(store) = [store EXCEPT !.installAttempts =
                                     (IF @ = Missing THEN 0 ELSE @) + 1]
          \/ CountInstall(store) = [store EXCEPT !.installAttempts = Missing]
          \/ CountInstall(store) = store
      BY Zenon DEF CountInstall
    <3>2. store' = CountInstall(store) \/ store' = store
      BY <1>18 DEF CheckSucceeds
    <3> QED
      BY <3>1, <3>2 DEF TypeOK
  <2>2. ctx' \in Contexts
    BY <1>18 DEF CheckSucceeds, TypeOK
  <2> QED
    BY <1>18, <2>1, <2>2 DEF CheckSucceeds, TypeOK
<1>19. CASE CheckFails
  <2>1. ctx' \in Contexts
    <3> DEFINE t == IF error = "OmahaRequest" THEN ctx.lastUpdate ELSE "this"
    <3>1. ctx' = [ctx EXCEPT !.failed = ctx.failed + 1, !.lastUpdate = t]
      BY <1>19 DEF CheckFails
    <3>2. ctx \in Contexts /\ t \in Recency /\ ctx.failed + 1 \in Nat
      BY DEF TypeOK
    <3> HIDE DEF t
    <3> QED
      BY <3>1, <3>2, UpdateTyped
  <2> QED
    BY <1>19, <2>1 DEF CheckFails, TypeOK
<1>20. CASE Save
  <2>1. PersistAndCommit
    BY <1>20 DEF Save
  <2>2. reboot' \in BOOLEAN
    BY <1>20, Zenon DEF Save, TypeOK
  <2> QED
    BY <1>20, <1>s, <2>1, <2>2 DEF Save, TypeOK
<1>21. CASE PingFails
  BY <1>21 DEF PingFails, TypeOK
<1>22. CASE PingSucceeds
  <2>1. ctx' \in Contexts
    BY <1>22 DEF PingSucceeds, TypeOK
  <2> QED
    BY <1>22, <2>1 DEF PingSucceeds, TypeOK
<1>23. CASE PingSave
  <2>1. PersistAndCommit
    BY <1>23 DEF PingSave
  <2> QED
    BY <1>23, <1>s, <2>1 DEF PingSave, TypeOK
<1>24. CASE Lost
  <2>1. needed' \in BOOLEAN /\ reboot' \in BOOLEAN
    BY <1>24, Zenon DEF Lost, O!End
  <2> QED
    <3>1. ctx' \in Contexts /\ dictated' \in Nat \cup {Missing}
      BY <1>24, ContextTyped DEF Lost, TypeOK
    <3>2. events' \in [Apps -> Seq(EventKinds)]
      BY <1>24 DEF Lost
    <3> QED
      BY <1>24, <2>1, <3>1, <3>2 DEF Lost, O!End, TypeOK
<1>25. CASE Begin
  <2>1. needed' \in BOOLEAN
    BY <1>25, Zenon DEF Begin
  <2>2. ctx' \in Contexts /\ store' \in Stores /\ disk' \in Stores
    BY <1>25, ContextTyped DEF Begin, TypeOK
  <2>3. events' \in [Apps -> Seq(EventKinds)]
    BY <1>25 DEF Begin
  <2> QED
    BY <1>25, <2>1, <2>2, <2>3 DEF Begin, O!Begin, TypeOK
<1>26. CASE AwaitReboot
  BY <1>26 DEF AwaitReboot, O!AwaitReboot, TypeOK
<1>27. CASE Rest
  <2>1. reboot' \in BOOLEAN
    BY <1>27, Zenon DEF Rest, O!Rest
  <2> QED
    BY <1>27, <2>1 DEF Rest, O!Rest, TypeOK
<1>28. CASE Ping
  BY <1>28 DEF Ping, TypeOK
<1>29. CASE Boot
  BY <1>29 DEF Boot, O!Boot, TypeOK
<1>30. CASE UNCHANGED vars
  BY <1>30 DEF vars, TypeOK
<1> QED
  BY <1>1, <1>2, <1>3, <1>4, <1>5, <1>6, <1>7, <1>8, <1>9, <1>10, <1>11, <1>12, <1>13,
     <1>14, <1>15, <1>16, <1>17, <1>18, <1>19, <1>20, <1>21, <1>22, <1>23, <1>24, <1>25,
     <1>26, <1>27, <1>28, <1>29, <1>30
     DEF Next, Step, Request, Perform, Settle, PingStep, Panic, Crash

\* start_update_check, perform_update_check and ping_omaha keep the types of
\* the check, of its context and of what is stored.
THEOREM TypeCorrect == Spec => []TypeOK
  BY InitTypeOK, NextTypeOK, PTL DEF Spec

-----------------------------------------------------------------------------
(***************************************************************************)
(* What is on disk                                                         *)
(***************************************************************************)

\* Context::load restores what Context::persist set, key by key, though a count
\* of 0 is written by removing its key.
LEMMA LoadPersist ==
    ASSUME NEW c \in Contexts, NEW s \in Stores, NEW failing
    PROVE  /\ "poll" \notin failing => Load(Persist(c, s, failing)).poll = c.poll
           /\ "failed" \notin failing => Load(Persist(c, s, failing)).failed = c.failed
           /\ "lastUpdate" \notin failing =>
                Load(Persist(c, s, failing)).lastUpdate = c.lastUpdate
           /\ Persist(c, s, failing).installAttempts = s.installAttempts
<1> DEFINE p == Persist(c, s, failing)
<1>1. /\ "poll" \notin failing => p.poll = c.poll
      /\ "failed" \notin failing => p.failed = IF c.failed = 0 THEN Missing ELSE c.failed
      /\ "lastUpdate" \notin failing => p.lastUpdate = c.lastUpdate
      /\ p.installAttempts = s.installAttempts
  BY DEF Persist
<1>2. /\ Load(p).poll = IF p.poll < 0 THEN NoPoll ELSE p.poll
      /\ Load(p).failed = IF p.failed < 0 THEN 0 ELSE p.failed
      /\ Load(p).lastUpdate = p.lastUpdate
  BY DEF Load
<1> HIDE DEF p
<1>3. "poll" \notin failing => Load(p).poll = c.poll
  BY <1>1, <1>2
<1>4. "failed" \notin failing => Load(p).failed = c.failed
  BY <1>1, <1>2
<1> QED
  BY <1>1, <1>2, <1>3, <1>4 DEF p

\* What is loaded grows old as the storage does.
LEMMA LoadAge ==
    ASSUME NEW s \in Stores, NEW c \in Contexts
    PROVE  /\ Load(Age(s)).poll = Load(s).poll /\ Age(c).poll = c.poll
           /\ Load(Age(s)).failed = Load(s).failed /\ Age(c).failed = c.failed
           /\ Load(s).lastUpdate = c.lastUpdate => Load(Age(s)).lastUpdate = Age(c).lastUpdate
<1>1. /\ Age(s).poll = s.poll /\ Age(s).failed = s.failed
      /\ Age(s).lastUpdate = IF s.lastUpdate = "this" THEN "before" ELSE s.lastUpdate
  BY DEF Age
<1>2. /\ Age(c).poll = c.poll /\ Age(c).failed = c.failed
      /\ Age(c).lastUpdate = IF c.lastUpdate = "this" THEN "before" ELSE c.lastUpdate
  BY DEF Age
<1> QED
  BY <1>1, <1>2 DEF Load

\* At the start the empty storage is what the context was loaded from.
LEMMA InitSaved == Init => Saved
  BY DEF Init, Saved

\* No step breaks the correspondence of context and storage.
LEMMA NextSaved == TypeOK /\ Saved /\ [Next]_vars => Saved'
<1> SUFFICES ASSUME TypeOK, Saved, [Next]_vars
             PROVE  Saved'
  OBVIOUS
<1> USE DEF body, context, inner, Kept
<1>0. ctx \in Contexts /\ store \in Stores /\ disk \in Stores
  BY DEF TypeOK
<1>q. ASSUME UNCHANGED context,
             pc \notin {"savingPoll", "saving", "pingSave"},
             pc' \notin {"savingPoll", "saving", "pingSave"}
      PROVE  Saved'
  BY <1>q DEF Saved
<1>p. ASSUME PersistAndCommit
      PROVE  Saved'
  <2>1. PICK failing \in SUBSET (ContextKeys \cup {"commit"}) :
          /\ store' = Persist(ctx, store, failing)
          /\ disk' = IF "commit" \in failing THEN disk ELSE store'
          /\ faulty' = failing \cup (faulty \cap {"installAttempts"})
          /\ UNCHANGED <<ctx, dictated>>
    BY <1>p DEF PersistAndCommit
  <2>2. /\ "poll" \notin failing => Load(store').poll = ctx.poll
        /\ "failed" \notin failing => Load(store').failed = ctx.failed
        /\ "lastUpdate" \notin failing => Load(store').lastUpdate = ctx.lastUpdate
    BY <1>0, <2>1, LoadPersist
  <2>3. failing \subseteq faulty'
    BY <2>1
  <2>4. "commit" \notin faulty' => disk' = store'
    BY <2>1, <2>3
  <2> QED
    BY <2>1, <2>2, <2>3, <2>4 DEF Saved
<1>1. CASE ExchangeFails
  BY <1>1, <1>q DEF ExchangeFails
<1>2. CASE Exchange
  <2> DEFINE poll == DictatedInterval(dictated')
  <2>1. /\ ctx' = [ctx EXCEPT !.poll = poll]
        /\ pc' = IF poll = ctx.poll THEN "returned" ELSE "savingPoll"
        /\ pc = "sending" /\ UNCHANGED <<store, disk, faulty>>
    BY <1>2 DEF Exchange
  <2>2. ctx'.poll = poll /\ ctx'.failed = ctx.failed /\ ctx'.lastUpdate = ctx.lastUpdate
    BY <1>0, <2>1
  <2> HIDE DEF poll
  <2> QED
    BY <2>1, <2>2 DEF Saved
<1>3. CASE SavePoll
  BY <1>3, <1>p DEF SavePoll
<1>4. CASE Perform
  <2>1. CASE Retry \/ GiveUp \/ NoUpdate \/ PlanFails \/ AnnounceDeferred \/ Reported
    BY <1>q, <2>1 DEF Retry, GiveUp, NoUpdate, PlanFails, AnnounceDeferred, Reported,
                      Returned, UpdateOffered
  <2>2. CASE ParseFails \/ PlanFailureReported \/ Defer \/ Deny \/ StartInstall
    BY <1>q, <2>2 DEF ParseFails, PlanFailureReported, Defer, Deny, StartInstall,
                      Returned, UpdateOffered, Report
  <2>3. CASE Install \/ Complete \/ Conclude
    BY <1>q, <2>3 DEF Install, Complete, Conclude, Concluding, Returned, Report, ReportResults
  <2> QED
    BY <1>4, <2>1, <2>2, <2>3 DEF Perform
<1>5. CASE CheckSucceeds
  <2>1. pc = "settle" /\ pc' = "saving" /\ disk' = disk
    BY <1>5 DEF CheckSucceeds
  <2>2. faulty \cap {"poll", "commit"} = faulty' \cap {"poll", "commit"}
    BY <1>5 DEF CheckSucceeds
  <2>3. ctx'.poll = ctx.poll
    BY <1>0, <1>5, UpdateTyped DEF CheckSucceeds
  <2> QED
    BY <2>1, <2>2, <2>3 DEF Saved
<1>6. CASE CheckFails
  <2>1. ctx'.poll = ctx.poll
    BY <1>0, <1>6 DEF CheckFails
  <2> QED
    BY <1>0, <1>6, <2>1 DEF CheckFails, Saved
<1>7. CASE Save
  BY <1>7, <1>p DEF Save
<1>8. CASE PingFails \/ PingSucceeds
  <2>1. ctx'.poll = ctx.poll
    BY <1>0, <1>8 DEF PingFails, PingSucceeds
  <2> QED
    BY <1>0, <1>8, <2>1 DEF PingFails, PingSucceeds, Returned, Saved
<1>9. CASE PingSave
  BY <1>9, <1>p DEF PingSave
<1>10. CASE Lost
  BY <1>0, <1>10 DEF Lost, Saved
<1>11. CASE Begin
  <2>1. /\ pc = "idle" /\ pc' = "sending" /\ faulty' = faulty
        /\ disk' = Age(disk) /\ store' = Age(store) /\ ctx' = Age(ctx)
    BY <1>11 DEF Begin
  <2> QED
    BY <1>0, <2>1, LoadAge DEF Saved
<1>12. CASE AwaitReboot \/ Rest \/ Ping \/ Boot
  BY <1>12, <1>q DEF AwaitReboot, Rest, Ping, Boot
<1>13. CASE UNCHANGED vars
  BY <1>13 DEF vars, Saved
<1> QED
  BY <1>1, <1>2, <1>3, <1>4, <1>5, <1>6, <1>7, <1>8, <1>9, <1>10, <1>11, <1>12, <1>13
     DEF Next, Step, Request, Settle, PingStep, Panic, Crash

\* Context and storage correspond at every step.
THEOREM StorageCorrespondence == Spec => []Saved
  BY InitSaved, NextSaved, InitTypeOK, NextTypeOK, PTL DEF Spec

\* The interval in force is the one last dictated: every answer renews it,
\* whatever its status, and a crash brings back the one that was saved.
LEMMA NextHeard == TypeOK /\ Saved /\ Heard /\ [Next]_vars => Heard'
<1> SUFFICES ASSUME TypeOK, Saved, Heard, [Next]_vars
             PROVE  Heard'
  OBVIOUS
<1> USE DEF body, context, inner
<1>0. ctx \in Contexts /\ store \in Stores /\ disk \in Stores /\ dictated \in Nat \cup {Missing}
  BY DEF TypeOK
<1>1. ASSUME ctx'.poll = ctx.poll, dictated' = dictated,
             store'.poll = store.poll, disk'.poll = disk.poll
      PROVE  Heard'
  BY <1>1 DEF Heard
<1>p. ASSUME PersistAndCommit
      PROVE  Heard'
  <2>1. PICK failing \in SUBSET (ContextKeys \cup {"commit"}) :
          /\ store' = Persist(ctx, store, failing)
          /\ disk' = IF "commit" \in failing THEN disk ELSE store'
          /\ UNCHANGED <<ctx, dictated>>
    BY <1>p DEF PersistAndCommit
  <2>2. store'.poll \in {store.poll, ctx.poll}
    BY <1>0, <2>1 DEF Persist
  <2>3. disk'.poll \in {disk.poll, store'.poll}
    BY <2>1
  <2>4. ctx.poll = DictatedInterval(ctx.poll)
    BY <1>0, DictatedTyped DEF Heard
  <2> QED
    BY <2>1, <2>2, <2>3, <2>4 DEF Heard
<1>2. CASE Exchange
  <2>1. ctx' = [ctx EXCEPT !.poll = DictatedInterval(dictated')] /\ UNCHANGED <<store, disk>>
    BY <1>2 DEF Exchange
  <2> QED
    BY <1>0, <2>1 DEF Heard
<1>3. CASE Lost
  <2>1. ctx' = Load(disk) /\ store' = disk /\ disk' = disk /\ Load(disk).poll = disk.poll
    BY <1>0, <1>3 DEF Lost, Load
  <2>2. CASE pc # "savingPoll" /\ Kept("poll")
    BY <1>3, <2>1, <2>2 DEF Lost, Saved, Heard
  <2>3. CASE ~(pc # "savingPoll" /\ Kept("poll"))
    <3>1. dictated' = Load(disk).poll
      BY <1>3, <2>3 DEF Lost
    <3>2. DictatedInterval(Load(disk).poll) = Load(disk).poll
      BY <2>1 DEF Heard
    <3> QED
      BY <2>1, <3>1, <3>2 DEF Heard
  <2> QED
    BY <2>2, <2>3
<1>4. CASE ExchangeFails \/ SavePoll \/ Save \/ PingSave
  BY <1>1, <1>4, <1>p DEF ExchangeFails, SavePoll, Save, PingSave
<1>5. CASE Perform
  BY <1>1, <1>5 DEF Perform, Retry, GiveUp, ParseFails, NoUpdate, PlanFails,
                    PlanFailureReported, Defer, AnnounceDeferred, Deny, StartInstall, Install,
                    Complete, Conclude, Reported
<1>6. CASE CheckSucceeds \/ CheckFails \/ PingFails \/ PingSucceeds
  <2>1. ctx'.poll = ctx.poll
    BY <1>0, <1>6 DEF CheckSucceeds, CheckFails, PingFails, PingSucceeds
  <2>2. CountInstall(store).poll = store.poll
    <3>1. \/ CountInstall(store) = [store EXCEPT !.installAttempts =
                                     (IF @ = Missing THEN 0 ELSE @) + 1]
          \/ CountInstall(store) = [store EXCEPT !.installAttempts = Missing]
          \/ CountInstall(store) = store
      BY Zenon DEF CountInstall
    <3> QED
      BY <1>0, <3>1
  <2>3. store'.poll = store.poll /\ disk' = disk /\ dictated' = dictated
    BY <1>6, <2>2 DEF CheckSucceeds, CheckFails, PingFails, PingSucceeds
  <2> QED
    BY <1>1, <2>1, <2>3
<1>7. CASE Begin
  BY <1>0, <1>1, <1>7 DEF Begin, Age
<1>8. CASE AwaitReboot \/ Rest \/ Ping \/ Boot
  BY <1>1, <1>8 DEF AwaitReboot, Rest, Ping, Boot
<1>9. CASE UNCHANGED vars
  BY <1>1, <1>9 DEF vars
<1> QED
  BY <1>2, <1>3, <1>4, <1>5, <1>6, <1>7, <1>8, <1>9
     DEF Next, Step, Request, Settle, PingStep, Panic, Crash

\* What the context has is what Omaha last said.
LEMMA AnswersAreHeard == Spec => []Heard
<1>1. Init => Heard
  <2>1. ASSUME Init
        PROVE  ctx.poll = Missing /\ dictated = Missing /\ store.poll = Missing /\ disk.poll = Missing
    BY <2>1 DEF Init, Load
  <2>2. DictatedInterval(Missing) = Missing
    BY DEF DictatedInterval
  <2> QED
    BY <2>1, <2>2 DEF Heard
<1> QED
  BY <1>1, NextHeard, TypeCorrect, StorageCorrespondence, PTL DEF Spec

\* The interval the server dictates outlives a crash at any point but the one
\* step that saves it, in do_omaha_request_and_update_context, unless the
\* storage failed to keep it.
THEOREM IntervalIsOnDisk == Spec => []DictatedIntervalOnDisk
<1>1. Saved /\ Heard => DictatedIntervalOnDisk
  BY DEF Saved, Heard, DictatedIntervalOnDisk
<1> QED
  BY <1>1, AnswersAreHeard, StorageCorrespondence, PTL

\* Between checks, and between pings while a reboot is awaited, a crash loses
\* nothing: persist_data has committed all that the context holds, but for the
\* keys that the last save failed to keep.
THEOREM NothingIsUnsavedAtRest == Spec => []NothingUnsavedAtRest
<1>1. Saved => NothingUnsavedAtRest
  BY DEF Saved, NothingUnsavedAtRest
<1> QED
  BY <1>1, StorageCorrespondence, PTL

-----------------------------------------------------------------------------
(***************************************************************************)
(* Where the check is and what has been yielded                            *)
(***************************************************************************)

\* The initial state is coherent.
LEMMA InitCoherent == Init => Coherent
  BY DEF Init, O!Init, Coherent, Talking, Acting, Installing, Settling, AwaitsReboot, Checking

\* No step breaks the coherence of the program counter, the States yielded and
\* the outcome of the check.
LEMMA NextCoherent == TypeOK /\ Coherent /\ [Next]_vars => Coherent'
<1> SUFFICES ASSUME TypeOK, Coherent, [Next]_vars
             PROVE  Coherent'
  OBVIOUS
<1> USE DEF body, context, inner, Returned, Report,
            Talking, Acting, Installing, Settling, AwaitsReboot, Checking
<1>1. CASE ExchangeFails
  BY <1>1 DEF ExchangeFails, Coherent
<1>2. CASE Exchange
  BY <1>2 DEF Exchange, Coherent
<1>3. CASE SavePoll
  BY <1>3 DEF SavePoll, Coherent
<1>4. CASE Retry
  BY <1>4 DEF Retry, Coherent
<1>5. CASE GiveUp
  BY <1>5 DEF GiveUp, Coherent
<1>6. CASE ParseFails
  BY <1>6 DEF ParseFails, Coherent
<1>7. CASE NoUpdate
  BY <1>7 DEF NoUpdate, Coherent
<1>o. ASSUME UpdateOffered
      PROVE  resp' \in Responses /\ Updated(resp') # {}
  BY <1>o, NothingFiltered DEF UpdateOffered
<1>8. CASE PlanFails
  BY <1>8, <1>o DEF PlanFails, UpdateOffered, Coherent
<1>9. CASE PlanFailureReported
  BY <1>9 DEF PlanFailureReported, Coherent
<1>10. CASE Defer
  BY <1>10, <1>o DEF Defer, UpdateOffered, Coherent
<1>11. CASE AnnounceDeferred
  BY <1>11 DEF AnnounceDeferred, Coherent
<1>12. CASE Deny
  BY <1>12, <1>o DEF Deny, UpdateOffered, Coherent
<1>13. CASE StartInstall
  BY <1>13, <1>o DEF StartInstall, UpdateOffered, Coherent
<1>14. CASE Install
  BY <1>14 DEF Install, ReportResults, Coherent
<1>15. CASE Complete
  BY <1>15 DEF Complete, Coherent
<1>16. CASE Conclude
  BY <1>16 DEF Conclude, Concluding, Coherent
<1>17. CASE Reported
  BY <1>17 DEF Reported, Coherent
<1>18. CASE CheckSucceeds \/ CheckFails
  BY <1>18 DEF CheckSucceeds, CheckFails, Coherent
<1>19. CASE Save
  BY <1>19 DEF Save, Coherent
<1>20. CASE PingFails \/ PingSucceeds
  BY <1>20 DEF PingFails, PingSucceeds, Coherent
<1>21. CASE PingSave
  BY <1>21 DEF PingSave, Coherent
<1>22. CASE Lost
  BY <1>22 DEF Lost, O!End, Coherent
<1>23. CASE Begin
  BY <1>23 DEF Begin, O!Begin, Coherent
<1>24. CASE AwaitReboot
  BY <1>24 DEF AwaitReboot, O!AwaitReboot, Coherent
<1>25. CASE Rest
  BY <1>25 DEF Rest, O!Rest, Coherent
<1>26. CASE Ping
  BY <1>26 DEF Ping, Coherent
<1>27. CASE Boot
  BY <1>27 DEF Boot, O!Boot, Coherent
<1>28. CASE UNCHANGED vars
  BY <1>28 DEF vars, Coherent
<1> QED
  BY <1>1, <1>2, <1>3, <1>4, <1>5, <1>6, <1>7, <1>8, <1>9, <1>10, <1>11, <1>12, <1>13,
     <1>14, <1>15, <1>16, <1>17, <1>18, <1>19, <1>20, <1>21, <1>22, <1>23, <1>24, <1>25,
     <1>26, <1>27, <1>28
     DEF Next, Step, Request, Perform, Settle, PingStep, Panic, Crash

\* Program counter, States and outcome agree at every step.
THEOREM Coherence == Spec => []Coherent
  BY InitCoherent, NextCoherent, InitTypeOK, NextTypeOK, PTL DEF Spec

\* Every step of a check, of a ping or of the device is one that ObservedStates
\* allows, or changes none of what is observed.
LEMMA NextObserved == TypeOK /\ Coherent /\ [Next]_vars => [O!Next]_(O!vars)
<1> SUFFICES ASSUME TypeOK, Coherent, [Next]_vars
             PROVE  O!Next \/ UNCHANGED O!vars
  OBVIOUS
<1> USE DEF body, context, inner
<1>0. ASSUME UNCHANGED inner
      PROVE  UNCHANGED O!vars
  BY <1>0 DEF O!vars
<1>1. ASSUME check = "running", UNCHANGED <<check, reboot>>,
             \/ /\ observed = "CheckingForUpdates"
                /\ observed' \in {"ErrorCheckingForUpdate", "NoUpdateAvailable",
                                  "InstallationDeferredByPolicy", "InstallingUpdate"}
             \/ observed = "InstallingUpdate" /\ observed' = "InstallationError"
      PROVE  O!Next
  <2>1. observed' \in O!Successors(observed)
    BY <1>1 DEF O!Successors
  <2> QED
    BY <1>1, <2>1 DEF O!Next, O!Announce
<1> USE DEF Returned, Talking, Acting, Installing, Settling, AwaitsReboot, Checking
<1>2. CASE Request
  BY <1>0, <1>2 DEF Request, ExchangeFails, Exchange, SavePoll
<1>3. CASE GiveUp \/ ParseFails \/ NoUpdate
  BY <1>1, <1>3 DEF GiveUp, ParseFails, NoUpdate, Coherent
<1>4. CASE PlanFails \/ StartInstall
  BY <1>1, <1>4 DEF PlanFails, StartInstall, UpdateOffered, Coherent
<1>5. CASE PlanFailureReported \/ AnnounceDeferred
  BY <1>1, <1>5 DEF PlanFailureReported, AnnounceDeferred, Coherent
<1>6. CASE Conclude
  <2>1. check = "running" /\ observed = "InstallingUpdate"
    BY <1>6 DEF Conclude, Concluding, Coherent
  <2>2. observed' = "InstallationError" \/ observed' = observed
    BY <1>6 DEF Conclude
  <2> QED
    BY <1>0, <1>1, <1>6, <2>1, <2>2 DEF Conclude
<1>7. CASE Retry \/ Defer \/ Deny \/ Install \/ Complete \/ Reported
  BY <1>0, <1>7 DEF Retry, Defer, Deny, Install, Complete, Reported
<1>8. CASE CheckSucceeds \/ CheckFails
  BY <1>0, <1>8 DEF CheckSucceeds, CheckFails
<1>9. CASE Save
  <2>1. check = "running" /\ (needed => observed = "InstallingUpdate")
    BY <1>9 DEF Save, Coherent
  <2>2. check' = "over" /\ observed' = observed /\ reboot' = needed /\ needed \in BOOLEAN
    BY <1>9, Zenon DEF Save, TypeOK
  <2>3. reboot' \in (IF observed = "InstallingUpdate" THEN BOOLEAN ELSE {FALSE})
    BY <2>1, <2>2, Zenon
  <2> QED
    BY <2>1, <2>2, <2>3 DEF O!Next, O!Finish
<1>10. CASE PingStep \/ Ping
  BY <1>0, <1>10 DEF PingStep, PingFails, PingSucceeds, PingSave, Ping
<1>11. CASE Lost \/ Begin \/ AwaitReboot \/ Rest \/ Boot
  BY <1>11 DEF Lost, Begin, AwaitReboot, Rest, Boot, O!Next
<1>12. CASE UNCHANGED vars
  BY <1>0, <1>12 DEF vars
<1> QED
  BY <1>2, <1>3, <1>4, <1>5, <1>6, <1>7, <1>8, <1>9, <1>10, <1>11, <1>12
     DEF Next, Step, Perform, Settle, Panic, Crash

\* start_update_check and perform_update_check implement ObservedStates, its
\* liveness apart: a check yields its States only in the order promised there.
THEOREM ImplementsObservedStates == Spec => O!Safety
<1>1. Init => O!Init
  BY DEF Init
<1> QED
  BY <1>1, NextObserved, TypeCorrect, Coherence, PTL DEF Spec, O!Safety

-----------------------------------------------------------------------------
(***************************************************************************)
(* Retries, and what a check leaves on disk                                *)
(***************************************************************************)

\* A retry does not follow an answer that dictates an interval, of whatever
\* status and however long ago: the loop of perform_update_check looks at the
\* context, which every answer renews and which survives a restart.
THEOREM NoRetryWhenToldToWait == Spec => []NoRetryOnceToldToWait
<1>1. Init => NoRetryOnceToldToWait
  BY DEF Init, NoRetryOnceToldToWait
<1>2. TypeOK /\ Heard /\ NoRetryOnceToldToWait /\ [Next]_vars => NoRetryOnceToldToWait'
  <2> SUFFICES ASSUME TypeOK, Heard, NoRetryOnceToldToWait, [Next]_vars
               PROVE  NoRetryOnceToldToWait'
    OBVIOUS
  <2> USE DEF NoRetryOnceToldToWait, body, context, inner, Returned
  <2>1. CASE Request
    BY <2>1 DEF Request, ExchangeFails, Exchange, SavePoll
  <2>2. CASE Retry
    <3>1. DictatedInterval(dictated) = NoPoll /\ dictated' = dictated
      BY <2>2 DEF Retry, MayRetry, Heard
    <3>2. dictated = Missing
      BY <3>1, DictatedTyped DEF TypeOK
    <3> QED
      BY <3>1, <3>2
  <2>3. CASE GiveUp \/ ParseFails \/ NoUpdate \/ PlanFails \/ PlanFailureReported
    BY <2>3 DEF GiveUp, ParseFails, NoUpdate, PlanFails, PlanFailureReported, Report
  <2>4. CASE Defer \/ AnnounceDeferred \/ Deny \/ StartInstall \/ Install
    BY <2>4 DEF Defer, AnnounceDeferred, Deny, StartInstall, Install, Report, ReportResults
  <2>5. CASE Complete \/ Conclude \/ Reported
    BY <2>5 DEF Complete, Conclude, Reported, Report
  <2>6. CASE Settle \/ PingStep
    BY <2>6 DEF Settle, CheckSucceeds, CheckFails, Save,
                PingStep, PingFails, PingSucceeds, PingSave
  <2>7. CASE Lost \/ Begin \/ AwaitReboot \/ Rest \/ Ping \/ Boot
    BY <2>7 DEF Lost, Begin, AwaitReboot, Rest, Ping, Boot
  <2>8. CASE UNCHANGED vars
    BY <2>8 DEF vars
  <2> QED
    BY <2>1, <2>2, <2>3, <2>4, <2>5, <2>6, <2>7, <2>8
       DEF Next, Step, Perform, Panic, Crash
<1> QED
  BY <1>1, <1>2, TypeCorrect, AnswersAreHeard, PTL DEF Spec

\* Once a check is settled the context tells how it went.
LEMMA NextOutcome == TypeOK /\ Coherent /\ Outcome /\ [Next]_vars => Outcome'
<1> SUFFICES ASSUME TypeOK, Coherent, Outcome, [Next]_vars
             PROVE  Outcome'
  OBVIOUS
<1> USE DEF body, context, inner, Returned,
            Talking, Acting, Settling, AwaitsReboot, Checking
<1>0. ctx \in Contexts
  BY DEF TypeOK
<1>1. CASE ExchangeFails \/ SavePoll
  BY <1>1 DEF ExchangeFails, SavePoll, PersistAndCommit, Outcome
<1>2. CASE Exchange
  <2>1. ctx'.lastUpdate = ctx.lastUpdate
    BY <1>0, <1>2 DEF Exchange
  <2> QED
    BY <1>2, <2>1 DEF Exchange, Outcome
<1>3. CASE Retry \/ GiveUp \/ ParseFails \/ NoUpdate \/ PlanFails \/ PlanFailureReported
  BY <1>3 DEF Retry, GiveUp, ParseFails, NoUpdate, PlanFails, PlanFailureReported,
              UpdateOffered, Report, Outcome
<1>4. CASE Defer \/ AnnounceDeferred \/ Deny \/ StartInstall \/ Install
  BY <1>4 DEF Defer, AnnounceDeferred, Deny, StartInstall, Install, UpdateOffered,
              Report, ReportResults, Outcome
<1>5. CASE Complete \/ Conclude \/ Reported
  BY <1>5 DEF Complete, Conclude, Concluding, Reported, Report, Outcome
<1>6. CASE CheckSucceeds
  <2>1. ctx'.failed = 0 /\ ctx'.lastUpdate = "this"
    BY <1>0, <1>6, UpdateTyped DEF CheckSucceeds
  <2> QED
    BY <1>6, <2>1 DEF CheckSucceeds, Outcome
<1>7. CASE CheckFails
  <2> DEFINE t == IF error = "OmahaRequest" THEN ctx.lastUpdate ELSE "this"
  <2>1. ctx' = [ctx EXCEPT !.failed = ctx.failed + 1, !.lastUpdate = t]
    BY <1>7 DEF CheckFails
  <2>2. ctx.failed + 1 \in Nat /\ ctx.failed + 1 # 0 /\ t \in Recency
    BY <1>0
  <2>3. ctx'.failed # 0 /\ ctx'.lastUpdate = t
    BY <1>0, <2>1, <2>2, UpdateTyped
  <2> QED
    BY <1>7, <2>3 DEF CheckFails, Outcome
<1>8. CASE Save
  BY <1>8 DEF Save, PersistAndCommit, Outcome
<1>9. CASE PingStep
  BY <1>9 DEF PingStep, PingFails, PingSucceeds, PingSave, Outcome
<1>10. CASE Begin
  BY <1>10 DEF Begin, Outcome
<1>11. CASE Lost \/ AwaitReboot \/ Rest \/ Ping \/ Boot
  BY <1>11 DEF Lost, AwaitReboot, Rest, Ping, Boot, Outcome
<1>12. CASE UNCHANGED vars
  BY <1>12 DEF vars, Outcome
<1> QED
  BY <1>1, <1>2, <1>3, <1>4, <1>5, <1>6, <1>7, <1>8, <1>9, <1>10, <1>11, <1>12
     DEF Next, Step, Request, Perform, Settle, Panic, Crash

\* What start_update_check leaves on disk tells how the check went: failures
\* are forgotten exactly by a success, and last_update_time is renewed by every
\* answer of Omaha with a success status, also one that could not be parsed or
\* made a plan of.
THEOREM OutcomeIsOnDisk == Spec => []OutcomeOnDisk
<1>1. Init => Outcome
  BY DEF Init, Outcome, Talking, Acting, Settling, Checking
<1>2. Spec => []Outcome
  BY <1>1, NextOutcome, TypeCorrect, Coherence, PTL DEF Spec
<1>3. Saved /\ Outcome => OutcomeOnDisk
  <2> SUFFICES ASSUME Saved, Outcome, pc = "over"
               PROVE  /\ Kept("failed") => ((Load(disk).failed = 0) <=> (error = "none"))
                      /\ Kept("lastUpdate") /\ error # "OmahaRequest" => disk.lastUpdate = "this"
    BY DEF OutcomeOnDisk
  <2>1. Load(disk).lastUpdate = disk.lastUpdate
    BY DEF Load
  <2> QED
    BY <2>1 DEF Saved, Outcome
<1> QED
  BY <1>2, <1>3, StorageCorrespondence, PTL

-----------------------------------------------------------------------------
(***************************************************************************)
(* How an install is counted                                               *)
(***************************************************************************)

\* The Action of each app: an app without an update has none, the others take
\* theirs from the result at their rank.
LEMMA InstallActionsAre ==
    ASSUME NEW r \in Responses \cup {<<>>}, NEW res
    PROVE  /\ Len(InstallActions(r, res)) = Len(r)
           /\ \A i \in Updated(r) : InstallActions(r, res)[i] = ActionFor(res[Rank(r, i)])
           /\ \A i \in (1..Len(r)) \ Updated(r) : InstallActions(r, res)[i] = "NoUpdate"
<1>1. Len(r) \in Nat /\ Updated(r) \subseteq 1..Len(r)
  BY ResponseTyped
<1>2. Len(InstallActions(r, res)) = Len(r)
  BY <1>1 DEF InstallActions
<1>3. ASSUME NEW i \in 1..Len(r)
      PROVE  InstallActions(r, res)[i] = IF r[i].status = "ok" THEN ActionFor(res[Rank(r, i)])
                                                            ELSE "NoUpdate"
  BY <1>3, Zenon DEF InstallActions
<1>4. \A i \in 1..Len(r) : i \in Updated(r) <=> r[i].status = "ok"
  BY DEF Updated
<1> QED
  BY <1>1, <1>2, <1>3, <1>4

\* An installer that returned enough results returned one for each app with an
\* update: only StubInstaller and MinimalInstaller return another number, one.
LEMMA ResultsFit ==
    ASSUME NEW r \in Responses \cup {<<>>}, Updated(r) # {},
           NEW res \in PerformInstall(Len(AppsWithUpdate(r))),
           Len(res) >= Len(AppsWithUpdate(r))
    PROVE  Len(res) = Cardinality(Updated(r))
<1> DEFINE n == Cardinality(Updated(r))
<1>1. IsFiniteSet(Updated(r)) /\ n \in Nat /\ Len(AppsWithUpdate(r)) = n
  BY ResponseTyped, Filtered
<1>2. n # 0
  BY <1>1, FS_EmptySet
<1>3. res \in [1..n -> InstallResults] \/ res = <<"Installed">> \/ res = <<"Failed">>
  BY <1>1 DEF PerformInstall, EveryResult, StubResults, MinimalResults
<1> HIDE DEF n
<1>4. ASSUME res \in [1..n -> InstallResults]
      PROVE  Len(res) = n
  BY <1>1, <1>4
<1>5. ASSUME res = <<"Installed">> \/ res = <<"Failed">>
      PROVE  Len(res) = n
  <2>1. Len(res) = 1
    BY <1>5
  <2> QED
    BY <1>1, <1>2, <2>1
<1> QED
  BY <1>3, <1>4, <1>5 DEF n

\* Taking the results one by one loses none: an app failed exactly when an
\* Action says so, and one was installed exactly when an Action says so.
LEMMA ActionsOfInstall ==
    ASSUME NEW r \in Responses \cup {<<>>}, Updated(r) # {},
           NEW res \in PerformInstall(Len(AppsWithUpdate(r))),
           Len(res) >= Len(AppsWithUpdate(r)),
           NEW as, as = InstallActions(r, res)
    PROVE  /\ "Failed" \in {res[i] : i \in 1..Len(res)}
                <=> "InstallPlanExecutionError" \in {as[i] : i \in 1..Len(as)}
           /\ "Installed" \in {res[i] : i \in 1..Len(res)}
                <=> "Updated" \in {as[i] : i \in 1..Len(as)}
<1> DEFINE n == Cardinality(Updated(r))
<1>1. Len(res) = n
  BY ResultsFit
<1>2. n \in Nat /\ Updated(r) \subseteq 1..Len(r)
  BY ResponseTyped
<1>3. res \in Seq(InstallResults)
  BY <1>2, Filtered, InstallTyped
<1>4. \A i \in Updated(r) : Rank(r, i) \in 1..n
  BY RankBounds
<1>5. \A k \in 1..n : \E i \in Updated(r) : Rank(r, i) = k
  BY RankOnto
<1>6. /\ Len(as) = Len(r)
      /\ \A i \in Updated(r) : as[i] = ActionFor(res[Rank(r, i)])
      /\ \A i \in (1..Len(r)) \ Updated(r) : as[i] = "NoUpdate"
  BY InstallActionsAre
<1>7. \A k \in 1..n : res[k] \in InstallResults
  BY <1>1, <1>3
<1> HIDE DEF n
<1>8. ASSUME NEW v \in InstallResults
      PROVE  v \in {res[k] : k \in 1..n}
               <=> ActionFor(v) \in {as[i] : i \in 1..Len(r)}
  <2>1. ASSUME NEW k \in 1..n, res[k] = v
        PROVE  \E i \in 1..Len(r) : as[i] = ActionFor(v)
    BY <1>2, <1>5, <1>6, <2>1
  <2>2. ASSUME NEW i \in 1..Len(r), as[i] = ActionFor(v)
        PROVE  \E k \in 1..n : res[k] = v
    <3>1. i \in Updated(r)
      BY <1>6, <2>2, ResultsMean
    <3>2. ActionFor(res[Rank(r, i)]) = ActionFor(v) /\ res[Rank(r, i)] \in InstallResults
      BY <1>4, <1>6, <1>7, <2>2, <3>1
    <3>3. res[Rank(r, i)] = v
      BY <3>2, ResultsMean
    <3> QED
      BY <1>4, <3>1, <3>3
  <2> QED
    BY <2>1, <2>2
<1> QED
  BY <1>1, <1>6, <1>8, ResultsMean

\* How install_success is read off the Actions.
LEMMA InstallSuccessIs ==
    ASSUME NEW as
    PROVE  LET kinds == {as[i] : i \in 1..Len(as)} IN
           /\ "InstallPlanExecutionError" \in kinds => InstallSuccess(as) = "failed"
           /\ "InstallPlanExecutionError" \notin kinds /\ "Updated" \in kinds
                => InstallSuccess(as) = "installed"
  BY DEF InstallSuccess

\* An install is counted as what it was: while the results are known they are
\* what the installer returned, then the Actions, then the count tell of them.
LEMMA NextCounted ==
    TypeOK /\ Coherent /\ Saved /\ Counted /\ [Next]_vars => Counted'
<1> SUFFICES ASSUME TypeOK, Coherent, Saved, Counted, [Next]_vars
             PROVE  Counted'
  OBVIOUS
<1> USE DEF body, context, inner, Returned, Talking, Acting, Settling
<1>1. CASE Request
  BY <1>1 DEF Request, ExchangeFails, Exchange, SavePoll, Counted
<1>2. CASE Retry \/ GiveUp \/ ParseFails \/ NoUpdate \/ PlanFails
  BY <1>2 DEF Retry, GiveUp, ParseFails, NoUpdate, PlanFails, UpdateOffered, Report,
              Coherent, Counted
<1>3. CASE PlanFailureReported \/ Defer \/ Deny \/ StartInstall
  BY <1>3 DEF PlanFailureReported, Defer, Deny, StartInstall, UpdateOffered, Report,
              Coherent, Counted
<1>4. CASE AnnounceDeferred \/ Reported
  <2>1. results = <<>>
    BY <1>4 DEF AnnounceDeferred, Reported, Coherent, Counted
  <2> QED
    BY <1>4, <2>1 DEF AnnounceDeferred, Reported, Coherent, Counted
<1>5. CASE Install
  BY <1>5 DEF Install, ReportResults, Counted
<1>6. CASE Complete
  BY <1>6 DEF Complete, Report, Counted
<1>7. CASE Conclude
  <2>1. /\ resp \in Responses /\ Updated(resp) # {} /\ error = "none"
        /\ results \in PerformInstall(Len(AppsWithUpdate(resp)))
    BY <1>7 DEF Conclude, Concluding, Coherent, Counted
  <2>2. Len(results) >= Len(AppsWithUpdate(resp))
    <3>1. Len(AppsWithUpdate(resp)) \in Nat /\ Len(results) \in Nat
      BY Filtered, ResponseTyped DEF TypeOK
    <3> QED
      BY <1>7, <3>1 DEF Conclude, TooFewResults
  <2>3. ActionsTell'
    BY <1>7, <2>1, <2>2, ActionsOfInstall DEF Conclude, ActionsTell
  <2>4. "Failed" \in {results[i] : i \in 1..Len(results)} => ~needed'
    BY <1>7 DEF Conclude
  <2> QED
    BY <1>7, <2>1, <2>3, <2>4 DEF Conclude, Counted
<1>8. CASE CheckSucceeds
  <2>1. CASE results = <<>>
    BY <1>8, <2>1 DEF CheckSucceeds, Counted
  <2>2. CASE results # <<>>
    <3> DEFINE kinds == {actions[i] : i \in 1..Len(actions)}
    <3>0. "installAttempts" \notin faulty' => store' = CountInstall(store)
      BY <1>8 DEF CheckSucceeds
    <3>1. ActionsTell
      BY <1>8, <2>2 DEF CheckSucceeds, Counted
    <3>2. store \in Stores
      BY DEF TypeOK
    <3>3. "InstallPlanExecutionError" \in kinds
            => CountInstall(store) =
                 [store EXCEPT !.installAttempts = (IF @ = Missing THEN 0 ELSE @) + 1]
      <4>1. ASSUME InstallSuccess(actions) = "failed"
            PROVE  CountInstall(store) =
                     [store EXCEPT !.installAttempts = (IF @ = Missing THEN 0 ELSE @) + 1]
        BY <4>1, Zenon DEF CountInstall
      <4> QED
        BY <4>1, InstallSuccessIs
    <3>4. "InstallPlanExecutionError" \notin kinds /\ "Updated" \in kinds
            => CountInstall(store) = [store EXCEPT !.installAttempts = Missing]
      <4>1. ASSUME InstallSuccess(actions) = "installed"
            PROVE  CountInstall(store) = [store EXCEPT !.installAttempts = Missing]
        BY <4>1 DEF CountInstall
      <4> QED
        BY <4>1, InstallSuccessIs
    <3>5. "InstallPlanExecutionError" \in kinds => CountInstall(store).installAttempts > 0
      BY <3>2, <3>3
    <3>6. "InstallPlanExecutionError" \notin kinds /\ "Updated" \in kinds
            => CountInstall(store).installAttempts = Missing
      BY <3>2, <3>4
    <3>7. "installAttempts" \notin faulty' => AttemptsTell'
      BY <1>8, <3>0, <3>1, <3>5, <3>6 DEF CheckSucceeds, AttemptsTell, ActionsTell
    <3> QED
      BY <1>8, <2>2, <3>7 DEF CheckSucceeds, Counted
  <2> QED
    BY <2>1, <2>2
<1>9. CASE CheckFails
  BY <1>9 DEF CheckFails, Counted
<1>10. CASE Save
  <2>1. /\ store'.installAttempts = store.installAttempts
        /\ "installAttempts" \in faulty => "installAttempts" \in faulty'
    BY <1>10, LoadPersist DEF Save, PersistAndCommit, TypeOK
  <2>2. AttemptsTell => AttemptsTell'
    BY <1>10, <2>1 DEF Save, AttemptsTell
  <2> QED
    BY <1>10, <2>1, <2>2 DEF Save, Counted
<1>11. CASE PingStep
  BY <1>11 DEF PingStep, PingFails, PingSucceeds, PingSave, Counted
<1>12. CASE Lost \/ Begin
  BY <1>12 DEF Lost, Begin, Counted
<1>13. CASE AwaitReboot \/ Rest \/ Ping \/ Boot
  BY <1>13 DEF AwaitReboot, Rest, Ping, Boot, Counted
<1>14. CASE UNCHANGED vars
  BY <1>14 DEF vars, Counted, ActionsTell, AttemptsTell
<1> QED
  BY <1>1, <1>2, <1>3, <1>4, <1>5, <1>6, <1>7, <1>8, <1>9, <1>10, <1>11, <1>12, <1>13, <1>14
     DEF Next, Step, Perform, Settle, Panic, Crash

\* A reboot never follows a failed install, and the count of failed installs
\* grows with every failure and is removed only by an install without one,
\* however many apps and results there are.
THEOREM InstallOutcomeIsCounted == Spec => []InstallOutcomeCounted
<1>1. Init => Counted
  BY DEF Init, Counted, Talking, Acting
<1>2. Spec => []Counted
  BY <1>1, NextCounted, TypeCorrect, Coherence, StorageCorrespondence, PTL DEF Spec
<1>3. Saved /\ Counted => InstallOutcomeCounted
  BY DEF Saved, Counted, AttemptsTell, InstallOutcomeCounted, Kept
<1> QED
  BY <1>2, <1>3, StorageCorrespondence, PTL

-----------------------------------------------------------------------------
(***************************************************************************)
(* What Omaha is told                                                      *)
(***************************************************************************)

\* The events that belong to each Action.
LEMMA StoriesAre ==
    /\ <<"DownloadStarted", "DownloadFinished", "UpdateComplete">> \in Stories("Updated")
    /\ <<"DownloadStarted", "ErrorInstallation">> \in Stories("InstallPlanExecutionError")
    /\ <<"UpdateDeferred">> \in Stories("DeferredByPolicy")
    /\ <<"DownloadStarted", "UpdateDeferred">> \in Stories("DeferredByPolicy")
    /\ <<"ErrorDeniedByPolicy">> \in Stories("DeniedByPolicy")
  BY DEF Stories

\* The results are paired with the apps the Actions are paired with, though by
\* position among the apps with an update: the place whose app is the one at i
\* is the rank of i, when there is a result for it.
LEMMA PairedIs ==
    ASSUME NEW r \in Responses \cup {<<>>}, NEW res \in Seq(InstallResults),
           NEW i \in Updated(r)
    PROVE  {k \in Paired(r, res) : AppsWithUpdate(r)[k].id = r[i].id}
             = IF Rank(r, i) <= Len(res) THEN {Rank(r, i)} ELSE {}
<1> DEFINE n == Cardinality(Updated(r))
<1>1. n \in Nat /\ Len(AppsWithUpdate(r)) = n /\ Len(res) \in Nat
  BY ResponseTyped, Filtered
<1>2. Paired(r, res) = {k \in 1..n : k <= Len(res)}
  BY <1>1 DEF Paired
<1>3. Rank(r, i) \in 1..n /\ AppsWithUpdate(r)[Rank(r, i)] = r[i]
  BY RankBounds, Filtered
<1>4. ASSUME NEW k \in 1..n, AppsWithUpdate(r)[k].id = r[i].id
      PROVE  k = Rank(r, i)
  <2>1. PICK j \in Updated(r) : Rank(r, j) = k
    BY RankOnto
  <2>2. r[j].id = r[i].id
    BY <1>4, <2>1, Filtered
  <2>3. j = i
    BY <2>2, ResponseTyped
  <2> QED
    BY <2>1, <2>3
<1> HIDE DEF n
<1> QED
  BY <1>2, <1>3, <1>4

\* An app that has no update is paired with no result.
LEMMA NotPaired ==
    ASSUME NEW r \in Responses \cup {<<>>}, NEW res, NEW x, x \notin Offered(r)
    PROVE  {k \in Paired(r, res) : AppsWithUpdate(r)[k].id = x} = {}
  BY DEF Paired, Offered

\* installed_apps are the apps whose result is Installed.
LEMMA InstalledAre ==
    ASSUME TypeOK
    PROVE  /\ InstalledApps \subseteq Offered(resp)
           /\ \A i \in Updated(resp) :
                resp[i].id \in Apps => (resp[i].id \in InstalledApps <=> WasInstalled(i))
<1>1. resp \in Responses \cup {<<>>} /\ results \in Seq(InstallResults)
  BY DEF TypeOK
<1>2. InstalledApps \subseteq Offered(resp)
  BY DEF InstalledApps, Offered, Paired
<1>3. ASSUME NEW i \in Updated(resp), resp[i].id \in Apps
      PROVE  resp[i].id \in InstalledApps <=> WasInstalled(i)
  <2>1. {k \in Paired(resp, results) : AppsWithUpdate(resp)[k].id = resp[i].id}
          = IF Rank(resp, i) <= Len(results) THEN {Rank(resp, i)} ELSE {}
    BY <1>1, PairedIs
  <2>2. resp[i].id \in InstalledApps
          <=> \E k \in {k \in Paired(resp, results) : AppsWithUpdate(resp)[k].id = resp[i].id} :
                results[k] = "Installed"
    BY <1>3 DEF InstalledApps
  <2> QED
    BY <2>1, <2>2 DEF WasInstalled
<1> QED
  BY <1>2, <1>3

\* Before the response is known nothing has been reported of any app.
LEMMA SilentBefore ==
    ASSUME TypeOK, Coherent, EventsTold, Talking("check")
    PROVE  resp = <<>> /\ error = "none" /\ Updated(resp) = {} /\ Offered(resp) = {}
             /\ \A x \in Apps : events[x] = <<>>
<1>1. resp = <<>> /\ error = "none"
  BY DEF Coherent
<1>2. Updated(resp) = {}
  BY <1>1 DEF Updated
<1>3. Offered(resp) = {}
  BY <1>1, <1>2, OfferedIds
<1> QED
  BY <1>1, <1>2, <1>3 DEF EventsTold

\* Appending to the short sequences of events there are.
LEMMA AppendIs ==
    /\ \A e : Append(<<>>, e) = <<e>>
    /\ \A d, e : Append(<<d>>, e) = <<d, e>>
    /\ \A c, d, e : Append(<<c, d>>, e) = <<c, d, e>>
<1>1. ASSUME NEW e
      PROVE  Append(<<>>, e) = <<e>>
  OBVIOUS
<1>2. ASSUME NEW d, NEW e
      PROVE  Append(<<d>>, e) = <<d, e>>
  <2> DEFINE S == {d, e}
             s == Append(<<d>>, e)
             t == <<d, e>>
  <2>1. <<d>> \in Seq(S) /\ Len(<<d>>) = 1 /\ <<d>>[1] = d
    OBVIOUS
  <2>2. s \in Seq(S) /\ Len(s) = 2 /\ s[1] = d /\ s[2] = e
    BY <2>1
  <2>3. t \in Seq(S) /\ Len(t) = 2 /\ t[1] = d /\ t[2] = e
    OBVIOUS
  <2> HIDE DEF s, t
  <2>4. \A i \in 1..2 : s[i] = t[i]
    BY <2>2, <2>3
  <2>5. s = t
    BY <2>2, <2>3, <2>4, SeqEqual
  <2> QED
    BY <2>5 DEF s, t
<1>3. ASSUME NEW c, NEW d, NEW e
      PROVE  Append(<<c, d>>, e) = <<c, d, e>>
  <2> DEFINE S == {c, d, e}
             s == Append(<<c, d>>, e)
             t == <<c, d, e>>
  <2>1. <<c, d>> \in Seq(S) /\ Len(<<c, d>>) = 2 /\ <<c, d>>[1] = c /\ <<c, d>>[2] = d
    OBVIOUS
  <2>2. s \in Seq(S) /\ Len(s) = 3 /\ s[1] = c /\ s[2] = d /\ s[3] = e
    BY <2>1
  <2>3. t \in Seq(S) /\ Len(t) = 3 /\ t[1] = c /\ t[2] = d /\ t[3] = e
    OBVIOUS
  <2> HIDE DEF s, t
  <2>4. \A i \in 1..3 : s[i] = t[i]
    BY <2>2, <2>3
  <2>5. s = t
    BY <2>2, <2>3, <2>4, SeqEqual
  <2> QED
    BY <2>5 DEF s, t
<1> QED
  BY <1>1, <1>2, <1>3

\* A report appends its event for the named apps and for no other.
LEMMA ReportAppends ==
    ASSUME NEW e, NEW apps, NEW versions, NEW p, Report(e, apps, versions, p)
    PROVE  \A x \in Apps : events'[x] = IF x \in apps /\ x \in versions
                                         THEN Append(events[x], e) ELSE events[x]
  BY DEF Report

\* The events of each app go on matching its fate with every step.
LEMMA NextEventsTold ==
    TypeOK /\ Coherent /\ Counted /\ EventsTold /\ [Next]_vars => EventsTold'
<1> SUFFICES ASSUME TypeOK, Coherent, Counted, EventsTold, [Next]_vars
             PROVE  EventsTold'
  OBVIOUS
<1> USE DEF body, context, inner, Returned
<1>r. resp \in Responses \cup {<<>>} /\ results \in Seq(InstallResults)
  BY DEF TypeOK
<1>i. Offered(resp) = {resp[i].id : i \in Updated(resp)}
  BY <1>r, OfferedIds
\* Steps that leave all that is told and that it is about alone.
<1>u. ASSUME UNCHANGED <<resp, results, actions, error, events>>,
             \A i \in Updated(resp) : \A evs : Told(i, evs) => Told(i, evs)',
             Talking("denied")' => Talking("denied")
      PROVE  EventsTold'
  BY <1>u DEF EventsTold
\* Steps after which no app has an update.
<1>n. ASSUME Updated(resp') = {}, resp' \in Responses \cup {<<>>},
             pc' # "sending" \/ purpose' # "denied",
             pc' \notin {"savingPoll", "returned"},
             error' \in {"OmahaRequest", "ResponseParser"} => resp' = <<>>,
             \A x \in Apps : events'[x] = IF error' = "ResponseParser"
                                            THEN <<"ErrorParseResponse">> ELSE <<>>
      PROVE  EventsTold'
  BY <1>n DEF EventsTold, Talking
<1>1. CASE Request
  <2>1. ASSUME pc \in {"sending", "savingPoll"}, pc' \in {"savingPoll", "returned"},
               UNCHANGED <<purpose, resp, results, actions, error, events>>
        PROVE  EventsTold'
    BY <1>u, <2>1 DEF Told, Talking, Settling, AwaitsReboot, InstallStory, WasInstalled
  <2> QED
    BY <1>1, <2>1 DEF Request, ExchangeFails, Exchange, SavePoll
<1>2. CASE Retry
  <2>1. UNCHANGED <<resp, results, actions, error, events>> /\ Updated(resp) = {}
    BY <1>2, SilentBefore DEF Retry, Talking
  <2> QED
    BY <1>2, <1>u, <2>1 DEF Retry, Talking
<1>3. CASE GiveUp
  BY <1>3, <1>n, SilentBefore DEF GiveUp, Talking
<1>4. CASE ParseFails
  <2>1. Talking("check")
    BY <1>4 DEF ParseFails, Talking
  <2>2. \A x \in Apps : events'[x] = Append(events[x], "ErrorParseResponse")
    BY <1>4, ReportAppends DEF ParseFails
  <2>3. \A x \in Apps : events'[x] = <<"ErrorParseResponse">>
    BY <2>1, <2>2, SilentBefore
  <2> QED
    BY <1>4, <1>n, <2>1, <2>3, SilentBefore DEF ParseFails, Report
<1>5. CASE NoUpdate
  <2>1. resp' \in Responses /\ Updated(resp') = {}
    BY <1>5, NothingFiltered DEF NoUpdate
  <2> QED
    BY <1>5, <1>n, <2>1, SilentBefore DEF NoUpdate, Talking
\* An update is offered: until now nothing has been told of any app.
<1>o. ASSUME UpdateOffered
      PROVE  /\ resp' \in Responses
             /\ Offered(resp') = {resp'[i].id : i \in Updated(resp')}
             /\ error = "none"
             /\ \A x \in Apps : events[x] = <<>>
  <2>1. resp' \in Responses /\ Talking("check")
    BY <1>o DEF UpdateOffered, Talking
  <2> QED
    BY <2>1, SilentBefore, OfferedIds
<1>e. ASSUME NEW e, NEW p, UpdateOffered, Report(e, Apps, Offered(resp'), p)
      PROVE  /\ \A x \in Apps \ Offered(resp') : events'[x] = <<>>
             /\ \A i \in Updated(resp') : resp'[i].id \in Apps => events'[resp'[i].id] = <<e>>
  <2>1. \A x \in Apps : events'[x] = IF x \in Offered(resp') THEN Append(<<>>, e) ELSE <<>>
    BY <1>e, <1>o, ReportAppends
  <2> QED
    BY <1>o, <1>e, <2>1
<1>6. CASE PlanFails
  <2>1. pc' = "planFailed" /\ error' = "InstallPlan" /\ events' = events
    BY <1>6 DEF PlanFails
  <2> QED
    BY <1>6, <1>o, <2>1 DEF PlanFails, EventsTold, Told, Talking, Settling, AwaitsReboot
<1>7. CASE PlanFailureReported
  <2>1. pc = "planFailed" /\ error = "InstallPlan"
    BY <1>7 DEF PlanFailureReported, Coherent, Acting
  <2>2. \A x \in Apps : events'[x] = IF x \in Offered(resp)
                          THEN Append(events[x], "ErrorConstructInstallPlan") ELSE events[x]
    BY <1>7, ReportAppends DEF PlanFailureReported
  <2>3. pc' = "sending" /\ purpose' = "planError" /\ UNCHANGED <<resp, results, actions, error>>
    BY <1>7 DEF PlanFailureReported, Report
  <2>4. ASSUME NEW i \in Updated(resp), resp[i].id \in Apps
        PROVE  events'[resp[i].id] = <<"ErrorConstructInstallPlan">>
    <3>1. events[resp[i].id] = <<>> /\ resp[i].id \in Offered(resp)
      BY <1>i, <2>1, <2>4 DEF EventsTold, Told
    <3> QED
      BY <2>2, <2>4, <3>1, AppendIs
  <2> QED
    BY <2>1, <2>2, <2>3, <2>4 DEF EventsTold, Told, Talking, Settling, AwaitsReboot
<1>8. CASE Defer
  <2>1. pc' = "sending" /\ purpose' = "deferred" /\ error' = "none"
    BY <1>8, <1>o DEF Defer, Report
  <2> QED
    BY <1>8, <1>o, <1>e, <2>1 DEF Defer, EventsTold, Told, Talking, Settling, AwaitsReboot
<1>9. CASE AnnounceDeferred
  <2>1. Talking("deferred") /\ error = "none" /\ pc' = "settle"
    BY <1>9 DEF AnnounceDeferred, Coherent, Acting, Talking
  <2>2. UNCHANGED <<resp, results, error, events>>
    BY <1>9 DEF AnnounceDeferred
  <2>3. \A i \in Updated(resp) : actions'[i] = "DeferredByPolicy"
    BY <1>9 DEF AnnounceDeferred, SameAction, Updated
  <2> QED
    BY <2>1, <2>2, <2>3, StoriesAre DEF EventsTold, Told, Talking, Settling, AwaitsReboot
<1>10. CASE Deny
  <2>1. pc' = "sending" /\ purpose' = "denied" /\ error' = "none"
          /\ actions' = SameAction(resp', "DeniedByPolicy")
    BY <1>10, <1>o DEF Deny, Report
  <2> QED
    BY <1>10, <1>o, <1>e, <2>1 DEF Deny, EventsTold, Told, Talking, Settling, AwaitsReboot
<1>11. CASE StartInstall
  <2>1. pc' = "sending" /\ purpose' = "started" /\ error' = "none"
    BY <1>11, <1>o DEF StartInstall, Report
  <2> QED
    BY <1>11, <1>o, <1>e, <2>1 DEF StartInstall, EventsTold, Told, Talking, Settling, AwaitsReboot
<1>12. CASE Install
  <2>1. PICK res \in PerformInstall(Len(AppsWithUpdate(resp))) :
          results' = res /\ ReportResults(res)
    BY <1>12 DEF Install
  <2>2. res \in Seq(InstallResults)
    BY <1>r, Filtered, ResponseTyped, InstallTyped
  <2>3. Talking("started") /\ error = "none"
    BY <1>12 DEF Install, Talking, Coherent, Acting
  <2>4. pc' = "sending" /\ purpose' = "results" /\ UNCHANGED <<resp, actions, error>>
    BY <1>12, <2>1 DEF Install, ReportResults
  <2> DEFINE paired(x) == {k \in Paired(resp, res) : AppsWithUpdate(resp)[k].id = x}
  <2>5. events' = [x \in Apps |->
                     IF paired(x) = {} THEN events[x]
                       ELSE Append(events[x], EventFor(res[CHOOSE k \in paired(x) : TRUE]))]
    BY <2>1, Zenon DEF ReportResults
  <2>6. ASSUME NEW x \in Apps \ Offered(resp)
        PROVE  events'[x] = <<>>
    <3>1. paired(x) = {}
      BY <1>r, NotPaired
    <3>2. events'[x] = events[x]
      BY <2>5, <3>1
    <3> QED
      BY <2>3, <3>2 DEF EventsTold
  <2>7. ASSUME NEW i \in Updated(resp), resp[i].id \in Apps
        PROVE  events'[resp[i].id] = InstallStory(i)'
    <3>1. paired(resp[i].id) = IF Rank(resp, i) <= Len(res) THEN {Rank(resp, i)} ELSE {}
      BY <1>r, <2>2, PairedIs
    <3>2. events[resp[i].id] = <<"DownloadStarted">>
      BY <2>3, <2>7 DEF EventsTold, Told
    <3>3. CASE Rank(resp, i) <= Len(res)
      <4>1. paired(resp[i].id) = {Rank(resp, i)}
        BY <3>1, <3>3
      <4>2. (CHOOSE k \in paired(resp[i].id) : TRUE) = Rank(resp, i)
        BY <4>1
      <4>3. events'[resp[i].id] = Append(<<"DownloadStarted">>, EventFor(res[Rank(resp, i)]))
        <5> HIDE DEF paired
        <5> QED
          BY <2>5, <2>7, <3>2, <4>1, <4>2
      <4> QED
        BY <2>1, <2>4, <3>3, <4>3, AppendIs DEF InstallStory
    <3>4. CASE ~(Rank(resp, i) <= Len(res))
      <4>1. events'[resp[i].id] = events[resp[i].id]
        BY <2>5, <2>7, <3>1, <3>4
      <4> QED
        BY <2>1, <2>4, <3>2, <3>4, <4>1 DEF InstallStory
    <3> QED
      BY <3>3, <3>4
  <2> HIDE DEF paired
  <2> QED
    BY <2>3, <2>4, <2>6, <2>7 DEF EventsTold, Told, Talking, Settling, AwaitsReboot
<1>13. CASE Complete
  <2>1. Talking("results") /\ error = "none"
    BY <1>13 DEF Complete, Talking, Coherent, Acting
  <2>2. UNCHANGED <<resp, results, actions, error>>
    BY <1>13 DEF Complete
  <2>3. \A i \in Updated(resp) : resp[i].id \in Apps => events[resp[i].id] = InstallStory(i)
    BY <2>1 DEF EventsTold, Told
  <2>4. CASE InstalledApps = {}
    <3>1. pc' = "conclude" /\ UNCHANGED <<purpose, events>>
      BY <1>13, <2>4 DEF Complete
    <3>2. \A i \in Updated(resp) : resp[i].id \in Apps => ~WasInstalled(i)
      BY <2>4, InstalledAre
    <3>3. \A i : InstallStory(i)' = InstallStory(i) /\ (WasInstalled(i)' <=> WasInstalled(i))
      BY <2>2 DEF InstallStory, WasInstalled
    <3> QED
      BY <2>1, <2>2, <2>3, <3>1, <3>2, <3>3
         DEF EventsTold, Told, Talking, Settling, AwaitsReboot
  <2>5. CASE InstalledApps # {}
    <3>1. pc' = "sending" /\ purpose' = "complete"
      BY <1>13, <2>5 DEF Complete, Report
    <3>2. \A x \in Apps : events'[x] = IF x \in InstalledApps /\ x \in Offered(resp)
                            THEN Append(events[x], "UpdateComplete") ELSE events[x]
      BY <1>13, <2>5, ReportAppends DEF Complete
    <3>3. \A i \in Updated(resp) : resp[i].id \in Apps =>
            events'[resp[i].id] = IF WasInstalled(i)
                                    THEN Append(InstallStory(i), "UpdateComplete")
                                    ELSE InstallStory(i)
      BY <1>i, <2>3, <3>2, InstalledAre
    <3>4. \A x \in Apps \ Offered(resp) : events'[x] = <<>>
      BY <2>1, <3>2 DEF EventsTold
    <3>5. \A i : InstallStory(i)' = InstallStory(i) /\ (WasInstalled(i)' <=> WasInstalled(i))
      BY <2>2 DEF InstallStory, WasInstalled
    <3> QED
      BY <2>1, <2>2, <3>1, <3>3, <3>4, <3>5
         DEF EventsTold, Told, Talking, Settling, AwaitsReboot
  <2> QED
    BY <2>4, <2>5
<1>14. CASE Conclude
  <2>1. (pc = "conclude" \/ Talking("complete")) /\ error = "none" /\ pc' = "settle"
    BY <1>14 DEF Conclude, Concluding, Talking, Coherent, Acting
  <2>2. UNCHANGED <<resp, results, error, events>> /\ actions' = InstallActions(resp, results)
    BY <1>14 DEF Conclude
  <2>3. ASSUME NEW i \in Updated(resp), resp[i].id \in Apps
        PROVE  events[resp[i].id] \in Stories(actions'[i])
    <3> DEFINE v == results[Rank(resp, i)]
    <3>1. Rank(resp, i) \in 1..Len(results)
      <4>1. Len(AppsWithUpdate(resp)) = Cardinality(Updated(resp))
              /\ Cardinality(Updated(resp)) \in Nat /\ Len(results) \in Nat
        BY <1>r, Filtered, ResponseTyped
      <4>2. Len(results) >= Cardinality(Updated(resp))
        BY <1>14, <4>1 DEF Conclude, TooFewResults
      <4>3. Rank(resp, i) \in 1..Cardinality(Updated(resp))
        BY <1>r, RankBounds
      <4> QED
        BY <4>1, <4>2, <4>3
    <3>2. v \in InstallResults /\ actions'[i] = ActionFor(v)
      BY <1>r, <2>2, <3>1, InstallActionsAre
    <3>3. InstallStory(i) = <<"DownloadStarted", EventFor(v)>> /\ (WasInstalled(i) <=> v = "Installed")
      BY <3>1 DEF InstallStory, WasInstalled
    <3>4. events[resp[i].id] = IF v = "Installed"
                                 THEN Append(<<"DownloadStarted", EventFor(v)>>, "UpdateComplete")
                                 ELSE <<"DownloadStarted", EventFor(v)>>
      BY <2>1, <2>3, <3>3 DEF EventsTold, Told
    <3> HIDE DEF v
    <3>5. CASE v = "Installed"
      <4>1. events[resp[i].id] = <<"DownloadStarted", "DownloadFinished", "UpdateComplete">>
        BY <3>4, <3>5, ResultsMean, AppendIs
      <4> QED
        BY <3>2, <3>5, <4>1, ResultsMean, StoriesAre
    <3>6. CASE v = "Deferred"
      BY <3>2, <3>4, <3>6, ResultsMean, StoriesAre
    <3>7. CASE v = "Failed"
      BY <3>2, <3>4, <3>7, ResultsMean, StoriesAre
    <3> QED
      BY <3>2, <3>5, <3>6, <3>7
  <2> QED
    BY <2>1, <2>2, <2>3 DEF EventsTold, Told, Talking, Settling, AwaitsReboot
<1>15. CASE Reported
  <2>1. pc' = "settle" /\ UNCHANGED <<purpose, resp, results, actions, error, events>>
    BY <1>15 DEF Reported
  <2>2. CASE Talking("parseError")
    <3>1. resp = <<>> /\ Updated(resp) = {}
      BY <2>2 DEF Coherent, Updated
    <3> QED
      BY <1>u, <2>1, <3>1 DEF Talking
  <2>3. CASE Talking("planError")
    <3>1. error = "InstallPlan"
      BY <2>3 DEF Coherent, Acting, Talking
    <3> QED
      BY <2>1, <2>3, <3>1 DEF EventsTold, Told, Talking, Settling, AwaitsReboot
  <2>4. CASE Talking("denied")
    <3>1. error = "none"
      BY <2>4 DEF Coherent, Acting, Talking
    <3>2. \A i \in Updated(resp) : actions[i] = "DeniedByPolicy"
      BY <2>4 DEF EventsTold, SameAction, Updated
    <3> QED
      BY <2>1, <2>4, <3>1, <3>2, StoriesAre DEF EventsTold, Told, Talking, Settling, AwaitsReboot
  <2> QED
    BY <1>15, <2>2, <2>3, <2>4 DEF Reported, Talking
<1>16. CASE CheckSucceeds \/ CheckFails \/ Save
  <2>1. /\ pc \in {"settle", "saving"} /\ pc' \in {"saving", "over"}
        /\ UNCHANGED <<resp, results, actions, error, events>>
    BY <1>16 DEF CheckSucceeds, CheckFails, Save
  <2> QED
    BY <1>u, <2>1 DEF Told, Talking, Settling, AwaitsReboot
<1>17. CASE AwaitReboot \/ Rest \/ Boot \/ Ping \/ PingStep
  <2>1. /\ pc \in {"off", "over"} \/ AwaitsReboot
        /\ \/ pc' \in {"rebootWait", "pingSave", "idle"}
           \/ pc' = "sending" /\ purpose' = "ping"
        /\ pc = "off" => pc' = "idle"
        /\ UNCHANGED <<resp, results, actions, error, events>>
    BY <1>17 DEF AwaitReboot, Rest, Boot, Ping, PingStep, PingFails, PingSucceeds, PingSave,
                 AwaitsReboot, Talking
  <2> QED
    BY <1>u, <2>1 DEF Told, Talking, Settling, AwaitsReboot
<1>18. CASE Lost \/ Begin
  <2>1. resp' = <<>> /\ error' = "none" /\ purpose' = "check"
          /\ pc' \in {"off", "sending"} /\ \A x \in Apps : events'[x] = <<>>
    BY <1>18 DEF Lost, Begin
  <2>2. Updated(resp') = {}
    BY <2>1 DEF Updated
  <2> QED
    BY <1>n, <2>1, <2>2
<1>19. CASE UNCHANGED vars
  BY <1>19, <1>u DEF vars, Told, Talking, Settling, AwaitsReboot, InstallStory, WasInstalled
<1> QED
  BY <1>1, <1>2, <1>3, <1>4, <1>5, <1>6, <1>7, <1>8, <1>9, <1>10, <1>11, <1>12, <1>13,
     <1>14, <1>15, <1>16, <1>17, <1>18, <1>19
     DEF Next, Step, Perform, Settle, Panic, Crash

\* When a check is over, Omaha has been told of each of our apps exactly what
\* the Action recorded for it says, whatever the response, the installer and
\* the policy did and whatever apps that are not ours the response names.
THEOREM EventsMatchTheOutcome == Spec => []EventsMatchOutcome
<1>1. Init => Counted /\ EventsTold
  <2> SUFFICES ASSUME Init
               PROVE  Counted /\ EventsTold
    OBVIOUS
  <2>1. Updated(resp) = {}
    BY DEF Init, Updated
  <2> QED
    BY <2>1 DEF Init, Counted, EventsTold, Talking, Acting
<1>2. Spec => []EventsTold
  BY <1>1, NextCounted, NextEventsTold, TypeCorrect, Coherence, StorageCorrespondence, PTL
     DEF Spec
<1>3. TypeOK /\ Coherent /\ EventsTold => EventsMatchOutcome
  <2> SUFFICES ASSUME TypeOK, Coherent, EventsTold, check = "over"
               PROVE  EventsMatchOutcome
    BY DEF EventsMatchOutcome
  <2>1. pc = "over" \/ AwaitsReboot
    BY DEF TypeOK, Coherent, AwaitsReboot, Checking, Talking, Acting, Settling
  <2>2. resp \in Responses \cup {<<>>} /\ error \in Errors
    BY DEF TypeOK
  <2>3. Offered(resp) = {resp[i].id : i \in Updated(resp)}
    BY <2>2, OfferedIds
  <2>4. error \in {"OmahaRequest", "ResponseParser"} => Offered(resp) = {}
    BY <2>3 DEF EventsTold, Updated
  <2>5. \A i \in Updated(resp) : resp[i].id \in Apps =>
          IF error = "InstallPlan" THEN events[resp[i].id] = <<"ErrorConstructInstallPlan">>
            ELSE error = "none" /\ events[resp[i].id] \in Stories(actions[i])
    BY <2>1 DEF EventsTold, Told
  <2>6. ASSUME NEW x \in Apps, x \notin Offered(resp)
        PROVE  events[x] = IF error = "ResponseParser" THEN <<"ErrorParseResponse">> ELSE <<>>
    BY <2>6 DEF EventsTold
  <2>7. ASSUME NEW x \in Apps, x \in Offered(resp), NEW i \in 1..Len(resp), resp[i].id = x
        PROVE  i \in Updated(resp)
    BY <2>2, <2>3, <2>7, ResponseTyped
  <2> QED
    BY <2>2, <2>3, <2>4, <2>5, <2>6, <2>7 DEF EventsMatchOutcome
<1> QED
  BY <1>2, <1>3, TypeCorrect, Coherence, PTL
=============================================================================
