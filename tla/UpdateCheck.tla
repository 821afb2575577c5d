---------------------------- MODULE UpdateCheck ----------------------------
(***************************************************************************)
(* One update check after another: start_update_check and                  *)
(* perform_update_check with every request they make of Omaha, the pings   *)
(* sent while a reboot is awaited, the Context they keep and what of it    *)
(* reaches storage, and a device that may lose power at any step.          *)
(*                                                                         *)
(* The server, the installer and the policy are external: each answers in  *)
(* any way its trait allows, and so does the storage: each set, remove and *)
(* commit may fail, which is logged and nothing else. Times are reduced to *)
(* whether they fall in the current check; UpdateRecord is about times.    *)
(***************************************************************************)
EXTENDS Integers, Sequences, FiniteSets

CONSTANTS
    Apps,           \* the ids of the app set
    Responses,      \* the bodies Omaha may answer with: sequences of
                    \* [id, status], each id once, not necessarily one of
                    \* Apps; status is "noupdate" for all that is not "ok"
    RetryAfter,     \* the X-Retry-After headers it may send, in seconds;
                    \* -1 is a header that is absent or does not parse
    MaxFailures,    \* bound on the failures counted (u32 and i64 in the code)
    MaxFaults       \* bound on the operations of a save that fail

ASSUME ResponsesAssumption ==
    \A r \in Responses :
      /\ r \in Seq([id : {r[i].id : i \in DOMAIN r}, status : {"ok", "noupdate"}])
      /\ \A i, j \in 1..Len(r) : r[i].id = r[j].id => i = j

ASSUME RetryAfterAssumption == RetryAfter \subseteq Nat \cup {-1} /\ -1 \in RetryAfter

ASSUME BoundsAssumption == MaxFailures \in Nat /\ MaxFaults \in Nat

VARIABLES
    pc,             \* where the check is
    attempt,        \* omaha_request_attempt
    purpose,        \* what the request under way is for
    reply,          \* what do_omaha_request_and_update_context returns for it
    resp,           \* the parsed response
    results,        \* the AppInstallResults
    actions,        \* the Actions of the AppResponses, one per app of resp
    error,          \* the UpdateCheckError, or "none"
    needed,         \* reboot_needed's answer: RebootAfterUpdate::Needed
    ctx,            \* self.context: poll interval, failures, last_update_time
    store,          \* storage as get() sees it
    disk,           \* storage as last committed
    faulty,         \* history: the storage operations that failed when they were
                    \* last tried: the keys whose set or remove did, and "commit"
    dictated,       \* history: the X-Retry-After of Omaha's last answer, or of
                    \* the last one saved if the machine was lost before that
    observed, check, reboot,
    events          \* history: the events reported for each app in this check

context == <<ctx, store, disk, faulty, dictated>>
inner == <<observed, check, reboot>>
body == <<attempt, resp, results, actions, error, needed>>
vars == <<pc, purpose, reply, body, context, inner, events>>

MAX_OMAHA_REQUEST_ATTEMPTS == 3
Missing == -1                           \* Option::None, or a key not set
NoPoll == Missing

Errors == {"none", "OmahaRequest", "ResponseParser", "InstallPlan"}

Purposes == {"check", "parseError", "planError", "deferred", "denied",
             "started", "results", "complete", "ping"}

\* Ok, and the OmahaRequestErrors perform_update_check tells apart: Internal
\* is Json, HttpBuilder, CupDecoration and CupValidation, and User a transport
\* error with is_user().
Replies == {"none", "ok", "Internal", "Transport", "User", "HttpStatus"}

InstallResults == {"Installed", "Deferred", "Failed"}

ActionKinds == {"NoUpdate", "DeferredByPolicy", "DeniedByPolicy",
                "InstallPlanExecutionError", "Updated"}

\* The events Omaha is told of an app.
EventKinds == {"ErrorParseResponse", "ErrorConstructInstallPlan", "ErrorDeniedByPolicy",
               "UpdateDeferred", "DownloadStarted", "DownloadFinished",
               "ErrorInstallation", "UpdateComplete"}

\* last_update_time: never, before this check began, or since.
Recency == {"unset", "before", "this"}

O == INSTANCE ObservedStates WITH observed <- observed, check <- check, reboot <- reboot

-----------------------------------------------------------------------------
(***************************************************************************)
(* Context and its persistence                                             *)
(***************************************************************************)

\* The parsed header: "clients SHOULD treat values greater than 86400 as 86400".
DictatedInterval(seconds) ==
    IF seconds < 0 THEN NoPoll ELSE IF seconds > 86400 THEN 86400 ELSE seconds

\* The keys of the Context.
ContextKeys == {"poll", "failed", "lastUpdate"}

\* Mutant: the first set that fails is the last one that is tried.
PersistUntilFailure(c, s, failing) ==
    IF "lastUpdate" \in failing THEN s
    ELSE [s EXCEPT !.lastUpdate = c.lastUpdate,
                   !.poll = IF "poll" \in failing THEN @ ELSE c.poll,
                   !.failed = IF failing \cap {"poll", "failed"} # {} THEN @
                              ELSE IF c.failed = 0 THEN Missing ELSE c.failed]

\* Context::persist: a count of 0 removes its key. The keys whose set_option_int
\* fails keep their value; the others are set all the same.
Persist(c, s, failing) ==
    [s EXCEPT !.poll = IF "poll" \in failing THEN @ ELSE c.poll,
              !.failed = IF "failed" \in failing THEN @
                         ELSE IF c.failed = 0 THEN Missing ELSE c.failed,
              !.lastUpdate = IF "lastUpdate" \in failing THEN @ ELSE c.lastUpdate]

\* Context::load: a missing or negative count is 0.
Load(s) ==
    [poll |-> IF s.poll < 0 THEN NoPoll ELSE s.poll,
     failed |-> IF s.failed < 0 THEN 0 ELSE s.failed,
     lastUpdate |-> s.lastUpdate]

\* A new check begins: what was recorded in this one is now in the past.
Age(x) == [x EXCEPT !.lastUpdate = IF @ = "this" THEN "before" ELSE @]

\* persist, then commit_or_log, under one lock of the storage.
PersistAndCommit ==
    \E failing \in SUBSET (ContextKeys \cup {"commit"}) :
      /\ store' = Persist(ctx, store, failing)
      /\ disk' = IF "commit" \in failing THEN disk ELSE store'
      /\ faulty' = failing \cup (faulty \cap {"installAttempts"})
      /\ Cardinality(faulty') <= MaxFaults
      /\ UNCHANGED <<ctx, dictated>>

\* The last attempt to put k on disk did not fail.
Kept(k) == faulty \cap {k, "commit"} = {}

-----------------------------------------------------------------------------
(***************************************************************************)
(* The response                                                            *)
(***************************************************************************)

\* Where in the response the apps with an update are, and how many of them
\* there are up to position i.
Updated(r) == {i \in 1..Len(r) : r[i].status = "ok"}
Rank(r, i) == Cardinality({j \in Updated(r) : j <= i})

\* The apps whose status is ok, in the order of the response.
AppsWithUpdate(r) ==
    [k \in 1..Cardinality(Updated(r)) |-> r[CHOOSE i \in Updated(r) : Rank(r, i) = k]]

\* The keys of next_versions.
Offered(r) == {AppsWithUpdate(r)[i].id : i \in 1..Len(AppsWithUpdate(r))}

\* make_app_responses: the same action for every app of the response.
SameAction(r, a) == [i \in 1..Len(r) |-> a]

ActionFor(result) ==
    CASE result = "Installed" -> "Updated"
      [] result = "Deferred" -> "DeferredByPolicy"
      [] result = "Failed" -> "InstallPlanExecutionError"

\* External: an installer that returns a result for each of n apps.
EveryResult(n) == [1..n -> InstallResults]

\* StubInstaller, and MinimalInstaller of the hello-world example: one result,
\* whatever the response offers.
StubResults == {<<"Installed">>, <<"Failed">>}
MinimalResults == {<<"Installed">>, <<"Failed">>}

\* What perform_install may return when n apps have an update.
PerformInstall(n) == EveryResult(n) \cup StubResults \cup MinimalResults

\* The results that are paired with an app: a zip ends with the shorter one.
Paired(r, res) == {i \in 1..Len(AppsWithUpdate(r)) : i <= Len(res)}

\* The AppResponses of an install: each app with an update takes the next of
\* the results.
InstallActions(r, res) ==
    [i \in 1..Len(r) |->
       IF r[i].status = "ok"
         THEN ActionFor(res[Rank(r, i)])
         ELSE "NoUpdate"]

\* Mutant: an app that was updated hides one that failed.
InstallSuccessIfAny(as) ==
    LET kinds == {as[i] : i \in 1..Len(as)} IN
    CASE "Updated" \in kinds -> "installed"
      [] "Updated" \notin kinds /\ "InstallPlanExecutionError" \in kinds -> "failed"
      [] OTHER -> "none"

\* install_success of start_update_check: Some(false), Some(true) or None.
InstallSuccess(as) ==
    LET kinds == {as[i] : i \in 1..Len(as)} IN
    CASE "InstallPlanExecutionError" \in kinds -> "failed"
      [] "InstallPlanExecutionError" \notin kinds /\ "Updated" \in kinds -> "installed"
      [] OTHER -> "none"

-----------------------------------------------------------------------------
(***************************************************************************)
(* Events                                                                  *)
(***************************************************************************)

EventFor(result) ==
    CASE result = "Installed" -> "DownloadFinished"
      [] result = "Deferred" -> "UpdateDeferred"
      [] result = "Failed" -> "ErrorInstallation"

\* The request of report_omaha_event_and_update_context: event e for those of
\* the apps that next_versions names. It is sent next.
Report(e, apps, nextVersions, p) ==
    /\ events' = [x \in Apps |->
                    IF x \in apps \cap nextVersions THEN Append(events[x], e)
                                                    ELSE events[x]]
    /\ purpose' = p
    /\ pc' = "sending"
    /\ reply' = "none"

\* Mutant: apps that are not ours are skipped before the pairing.
ReportResultsOfOurs(res) ==
    LET updated == SelectSeq(resp, LAMBDA app : app.status = "ok" /\ app.id \in Apps)
        paired(x) == {i \in 1..Len(updated) : i <= Len(res) /\ updated[i].id = x}
    IN /\ events' = [x \in Apps |->
                       IF paired(x) = {} THEN events[x]
                         ELSE Append(events[x], EventFor(res[CHOOSE i \in paired(x) : TRUE]))]
       /\ purpose' = "results"
       /\ pc' = "sending"
       /\ reply' = "none"

\* The request with one event per installed, deferred or failed app, paired
\* with the results by position; an app that is not ours is skipped (an id is
\* there once, so an app has at most one result).
ReportResults(res) ==
    LET updated == AppsWithUpdate(resp)
        paired(x) == {i \in Paired(resp, res) : updated[i].id = x}
    IN /\ events' = [x \in Apps |->
                       IF paired(x) = {} THEN events[x]
                         ELSE Append(events[x], EventFor(res[CHOOSE i \in paired(x) : TRUE]))]
       /\ purpose' = "results"
       /\ pc' = "sending"
       /\ reply' = "none"

\* installed_apps: our apps that the installer installed.
InstalledApps ==
    {AppsWithUpdate(resp)[i].id :
       i \in {j \in Paired(resp, results) : results[j] = "Installed"}} \cap Apps

-----------------------------------------------------------------------------

Contexts == [poll : Nat \cup {NoPoll}, failed : Nat, lastUpdate : Recency]

Stores == [poll : Nat \cup {Missing}, failed : Nat \cup {Missing},
           lastUpdate : Recency, installAttempts : Nat \cup {Missing}]

TypeOK ==
    /\ pc \in {"off", "idle", "sending", "savingPoll", "returned", "planFailed",
               "conclude", "settle", "saving",
               "over", "rebootWait", "pingSave"}
    /\ attempt \in 1..MAX_OMAHA_REQUEST_ATTEMPTS
    /\ purpose \in Purposes
    /\ reply \in Replies
    /\ resp \in Responses \cup {<<>>}
    /\ results \in Seq(InstallResults)
    /\ actions \in Seq(ActionKinds)
    /\ error \in Errors
    /\ needed \in BOOLEAN
    /\ ctx \in Contexts
    /\ {store, disk} \subseteq Stores
    /\ faulty \subseteq ContextKeys \cup {"installAttempts", "commit"}
    /\ dictated \in Nat \cup {Missing}
    /\ observed \in O!ObservedState
    /\ check \in O!CheckStatus
    /\ reboot \in BOOLEAN
    /\ events \in [Apps -> Seq(EventKinds)]

\* A device whose storage is empty.
Init ==
    /\ pc = "idle"
    /\ attempt = 1
    /\ purpose = "check"
    /\ reply = "none"
    /\ resp = <<>>
    /\ results = <<>>
    /\ actions = <<>>
    /\ error = "none"
    /\ needed = FALSE
    /\ disk = [poll |-> Missing, failed |-> Missing, lastUpdate |-> "unset",
               installAttempts |-> Missing]
    /\ store = disk
    /\ ctx = Load(disk)
    /\ faulty = {}
    /\ dictated = Missing
    /\ O!Init
    /\ events = [x \in Apps |-> <<>>]

-----------------------------------------------------------------------------
(***************************************************************************)
(* do_omaha_request_and_update_context                                     *)
(***************************************************************************)

\* The request cannot be built or sent, or its answer is not authentic: the
\* headers are not looked at.
ExchangeFails ==
    /\ pc = "sending"
    /\ reply' \in {"Internal", "Transport", "User"}
    /\ pc' = "returned"
    /\ UNCHANGED <<purpose, body, context, inner, events>>

\* Mutant: the header of an answer without a success status is ignored.
ExchangeMindsSuccess ==
    /\ pc = "sending"
    /\ reply' \in {"ok", "HttpStatus"}
    /\ dictated' \in RetryAfter
    /\ LET poll == IF reply' = "ok" THEN DictatedInterval(dictated') ELSE ctx.poll IN
         /\ ctx' = [ctx EXCEPT !.poll = poll]
         /\ pc' = IF poll = ctx.poll THEN "returned" ELSE "savingPoll"
    /\ UNCHANGED <<purpose, body, store, disk, faulty, inner, events>>

\* Omaha answers, with or without a success status; a change of the dictated
\* interval is yielded (the step that ends here) and then saved.
Exchange ==
    /\ pc = "sending"
    /\ reply' \in {"ok", "HttpStatus"}
    /\ dictated' \in RetryAfter
    /\ LET poll == DictatedInterval(dictated') IN
         /\ ctx' = [ctx EXCEPT !.poll = poll]
         /\ pc' = IF poll = ctx.poll THEN "returned" ELSE "savingPoll"
    /\ UNCHANGED <<purpose, body, store, disk, faulty, inner, events>>

\* Mutant: the change is yielded but not saved.
SavePollNot ==
    /\ pc = "savingPoll"
    /\ pc' = "returned"
    /\ UNCHANGED <<purpose, reply, body, context, inner, events>>

SavePoll ==
    /\ pc = "savingPoll"
    /\ PersistAndCommit
    /\ pc' = "returned"
    /\ UNCHANGED <<purpose, reply, body, inner, events>>

-----------------------------------------------------------------------------
(***************************************************************************)
(* perform_update_check                                                    *)
(***************************************************************************)

Begin ==
    /\ pc = "idle"
    /\ ctx.failed < MaxFailures
    /\ store.installAttempts < MaxFailures
    /\ O!Begin
    /\ pc' = "sending"
    /\ purpose' = "check"
    /\ reply' = "none"
    /\ attempt' = 1
    /\ resp' = <<>>
    /\ results' = <<>>
    /\ actions' = <<>>
    /\ error' = "none"
    /\ needed' = FALSE
    /\ ctx' = Age(ctx)
    /\ store' = Age(store)
    /\ disk' = Age(disk)
    /\ events' = [x \in Apps |-> <<>>]
    /\ UNCHANGED <<faulty, dictated>>

Returned(p) == pc = "returned" /\ purpose = p

\* A failure worth another try, after a pause, unless the server has asked to
\* be left alone.
Retryable == reply \in {"Transport", "HttpStatus"}

\* Mutant: one attempt too many.
MayRetryOnceMore ==
    /\ Retryable
    /\ attempt <= MAX_OMAHA_REQUEST_ATTEMPTS
    /\ ctx.poll = NoPoll

MayRetry ==
    /\ Retryable
    /\ attempt < MAX_OMAHA_REQUEST_ATTEMPTS
    /\ ctx.poll = NoPoll

\* Mutant: the attempts are not counted.
RetryUncounted ==
    /\ Returned("check")
    /\ MayRetry
    /\ pc' = "sending"
    /\ reply' = "none"
    /\ UNCHANGED <<purpose, body, context, inner, events>>

Retry ==
    /\ Returned("check")
    /\ MayRetry
    /\ attempt' = attempt + 1
    /\ pc' = "sending"
    /\ reply' = "none"
    /\ UNCHANGED <<purpose, resp, results, actions, error, needed, context, inner, events>>

GiveUp ==
    /\ Returned("check")
    /\ reply # "ok" /\ ~MayRetry
    /\ observed' = "ErrorCheckingForUpdate"
    /\ error' = "OmahaRequest"
    /\ pc' = "settle"
    /\ UNCHANGED <<purpose, reply, attempt, resp, results, actions, needed, context,
                   check, reboot, events>>

ParseFails ==
    /\ Returned("check")
    /\ reply = "ok"
    /\ observed' = "ErrorCheckingForUpdate"
    /\ error' = "ResponseParser"
    /\ Report("ErrorParseResponse", Apps, Apps, "parseError")
    /\ UNCHANGED <<attempt, resp, results, actions, needed, context, check, reboot>>

NoUpdate ==
    /\ Returned("check")
    /\ reply = "ok"
    /\ \E r \in Responses :
         /\ AppsWithUpdate(r) = <<>>
         /\ resp' = r
         /\ actions' = SameAction(r, "NoUpdate")
    /\ observed' = "NoUpdateAvailable"
    /\ pc' = "settle"
    /\ UNCHANGED <<purpose, reply, attempt, results, error, needed, context,
                   check, reboot, events>>

\* Omaha offers an update; what follows depends on installer and policy.
UpdateOffered ==
    /\ Returned("check")
    /\ reply = "ok"
    /\ \E r \in Responses : AppsWithUpdate(r) # <<>> /\ resp' = r

\* try_create_install_plan fails: InstallingUpdate, InstallationError, report.
PlanFails ==
    /\ UpdateOffered
    /\ observed' = "InstallingUpdate"
    /\ error' = "InstallPlan"
    /\ pc' = "planFailed"
    /\ UNCHANGED <<purpose, reply, attempt, results, actions, needed, context,
                   check, reboot, events>>

PlanFailureReported ==
    /\ pc = "planFailed"
    /\ observed' = "InstallationError"
    /\ Report("ErrorConstructInstallPlan", Apps, Offered(resp), "planError")
    /\ UNCHANGED <<body, context, check, reboot>>

\* update_can_start is DeferredByPolicy: the event goes out before the State.
Defer ==
    /\ UpdateOffered
    /\ Report("UpdateDeferred", Apps, Offered(resp'), "deferred")
    /\ UNCHANGED <<attempt, results, actions, error, needed, context, inner>>

AnnounceDeferred ==
    /\ Returned("deferred")
    /\ observed' = "InstallationDeferredByPolicy"
    /\ actions' = SameAction(resp, "DeferredByPolicy")
    /\ pc' = "settle"
    /\ UNCHANGED <<purpose, reply, attempt, resp, results, error, needed, context,
                   check, reboot, events>>

\* It is DeniedByPolicy: no State is yielded.
Deny ==
    /\ UpdateOffered
    /\ Report("ErrorDeniedByPolicy", Apps, Offered(resp'), "denied")
    /\ actions' = SameAction(resp', "DeniedByPolicy")
    /\ UNCHANGED <<attempt, results, error, needed, context, inner>>

\* It is Ok.
StartInstall ==
    /\ UpdateOffered
    /\ observed' = "InstallingUpdate"
    /\ Report("DownloadStarted", Apps, Offered(resp'), "started")
    /\ UNCHANGED <<attempt, results, actions, error, needed, context, check, reboot>>

\* perform_install returns, and its results are reported.
Install ==
    /\ Returned("started")
    /\ \E res \in PerformInstall(Len(AppsWithUpdate(resp))) :
         /\ results' = res
         /\ ReportResults(res)
    /\ UNCHANGED <<attempt, resp, actions, error, needed, context, inner>>

\* The extra event of the apps that were installed, when there are any.
Complete ==
    /\ Returned("results")
    /\ IF InstalledApps = {}
         THEN pc' = "conclude" /\ UNCHANGED <<purpose, reply, events>>
         ELSE Report("UpdateComplete", InstalledApps, Offered(resp), "complete")
    /\ UNCHANGED <<body, context, inner>>

Concluding == pc = "conclude" \/ Returned("complete")

\* app_install_results.remove(0) of an empty Vec panics.
TooFewResults == Concluding /\ Len(results) < Len(AppsWithUpdate(resp))

\* An app failed: InstallationError, and no reboot. Else the finish time is
\* recorded (see UpdateRecord) and the policy is asked for a reboot.
Conclude ==
    /\ Concluding /\ ~TooFewResults
    /\ actions' = InstallActions(resp, results)
    /\ IF \E i \in 1..Len(results) : results[i] = "Failed"
         THEN observed' = "InstallationError" /\ needed' = FALSE
         ELSE needed' \in BOOLEAN /\ UNCHANGED observed
    /\ pc' = "settle"
    /\ UNCHANGED <<purpose, reply, attempt, resp, results, error, context,
                   check, reboot, events>>

\* The report of a failed or denied update has been sent, or lost.
Reported ==
    /\ Returned("parseError") \/ Returned("planError") \/ Returned("denied")
    /\ pc' = "settle"
    /\ UNCHANGED <<purpose, reply, body, context, inner, events>>

-----------------------------------------------------------------------------
(***************************************************************************)
(* start_update_check, after perform_update_check has returned             *)
(***************************************************************************)

\* report_attempts_to_successful_install: set in storage, not committed.
CountInstall(s) ==
    CASE InstallSuccess(actions) = "failed" ->
           [s EXCEPT !.installAttempts = (IF @ = Missing THEN 0 ELSE @) + 1]
      [] InstallSuccess(actions) = "installed" -> [s EXCEPT !.installAttempts = Missing]
      [] OTHER -> s

\* The context is updated and yielded with the result ...
CheckSucceeds ==
    /\ pc = "settle"
    /\ error = "none"
    /\ ctx' = [ctx EXCEPT !.failed = 0, !.lastUpdate = "this"]
    /\ \E failing \in SUBSET {"installAttempts"} :
         /\ store' = IF failing = {} THEN CountInstall(store) ELSE store
         /\ InstallSuccess(actions) = "none" => failing = {}
         /\ faulty' = (faulty \ {"installAttempts"}) \cup failing
         /\ failing # {} => Cardinality(faulty') <= MaxFaults
    /\ pc' = "saving"
    /\ UNCHANGED <<purpose, reply, body, disk, dictated, inner, events>>

\* Mutant: an answer that could not be parsed does not count as contact.
CheckFailsSilently ==
    /\ pc = "settle"
    /\ error # "none"
    /\ ctx' = [ctx EXCEPT !.failed = @ + 1,
                          !.lastUpdate = IF error = "InstallPlan" THEN "this" ELSE @]
    /\ pc' = "saving"
    /\ UNCHANGED <<purpose, reply, body, store, disk, faulty, dictated, inner, events>>

CheckFails ==
    /\ pc = "settle"
    /\ error # "none"
    /\ ctx' = [ctx EXCEPT !.failed = @ + 1,
                          !.lastUpdate = IF error = "OmahaRequest" THEN @ ELSE "this"]
    /\ pc' = "saving"
    /\ UNCHANGED <<purpose, reply, body, store, disk, faulty, dictated, inner, events>>

\* ... and only then saved, by persist_data. The check returns.
Save ==
    /\ pc = "saving"
    /\ PersistAndCommit
    /\ check' = "over"
    /\ reboot' = needed
    /\ pc' = "over"
    /\ UNCHANGED <<purpose, reply, body, observed, events>>

-----------------------------------------------------------------------------
(***************************************************************************)
(* Between checks                                                          *)
(***************************************************************************)

AwaitReboot ==
    /\ pc = "over"
    /\ O!AwaitReboot
    /\ pc' = "rebootWait"
    /\ UNCHANGED <<purpose, reply, body, context, events>>

Rest ==
    /\ \/ pc = "over" /\ ~reboot
       \/ pc = "rebootWait"
    /\ O!Rest
    /\ pc' = "idle"
    /\ UNCHANGED <<purpose, reply, body, context, events>>

\* ping_omaha, when the next check would have been due.
Ping ==
    /\ pc = "rebootWait"
    /\ ctx.failed < MaxFailures
    /\ purpose' = "ping"
    /\ pc' = "sending"
    /\ reply' = "none"
    /\ UNCHANGED <<body, context, inner, events>>

PingFails ==
    /\ Returned("ping")         \* also an "ok" whose body does not parse
    /\ ctx' = [ctx EXCEPT !.failed = @ + 1]
    /\ pc' = "pingSave"
    /\ UNCHANGED <<purpose, reply, body, store, disk, faulty, dictated, inner, events>>

PingSucceeds ==
    /\ Returned("ping")
    /\ reply = "ok"
    /\ ctx' = [ctx EXCEPT !.failed = 0, !.lastUpdate = "this"]
    /\ pc' = "pingSave"
    /\ UNCHANGED <<purpose, reply, body, store, disk, faulty, dictated, inner, events>>

PingSave ==
    /\ pc = "pingSave"
    /\ PersistAndCommit
    /\ pc' = "rebootWait"
    /\ UNCHANGED <<purpose, reply, body, inner, events>>

\* The machine is gone; all that is left is what was committed. An interval that
\* was not saved is gone, too, and the one before it is back.
Lost ==
    /\ pc' = "off"
    /\ store' = disk
    /\ ctx' = Load(disk)
    /\ faulty' = {}
    /\ dictated' = IF pc # "savingPoll" /\ Kept("poll") THEN dictated ELSE Load(disk).poll
    /\ O!End
    /\ purpose' = "check"
    /\ reply' = "none"
    /\ attempt' = 1
    /\ resp' = <<>>
    /\ results' = <<>>
    /\ actions' = <<>>
    /\ error' = "none"
    /\ needed' = FALSE
    /\ events' = [x \in Apps |-> <<>>]
    /\ UNCHANGED disk

\* The device loses power or reboots.
Crash == pc # "off" /\ Lost

Panic == TooFewResults /\ Lost

\* A new machine, with the context loaded from storage.
Boot ==
    /\ pc = "off"
    /\ pc' = "idle"
    /\ O!Boot
    /\ UNCHANGED <<purpose, reply, body, context, events>>

-----------------------------------------------------------------------------

Request == ExchangeFails \/ Exchange \/ SavePoll

Perform ==
    \/ Retry \/ GiveUp \/ ParseFails \/ NoUpdate
    \/ PlanFails \/ PlanFailureReported
    \/ Defer \/ AnnounceDeferred \/ Deny
    \/ StartInstall \/ Install \/ Complete \/ Conclude
    \/ Reported

Settle == CheckSucceeds \/ CheckFails \/ Save

PingStep == PingFails \/ PingSucceeds \/ PingSave

Step == Request \/ Perform \/ Settle \/ PingStep \/ Panic

Next == Step \/ Begin \/ AwaitReboot \/ Rest \/ Ping \/ Crash \/ Boot

\* The stream is polled and the server, the installer and the policy return:
\* a check or a ping that is under way goes on.
Spec == Init /\ [][Next]_vars /\ WF_vars(Step)

-----------------------------------------------------------------------------
(***************************************************************************)
(* Properties                                                              *)
(***************************************************************************)

\* The events an app with an update must have been reported with, in order,
\* when its AppResponse says a.
Stories(a) ==
    CASE a = "Updated" -> {<<"DownloadStarted", "DownloadFinished", "UpdateComplete">>}
      [] a = "InstallPlanExecutionError" -> {<<"DownloadStarted", "ErrorInstallation">>}
      [] a = "DeferredByPolicy" -> {<<"UpdateDeferred">>, <<"DownloadStarted", "UpdateDeferred">>}
      [] a = "DeniedByPolicy" -> {<<"ErrorDeniedByPolicy">>}
      [] OTHER -> {}

\* What Omaha is told and what the client concludes agree: when a check is
\* over, each of our apps was reported with exactly the events of the Action
\* recorded for it, though the events pair apps and results by position among
\* the apps with an update, and the Actions by position among all apps, and
\* the response may name apps that are not ours; an app without an update is
\* never reported.
EventsMatchOutcome ==
    check = "over" =>
      \A x \in Apps :
        /\ error = "OmahaRequest" => events[x] = <<>>
        /\ error = "ResponseParser" => events[x] = <<"ErrorParseResponse">>
        /\ error = "InstallPlan" =>
             events[x] = IF x \in Offered(resp) THEN <<"ErrorConstructInstallPlan">> ELSE <<>>
        /\ error = "none" =>
             IF x \in Offered(resp)
               THEN \A i \in 1..Len(resp) : resp[i].id = x => events[x] \in Stories(actions[i])
               ELSE events[x] = <<>>

\* A crash between checks loses nothing: once a check or a ping is over,
\* everything it changed has been committed, and Context::load restores from
\* it the context the machine has (the install attempts are set long before
\* persist_data commits them). What a save failed to put on disk is the one
\* exception, key by key, and the next save makes up for it.
NothingUnsavedAtRest ==
    pc \in {"idle", "over", "rebootWait"} =>
      /\ "commit" \notin faulty => store = disk
      /\ \A k \in ContextKeys : Kept(k) => Load(disk)[k] = ctx[k]

\* The server's wish to be left alone outlives a crash: outside the one step
\* that saves it, and unless saving it failed, the committed interval is the
\* one that Omaha's last answer dictated, also while the check that was told
\* it goes on, and after any number of crashes.
DictatedIntervalOnDisk ==
    pc # "savingPoll" /\ Kept("poll") => Load(disk).poll = DictatedInterval(dictated)

\* No request for a check is tried again once Omaha's last answer has dictated
\* an interval, whatever the status of that answer, and whether it came in this
\* check, to an event or a ping before it, or before a restart (unless it was
\* not saved by then).
NoRetryOnceToldToWait ==
    pc = "sending" /\ purpose = "check" /\ attempt > 1 => dictated = Missing

\* What a finished check leaves on disk tells how it went: the failures are
\* reset exactly by a check that succeeded, and last_update_time is renewed by
\* every one for which Omaha answered with a success status, whether or not
\* the body could be parsed and a plan made of it. (What becomes of it after a
\* check without such an answer is Schedule's CheckTimeStored.)
OutcomeOnDisk ==
    pc = "over" =>
      /\ Kept("failed") => ((Load(disk).failed = 0) <=> (error = "none"))
      /\ Kept("lastUpdate") /\ error # "OmahaRequest" => disk.lastUpdate = "this"

\* A reboot never follows a failed install, and the count of failed install
\* attempts is reset only by an install in which nothing failed: an app that
\* was updated after another one failed does not hide the failure.
InstallOutcomeCounted ==
    pc = "over" /\ results # <<>> =>
      LET outcome == {results[i] : i \in 1..Len(results)} IN
      /\ "Failed" \in outcome => ~reboot
      /\ Kept("installAttempts") /\ "Failed" \in outcome => disk.installAttempts > 0
      /\ Kept("installAttempts") /\ "Failed" \notin outcome /\ "Installed" \in outcome
           => disk.installAttempts = Missing

\* The States yielded are those ObservedStates promises, and every check ends.
Observed == O!Spec

-----------------------------------------------------------------------------
(***************************************************************************)
(* What comments in the source say and the code does not do                *)
(***************************************************************************)

\* "If a valid X-Retry-After header is found in the response, this function
\* will update the server dictated poll interval": the response to an event
\* report that has no such header leaves the interval the check was told.
EventReplyKeepsInterval ==
    [][pc = "sending" /\ purpose \notin {"check", "ping"} /\ pc' # "off"
         => (ctx'.poll = NoPoll => ctx.poll = NoPoll)]_vars
=============================================================================
