---------------------------- MODULE ControlLoop ----------------------------
(***************************************************************************)
(* StateMachine::run and StateMachine::wait_for_reboot, with the           *)
(* ControlHandles that send them requests over a zero-capacity channel.    *)
(*                                                                         *)
(* The update check the loop drives is the one ObservedStates promises;    *)
(* UpdateCheck shows that start_update_check keeps that promise.           *)
(* Time is left out: a timer that is armed may fire at any later step.     *)
(***************************************************************************)
EXTENDS Naturals, Sequences

CONSTANTS
    Handles,        \* the clones of ControlHandle, each with one call at a time
    NoHandle        \* no responder: the check was started by the timer, or
                    \* the caller is no longer there to be answered

ASSUME NoHandleAssumption == NoHandle \notin Handles

VARIABLES
    pc,             \* where run() is
    source,         \* options.source of the current check
    responder,      \* the handle run() still has to answer
    queue,          \* the mpsc channel
    wanted,         \* wanted[h]: the source h's last request asks for
    caller,         \* caller[h]: is h's owner waiting for an answer
    answer,         \* answer[h]: the last answer h's owner received
    observed, check, reboot,
    urged,          \* history: an on-demand request has been accepted for
                    \* the current check
    asked           \* history: the source reboot_allowed was last asked about

control == <<queue, wanted, caller, answer>>
inner == <<observed, check, reboot>>
vars == <<pc, source, responder, control, inner, urged, asked>>

\* InstallSource; CheckOptions::default() is ScheduledTask.
Sources == {"ScheduledTask", "OnDemand"}
NoSource == "NoSource"

\* StartUpdateCheckResponse, the StateMachineGone error, and no answer yet.
Answers == {"None", "Started", "AlreadyRunning", "Throttled", "StateMachineGone"}

Locations == {"starting", "scheduling", "waiting", "deciding", "checking",
              "checked", "askReboot", "rebootWait", "pinging", "rebooting",
              "rebootFailed", "ended"}

\* The promise of the update check (same variables, same names).
O == INSTANCE ObservedStates WITH observed <- observed, check <- check, reboot <- reboot

Elements(s) == {s[i] : i \in 1..Len(s)}

TypeOK ==
    /\ pc \in Locations
    /\ source \in Sources \cup {NoSource}
    /\ pc \notin {"starting", "scheduling", "waiting", "ended"} => source \in Sources
    /\ responder \in Handles \cup {NoHandle}
    /\ queue \in Seq(Handles)
    /\ wanted \in [Handles -> Sources]
    /\ caller \in [Handles -> {"idle", "calling", "abandoned"}]
    /\ answer \in [Handles -> Answers]
    /\ observed \in O!ObservedState
    /\ check \in O!CheckStatus
    /\ reboot \in BOOLEAN
    /\ urged \in BOOLEAN
    /\ asked \in Sources \cup {NoSource}

Init ==
    /\ pc = "starting"
    /\ source = NoSource
    /\ responder = NoHandle
    /\ queue = <<>>
    /\ wanted = [h \in Handles |-> "ScheduledTask"]
    /\ caller = [h \in Handles |-> "idle"]
    /\ answer = [h \in Handles |-> "None"]
    /\ O!Init
    /\ urged = FALSE
    /\ asked = NoSource

-----------------------------------------------------------------------------
(***************************************************************************)
(* ControlHandle.                                                          *)
(***************************************************************************)

\* start_update_check: the channel has no buffer, so that a handle whose last
\* message is still in it is parked; sending to a machine that is gone fails.
Call(h, s) ==
    /\ caller[h] = "idle"
    /\ wanted' = [wanted EXCEPT ![h] = s]
    /\ IF pc = "ended"
         THEN /\ answer' = [answer EXCEPT ![h] = "StateMachineGone"]
              /\ UNCHANGED <<queue, caller>>
         ELSE /\ answer' = [answer EXCEPT ![h] = "None"]
              /\ caller' = [caller EXCEPT ![h] = "calling"]
              /\ queue' = Append(queue, h)
    /\ UNCHANGED <<pc, source, responder, inner, urged, asked>>

\* The caller drops the future of its call: a message in the channel stays
\* there, and an answer to it will reach nobody.
Abandon(h) ==
    /\ caller[h] = "calling"
    /\ IF responder = h
         THEN /\ responder' = NoHandle
              /\ caller' = [caller EXCEPT ![h] = "idle"]
         ELSE /\ caller' = [caller EXCEPT ![h] = "abandoned"]
              /\ UNCHANGED responder
    /\ UNCHANGED <<pc, source, queue, wanted, answer, inner, urged, asked>>

\* control.select_next_some() yields the request of h, which is then answered
\* a, unless its caller is gone.
Reply(h, a) ==
    /\ queue' = Tail(queue)
    /\ caller' = [caller EXCEPT ![h] = "idle"]
    /\ answer' = IF caller[h] = "calling" THEN [answer EXCEPT ![h] = a] ELSE answer
    /\ UNCHANGED wanted

-----------------------------------------------------------------------------
(***************************************************************************)
(* run()                                                                   *)
(***************************************************************************)

\* app_set.all_valid(), then the first turn of the loop.
Start ==
    /\ pc = "starting"
    /\ pc' = "scheduling"
    /\ UNCHANGED <<source, responder, control, inner, urged, asked>>

\* The machine goes away and takes its channel with it: run() returns on an
\* invalid app set (from "starting"), or the stream that drives it is dropped.
End ==
    /\ pc # "ended"
    /\ pc' = "ended"
    /\ O!End
    /\ queue' = <<>>
    /\ responder' = NoHandle
    /\ caller' = [h \in Handles |-> "idle"]
    /\ answer' = [h \in Handles |->
                    IF caller[h] = "calling" THEN "StateMachineGone" ELSE answer[h]]
    /\ UNCHANGED <<source, wanted, urged, asked>>

\* Top of the loop: update_next_update_time and make_wait_to_next_check.
Schedule ==
    /\ pc = "scheduling"
    /\ pc' = "waiting"
    /\ source' = NoSource
    /\ urged' = FALSE
    /\ asked' = NoSource
    /\ UNCHANGED <<responder, control, inner>>

\* Mutant: the check the timer starts has no options.
TimerFiresWithoutOptions ==
    /\ pc = "waiting"
    /\ pc' = "deciding"
    /\ UNCHANGED <<source, responder, control, inner, urged, asked>>

TimerFires ==
    /\ pc = "waiting"
    /\ pc' = "deciding"
    /\ source' = "ScheduledTask"
    /\ UNCHANGED <<responder, control, inner, urged, asked>>

TakeRequest ==
    /\ pc = "waiting"
    /\ queue # <<>>
    /\ LET h == Head(queue) IN
         /\ source' = wanted[h]
         /\ responder' = IF caller[h] = "calling" THEN h ELSE NoHandle
         /\ caller' = IF caller[h] = "calling" THEN caller
                                              ELSE [caller EXCEPT ![h] = "idle"]
    /\ queue' = Tail(queue)
    /\ pc' = "deciding"
    /\ UNCHANGED <<wanted, answer, inner, urged, asked>>

\* Mutant: the responder is kept after it was answered.
AnswerResponderKept(a) ==
    /\ IF responder = NoHandle
         THEN UNCHANGED <<caller, answer>>
         ELSE /\ caller' = [caller EXCEPT ![responder] = "idle"]
              /\ answer' = [answer EXCEPT ![responder] = a]
    /\ UNCHANGED <<responder, queue, wanted>>

\* responder.send(a), when there is a responder.
AnswerResponder(a) ==
    /\ responder' = NoHandle
    /\ IF responder = NoHandle
         THEN UNCHANGED <<caller, answer>>
         ELSE /\ caller' = [caller EXCEPT ![responder] = "idle"]
              /\ answer' = [answer EXCEPT ![responder] = a]
    /\ UNCHANGED <<queue, wanted>>

\* update_check_allowed is one of TooSoon, ThrottledByPolicy, DeniedByPolicy:
\* back to the top of the loop.
CheckRefused ==
    /\ pc = "deciding"
    /\ pc' = "scheduling"
    /\ AnswerResponder("Throttled")
    /\ UNCHANGED <<source, inner, urged, asked>>

\* It is Ok or OkUpdateDeferred: the update check starts.
CheckAllowed ==
    /\ pc = "deciding"
    /\ pc' = "checking"
    /\ AnswerResponder("Started")
    /\ urged' = (source = "OnDemand")
    /\ UNCHANGED <<source, inner, asked>>

\* The select loop polls the update check, which yields a State or returns.
CheckStep ==
    /\ pc = "checking"
    /\ O!Begin \/ O!Announce \/ O!Finish
    /\ pc' = IF check' = "over" THEN "checked" ELSE "checking"
    /\ UNCHANGED <<source, responder, control, urged, asked>>

\* Mutant: the options of the request replace those of the check.
RequestDuringCheckReplaces ==
    /\ pc = "checking"
    /\ queue # <<>>
    /\ LET h == Head(queue) IN
         /\ source' = wanted[h]
         /\ urged' = (urged \/ wanted[h] = "OnDemand")
         /\ Reply(h, "AlreadyRunning")
    /\ UNCHANGED <<pc, responder, inner, asked>>

\* ... or takes a request, which may only make the check more urgent.
RequestDuringCheck ==
    /\ pc = "checking"
    /\ queue # <<>>
    /\ LET h == Head(queue) IN
         /\ source' = IF wanted[h] = "OnDemand" THEN "OnDemand" ELSE source
         /\ urged' = (urged \/ wanted[h] = "OnDemand")
         /\ Reply(h, "AlreadyRunning")
    /\ UNCHANGED <<pc, responder, inner, asked>>

\* Mutant: the wait for the reboot begins unannounced.
AnnounceRebootNot ==
    /\ pc = "checked"
    /\ reboot
    /\ pc' = "askReboot"
    /\ UNCHANGED <<source, responder, control, inner, urged, asked>>

AnnounceReboot ==
    /\ pc = "checked"
    /\ reboot
    /\ pc' = "askReboot"
    /\ observed' = "WaitingForReboot"
    /\ UNCHANGED <<source, responder, control, check, reboot, urged, asked>>

\* Mutant: a check that ends without a reboot is not followed by Idle.
GoIdleOnlyAfterReboot ==
    /\ \/ pc = "checked" /\ ~reboot
       \/ pc = "rebootFailed"
    /\ pc' = "scheduling"
    /\ observed' = IF pc = "rebootFailed" THEN "Idle" ELSE observed
    /\ check' = "none"
    /\ reboot' = FALSE
    /\ UNCHANGED <<source, responder, control, urged, asked>>

\* No reboot is needed, or it could not be performed.
GoIdle ==
    /\ \/ pc = "checked" /\ ~reboot
       \/ pc = "rebootFailed"
    /\ pc' = "scheduling"
    /\ observed' = "Idle"
    /\ check' = "none"
    /\ reboot' = FALSE
    /\ UNCHANGED <<source, responder, control, urged, asked>>

-----------------------------------------------------------------------------
(***************************************************************************)
(* wait_for_reboot()                                                       *)
(***************************************************************************)

\* policy_engine.reboot_allowed(options with source s): yes leaves the wait.
AskReboot(s) ==
    /\ asked' = s
    /\ pc' \in {"rebooting", "rebootWait"}

\* The first question. A no also computes the time of the next ping.
FirstAsk ==
    /\ pc = "askReboot"
    /\ AskReboot(source)
    /\ UNCHANGED <<source, responder, control, inner, urged>>

\* CHECK_REBOOT_ALLOWED_INTERVAL has passed: ask again.
AskAgain ==
    /\ pc = "rebootWait"
    /\ AskReboot(source)
    /\ UNCHANGED <<source, responder, control, inner, urged>>

PingTimerFires ==
    /\ pc = "rebootWait"
    /\ pc' = "pinging"
    /\ UNCHANGED <<source, responder, control, inner, urged, asked>>

\* Mutant: pings go on without a return to the select!.
PingDoneNever ==
    /\ pc = "pinging"
    /\ UNCHANGED vars

\* ping_omaha and update_next_update_time have run; requests waited meanwhile.
PingDone ==
    /\ pc = "pinging"
    /\ pc' = "rebootWait"
    /\ UNCHANGED <<source, responder, control, inner, urged, asked>>

\* Mutant: the policy is only asked again when the timer runs out.
RequestDuringRebootWaitUnasked ==
    /\ pc = "rebootWait"
    /\ queue # <<>>
    /\ LET h == Head(queue) IN
         /\ Reply(h, "AlreadyRunning")
         /\ source' = IF wanted[h] = "OnDemand" THEN "OnDemand" ELSE source
         /\ urged' = (urged \/ wanted[h] = "OnDemand")
    /\ UNCHANGED <<pc, responder, inner, asked>>

\* Mutant: only on-demand requests are taken.
RequestDuringRebootWaitOnDemand ==
    /\ pc = "rebootWait"
    /\ queue # <<>>
    /\ LET h == Head(queue) IN
         /\ wanted[h] = "OnDemand"
         /\ Reply(h, "AlreadyRunning")
         /\ source' = "OnDemand"
         /\ urged' = TRUE
         /\ AskReboot("OnDemand")
    /\ UNCHANGED <<responder, inner>>

RequestDuringRebootWait ==
    /\ pc = "rebootWait"
    /\ queue # <<>>
    /\ LET h == Head(queue) IN
         /\ Reply(h, "AlreadyRunning")
         /\ IF wanted[h] = "OnDemand"
              THEN /\ source' = "OnDemand"
                   /\ urged' = TRUE
                   /\ AskReboot("OnDemand")
              ELSE UNCHANGED <<source, urged, pc, asked>>
    /\ UNCHANGED <<responder, inner>>

\* perform_reboot returns an error, or returns although no reboot follows.
RebootFails ==
    /\ pc = "rebooting"
    /\ pc' = "rebootFailed"
    /\ UNCHANGED <<source, responder, control, inner, urged, asked>>

\* perform_reboot succeeds: the device restarts, and nothing of this process
\* remains, its clients neither.
SystemReboots ==
    /\ pc = "rebooting"
    /\ pc' = "ended"
    /\ O!End
    /\ queue' = <<>>
    /\ responder' = NoHandle
    /\ caller' = [h \in Handles |-> "idle"]
    /\ UNCHANGED <<source, wanted, answer, urged, asked>>

\* A new machine, with new handles.
Boot ==
    /\ pc = "ended"
    /\ pc' = "starting"
    /\ O!Boot
    /\ answer' = [h \in Handles |-> "None"]
    /\ urged' = FALSE
    /\ UNCHANGED <<source, responder, queue, wanted, caller, asked>>

-----------------------------------------------------------------------------

HandleRequest == TakeRequest \/ RequestDuringCheck \/ RequestDuringRebootWait

\* The steps that need neither a request nor a timer that must have run out.
Progress ==
    \/ Start \/ Schedule
    \/ CheckRefused \/ CheckAllowed \/ CheckStep
    \/ AnnounceReboot \/ GoIdle
    \/ FirstAsk \/ PingDone
    \/ RebootFails \/ SystemReboots

Timers == TimerFires \/ AskAgain \/ PingTimerFires

Client == \E h \in Handles : Abandon(h) \/ \E s \in Sources : Call(h, s)

Next == HandleRequest \/ Progress \/ Timers \/ Client \/ End \/ Boot

(***************************************************************************)
(* The stream is polled, the collaborators (policy, server, installer)     *)
(* return, and an armed timer fires: weak fairness of run()'s own steps.   *)
(* select! picks among the ready branches at random, so that a request     *)
(* cannot lose to a timer for ever: strong fairness of the request branch. *)
(* Nothing obliges a client to call, to give up, to drop the stream or to  *)
(* build a new one.                                                        *)
(***************************************************************************)
Fairness ==
    /\ WF_vars(Progress)
    /\ WF_vars(Timers)
    /\ SF_vars(HandleRequest)

Spec == Init /\ [][Next]_vars /\ Fairness

-----------------------------------------------------------------------------
(***************************************************************************)
(* Properties                                                              *)
(***************************************************************************)

\* No request is lost or answered twice: a call in flight is either in the
\* channel, once, or held by run() as the responder it still has to answer;
\* and the channel holds nothing else (run() moves responders in and out of
\* the channel at three select! points and may abort at any of them).
NoRequestLost ==
    /\ \A i, j \in 1..Len(queue) : queue[i] = queue[j] => i = j
    /\ \A i \in 1..Len(queue) : caller[queue[i]] # "idle" /\ queue[i] # responder
    /\ \A h \in Handles :
         /\ caller[h] = "calling" => h \in Elements(queue) \/ h = responder
         /\ caller[h] = "abandoned" => h \in Elements(queue)
    /\ responder # NoHandle => caller[responder] = "calling"

\* An on-demand request that was told Started or AlreadyRunning is never
\* forgotten: until the loop is back at its top, options.source is OnDemand,
\* whichever select! took the request and whatever came after it.
OnDemandHonoured ==
    urged /\ pc \in {"checking", "checked", "askReboot", "rebootWait", "pinging",
                     "rebooting", "rebootFailed"}
      => source = "OnDemand"

\* The device never waits for a reboot on a stale question: while it waits,
\* policy's last refusal was about the options as they are now, so that an
\* on-demand request that arrived during the check or during the wait has
\* been put to the policy.
RefusalIsCurrent ==
    pc \in {"rebootWait", "pinging"} => asked = source

\* What an observer was last told fits where the loop is: Idle whenever it is
\* between checks, WaitingForReboot during the whole wait, and a responder is
\* only held while the policy decides; so that no path through the loop
\* (refusal, failed reboot, early end) leaves an observer or a caller behind.
LoopCoherent ==
    /\ responder # NoHandle => pc = "deciding"
    /\ pc \in {"starting", "scheduling", "waiting", "deciding"}
         => observed = "Idle" /\ check = "none" /\ ~reboot
    /\ pc = "checking"
         => /\ check # "over" /\ ~reboot
            /\ check = "none" => observed = "Idle"
            /\ check = "running" => observed \notin {"Idle", "WaitingForReboot", "Ended"}
    /\ pc = "checked"
         => /\ check = "over"
            /\ observed \notin {"Idle", "WaitingForReboot", "Ended"}
            /\ reboot => observed = "InstallingUpdate"
    /\ pc \in {"askReboot", "rebootWait", "pinging", "rebooting", "rebootFailed"}
         => observed = "WaitingForReboot" /\ check = "over" /\ reboot
    /\ pc = "ended" <=> observed = "Ended"
    /\ pc = "ended" => check = "none" /\ ~reboot

\* Every StartUpdateCheck call whose caller waits is answered (or told that
\* the machine is gone), wherever the loop is when it arrives.
EveryCallAnswered ==
    \A h \in Handles : (caller[h] = "calling") ~> (caller[h] # "calling")

\* run() never gets stuck: it comes back to a select! that serves requests
\* and timers, unless it is gone.
KeepsServing == []<>(pc \in {"waiting", "rebootWait", "ended"})

\* The States the stream yields are those ObservedStates promises.
Observed == O!Spec
=============================================================================
