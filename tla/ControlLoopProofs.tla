------------------------- MODULE ControlLoopProofs -------------------------
(***************************************************************************)
(* ControlLoop's safety, for any set of handles: its types, that the loop  *)
(* and what it announces stay coherent, that no request is lost, that an   *)
(* on-demand request is honoured up to the reboot, and that the States it  *)
(* yields are those ObservedStates promises.                               *)
(***************************************************************************)
EXTENDS ControlLoop, TLAPS

\* The actions, to be expanded together.
USE DEF Sources, NoSource, Answers, Locations, O!State, O!ObservedState, O!CheckStatus

-----------------------------------------------------------------------------
(***************************************************************************)
(* Type correctness                                                        *)
(***************************************************************************)

\* The initial state of the loop and of its handles is well typed.
LEMMA InitTypeOK == Init => TypeOK
<1> SUFFICES ASSUME Init
             PROVE  TypeOK
  OBVIOUS
<1>1. /\ wanted \in [Handles -> Sources]
      /\ caller \in [Handles -> {"idle", "calling", "abandoned"}]
      /\ answer \in [Handles -> Answers]
  BY DEF Init
<1>2. reboot \in BOOLEAN /\ urged \in BOOLEAN
  BY Zenon DEF Init, O!Init
<1>3. queue \in Seq(Handles)
  BY DEF Init
<1> QED
  BY <1>1, <1>2, <1>3 DEF Init, TypeOK, O!Init

\* What a select! or a handle does to the channel keeps the types of channel
\* and handles: taking the first request and answering it.
LEMMA ReplyTyped ==
    ASSUME TypeOK, queue # <<>>, NEW a \in Answers, Reply(Head(queue), a)
    PROVE  /\ Head(queue) \in Handles
           /\ queue' \in Seq(Handles)
           /\ wanted' \in [Handles -> Sources]
           /\ caller' \in [Handles -> {"idle", "calling", "abandoned"}]
           /\ answer' \in [Handles -> Answers]
  BY DEF TypeOK, Reply

\* No step of run(), of wait_for_reboot() or of a handle leaves the types.
LEMMA NextTypeOK == TypeOK /\ [Next]_vars => TypeOK'
<1> SUFFICES ASSUME TypeOK, [Next]_vars
             PROVE  TypeOK'
  OBVIOUS
<1>1. ASSUME NEW h \in Handles, NEW s \in Sources, Call(h, s)
      PROVE  TypeOK'
  <2>1. /\ queue' \in Seq(Handles)
        /\ wanted' \in [Handles -> Sources]
        /\ caller' \in [Handles -> {"idle", "calling", "abandoned"}]
        /\ answer' \in [Handles -> Answers]
    <3>1. CASE pc = "ended"
      BY <1>1, <3>1 DEF Call, TypeOK
    <3>2. CASE pc # "ended"
      <4>1. queue' \in Seq(Handles)
        BY <1>1, <3>2 DEF Call, TypeOK
      <4> QED
        BY <1>1, <3>2, <4>1 DEF Call, TypeOK
    <3> QED
      BY <3>1, <3>2
  <2> QED
    BY <1>1, <2>1 DEF Call, TypeOK, inner
<1>2. ASSUME NEW h \in Handles, Abandon(h)
      PROVE  TypeOK'
  BY <1>2 DEF Abandon, TypeOK, inner
<1>3. CASE Start
  BY <1>3 DEF Start, TypeOK, control, inner
<1>4. CASE End
  <2>1. caller' \in [Handles -> {"idle", "calling", "abandoned"}]
    BY <1>4 DEF End
  <2>2. answer' \in [Handles -> Answers]
    BY <1>4 DEF End, TypeOK
  <2>3. queue' \in Seq(Handles)
    BY <1>4 DEF End
  <2>4. reboot' \in BOOLEAN
    BY <1>4, Zenon DEF End, O!End
  <2> QED
    BY <1>4, <2>1, <2>2, <2>3, <2>4 DEF End, TypeOK, O!End
<1>5. CASE Schedule
  BY <1>5 DEF Schedule, TypeOK, control, inner
<1>6. CASE TimerFires
  BY <1>6 DEF TimerFires, TypeOK, control, inner
<1>7. CASE TakeRequest
  <2>1. Head(queue) \in Handles /\ queue' \in Seq(Handles)
    BY <1>7 DEF TakeRequest, TypeOK
  <2> QED
    BY <1>7, <2>1 DEF TakeRequest, TypeOK, inner
<1>8. CASE CheckRefused
  BY <1>8 DEF CheckRefused, AnswerResponder, TypeOK, inner
<1>9. CASE CheckAllowed
  BY <1>9 DEF CheckAllowed, AnswerResponder, TypeOK, inner
<1>10. CASE CheckStep
  <2>1. CASE O!Begin
    BY <1>10, <2>1 DEF CheckStep, TypeOK, control, O!Begin
  <2>2. CASE O!Announce
    BY <1>10, <2>2 DEF CheckStep, TypeOK, control, O!Announce, O!Successors
  <2>3. CASE O!Finish
    BY <1>10, <2>3 DEF CheckStep, TypeOK, control, O!Finish
  <2> QED
    BY <1>10, <2>1, <2>2, <2>3 DEF CheckStep
<1>11. CASE RequestDuringCheck
  BY <1>11, ReplyTyped DEF RequestDuringCheck, TypeOK, inner
<1>12. CASE AnnounceReboot
  BY <1>12 DEF AnnounceReboot, TypeOK, control
<1>13. CASE GoIdle
  BY <1>13 DEF GoIdle, TypeOK, control
<1>14. CASE FirstAsk
  BY <1>14 DEF FirstAsk, AskReboot, TypeOK, control, inner
<1>15. CASE AskAgain
  BY <1>15 DEF AskAgain, AskReboot, TypeOK, control, inner
<1>16. CASE PingTimerFires
  BY <1>16 DEF PingTimerFires, TypeOK, control, inner
<1>17. CASE PingDone
  BY <1>17 DEF PingDone, TypeOK, control, inner
<1>18. CASE RequestDuringRebootWait
  <2>1. /\ Head(queue) \in Handles
        /\ queue' \in Seq(Handles)
        /\ wanted' \in [Handles -> Sources]
        /\ caller' \in [Handles -> {"idle", "calling", "abandoned"}]
        /\ answer' \in [Handles -> Answers]
    BY <1>18, ReplyTyped DEF RequestDuringRebootWait
  <2>2. CASE wanted[Head(queue)] = "OnDemand"
    <3>1. urged' \in BOOLEAN
      BY <1>18, <2>2, Zenon DEF RequestDuringRebootWait
    <3> QED
      BY <1>18, <2>1, <2>2, <3>1 DEF RequestDuringRebootWait, AskReboot, TypeOK, inner
  <2>3. CASE wanted[Head(queue)] # "OnDemand"
    BY <1>18, <2>1, <2>3 DEF RequestDuringRebootWait, TypeOK, inner
  <2> QED
    BY <2>2, <2>3
<1>19. CASE RebootFails
  BY <1>19 DEF RebootFails, TypeOK, control, inner
<1>20. CASE SystemReboots
  <2>1. caller' \in [Handles -> {"idle", "calling", "abandoned"}]
    BY <1>20 DEF SystemReboots
  <2>2. reboot' \in BOOLEAN
    BY <1>20, Zenon DEF SystemReboots, O!End
  <2>3. queue' \in Seq(Handles)
    BY <1>20 DEF SystemReboots
  <2> QED
    BY <1>20, <2>1, <2>2, <2>3 DEF SystemReboots, TypeOK, O!End
<1>21. CASE Boot
  <2>1. answer' \in [Handles -> Answers]
    BY <1>21 DEF Boot
  <2>2. urged' \in BOOLEAN
    BY <1>21, Zenon DEF Boot
  <2> QED
    BY <1>21, <2>1, <2>2 DEF Boot, TypeOK, O!Boot
<1>22. CASE UNCHANGED vars
  BY <1>22 DEF vars, TypeOK, control, inner
<1> QED
  BY <1>1, <1>2, <1>3, <1>4, <1>5, <1>6, <1>7, <1>8, <1>9, <1>10, <1>11, <1>12,
     <1>13, <1>14, <1>15, <1>16, <1>17, <1>18, <1>19, <1>20, <1>21, <1>22
     DEF Next, HandleRequest, Progress, Timers, Client

\* Every reachable state of the control loop is well typed.
THEOREM TypeCorrect == Spec => []TypeOK
  BY InitTypeOK, NextTypeOK, PTL DEF Spec

-----------------------------------------------------------------------------
(***************************************************************************)
(* Coherence of the loop with what it has announced                        *)
(***************************************************************************)

\* The loop starts coherent: Idle, between checks, nobody to answer.
LEMMA InitCoherent == Init => LoopCoherent
  BY DEF Init, LoopCoherent, O!Init

\* Every step of the loop keeps what was announced in line with where it is.
LEMMA NextCoherent == TypeOK /\ LoopCoherent /\ [Next]_vars => LoopCoherent'
<1> SUFFICES ASSUME TypeOK, LoopCoherent, [Next]_vars
             PROVE  LoopCoherent'
  OBVIOUS
<1>1. ASSUME NEW h \in Handles, NEW s \in Sources, Call(h, s)
      PROVE  LoopCoherent'
  BY <1>1 DEF Call, LoopCoherent, TypeOK, control, inner
<1>2. ASSUME NEW h \in Handles, Abandon(h)
      PROVE  LoopCoherent'
  BY <1>2 DEF Abandon, LoopCoherent, TypeOK, control, inner
<1>3. CASE Start
  BY <1>3 DEF Start, LoopCoherent, TypeOK, control, inner
<1>4. CASE Schedule
  BY <1>4 DEF Schedule, LoopCoherent, TypeOK, control, inner
<1>5. CASE TimerFires
  BY <1>5 DEF TimerFires, LoopCoherent, TypeOK, control, inner
<1>6. CASE TakeRequest
  BY <1>6 DEF TakeRequest, LoopCoherent, TypeOK, control, inner
<1>7. CASE CheckRefused
  BY <1>7 DEF CheckRefused, AnswerResponder, LoopCoherent, TypeOK, control, inner
<1>8. CASE CheckAllowed
  BY <1>8 DEF CheckAllowed, AnswerResponder, LoopCoherent, TypeOK, control, inner
<1>9. CASE CheckStep
  <2>1. CASE O!Begin
    BY <1>9, <2>1 DEF CheckStep, O!Begin, LoopCoherent, control
  <2>2. CASE O!Announce
    BY <1>9, <2>2 DEF CheckStep, O!Announce, O!Successors, LoopCoherent, TypeOK, control
  <2>3. CASE O!Finish
    <3>1. /\ pc' = "checked" /\ check' = "over" /\ observed' = observed
          /\ responder' = responder /\ pc = "checking" /\ check = "running"
      BY <1>9, <2>3 DEF CheckStep, O!Finish, control
    <3>2. reboot' => observed = "InstallingUpdate"
      BY <2>3 DEF O!Finish
    <3> QED
      BY <3>1, <3>2 DEF LoopCoherent
  <2> QED
    BY <1>9, <2>1, <2>2, <2>3 DEF CheckStep
<1>10. CASE RequestDuringCheck
  BY <1>10 DEF RequestDuringCheck, Reply, LoopCoherent, TypeOK, control, inner
<1>11. CASE AnnounceReboot
  BY <1>11 DEF AnnounceReboot, LoopCoherent, TypeOK, control, inner
<1>12. CASE GoIdle
  BY <1>12 DEF GoIdle, LoopCoherent, TypeOK, control, inner
<1>13. CASE FirstAsk
  BY <1>13 DEF FirstAsk, AskReboot, LoopCoherent, TypeOK, control, inner
<1>14. CASE AskAgain
  BY <1>14 DEF AskAgain, AskReboot, LoopCoherent, TypeOK, control, inner
<1>15. CASE PingTimerFires
  BY <1>15 DEF PingTimerFires, LoopCoherent, TypeOK, control, inner
<1>16. CASE PingDone
  BY <1>16 DEF PingDone, LoopCoherent, TypeOK, control, inner
<1>17. CASE RequestDuringRebootWait
  BY <1>17 DEF RequestDuringRebootWait, Reply, AskReboot, LoopCoherent, TypeOK, control, inner
<1>18. CASE RebootFails
  BY <1>18 DEF RebootFails, LoopCoherent, TypeOK, control, inner
<1>19. CASE SystemReboots
  BY <1>19 DEF SystemReboots, O!End, LoopCoherent, TypeOK, control, inner
<1>20. CASE End
  BY <1>20 DEF End, O!End, LoopCoherent, TypeOK, control, inner
<1>21. CASE Boot
  BY <1>21 DEF Boot, O!Boot, LoopCoherent, TypeOK
<1>22. CASE UNCHANGED vars
  BY <1>22 DEF vars, LoopCoherent, TypeOK, control, inner
<1> QED
  BY <1>1, <1>2, <1>3, <1>4, <1>5, <1>6, <1>7, <1>8, <1>9, <1>10, <1>11,
     <1>12, <1>13, <1>14, <1>15, <1>16, <1>17, <1>18, <1>19, <1>20, <1>21, <1>22
     DEF Next, HandleRequest, Progress, Timers, Client

\* In every reachable state of run() the last State yielded, the update check
\* and the responder held fit the place the loop is at.
THEOREM Coherence == Spec => []LoopCoherent
  BY InitCoherent, NextCoherent, TypeCorrect, PTL DEF Spec

-----------------------------------------------------------------------------
(***************************************************************************)
(* Requests                                                                *)
(***************************************************************************)

\* An on-demand request once accepted keeps options.source OnDemand, in every
\* select! of run() and wait_for_reboot().
LEMMA NextHonoured == TypeOK /\ OnDemandHonoured /\ [Next]_vars => OnDemandHonoured'
<1> SUFFICES ASSUME TypeOK, OnDemandHonoured, [Next]_vars
             PROVE  OnDemandHonoured'
  OBVIOUS
<1>1. ASSUME NEW h \in Handles, NEW s \in Sources, Call(h, s)
      PROVE  OnDemandHonoured'
  BY <1>1 DEF Call, OnDemandHonoured, TypeOK, control, inner
<1>2. ASSUME NEW h \in Handles, Abandon(h)
      PROVE  OnDemandHonoured'
  BY <1>2 DEF Abandon, OnDemandHonoured, TypeOK, control, inner
<1>3. CASE Start
  BY <1>3 DEF Start, OnDemandHonoured, TypeOK, control, inner
<1>4. CASE Schedule
  BY <1>4 DEF Schedule, OnDemandHonoured, TypeOK, control, inner
<1>5. CASE TimerFires
  BY <1>5 DEF TimerFires, OnDemandHonoured, TypeOK, control, inner
<1>6. CASE TakeRequest
  BY <1>6 DEF TakeRequest, OnDemandHonoured, TypeOK, control, inner
<1>7. CASE CheckRefused
  BY <1>7 DEF CheckRefused, AnswerResponder, OnDemandHonoured, TypeOK, control, inner
<1>8. CASE CheckAllowed
  BY <1>8 DEF CheckAllowed, AnswerResponder, OnDemandHonoured, TypeOK, control, inner
<1>9. CASE CheckStep
  BY <1>9 DEF CheckStep, O!Begin, O!Announce, O!Finish, O!Successors, OnDemandHonoured, TypeOK, control, inner
<1>10. CASE RequestDuringCheck
  BY <1>10 DEF RequestDuringCheck, Reply, OnDemandHonoured, TypeOK, control, inner
<1>11. CASE AnnounceReboot
  BY <1>11 DEF AnnounceReboot, OnDemandHonoured, TypeOK, control, inner
<1>12. CASE GoIdle
  BY <1>12 DEF GoIdle, OnDemandHonoured, TypeOK, control, inner
<1>13. CASE FirstAsk
  BY <1>13 DEF FirstAsk, AskReboot, OnDemandHonoured, TypeOK, control, inner
<1>14. CASE AskAgain
  BY <1>14 DEF AskAgain, AskReboot, OnDemandHonoured, TypeOK, control, inner
<1>15. CASE PingTimerFires
  BY <1>15 DEF PingTimerFires, OnDemandHonoured, TypeOK, control, inner
<1>16. CASE PingDone
  BY <1>16 DEF PingDone, OnDemandHonoured, TypeOK, control, inner
<1>17. CASE RequestDuringRebootWait
  BY <1>17 DEF RequestDuringRebootWait, Reply, AskReboot, OnDemandHonoured, TypeOK, control, inner
<1>18. CASE RebootFails
  BY <1>18 DEF RebootFails, OnDemandHonoured, TypeOK, control, inner
<1>19. CASE SystemReboots
  BY <1>19 DEF SystemReboots, O!End, OnDemandHonoured, TypeOK, control, inner
<1>20. CASE End
  BY <1>20 DEF End, O!End, OnDemandHonoured, TypeOK, control, inner
<1>21. CASE Boot
  BY <1>21 DEF Boot, O!Boot, OnDemandHonoured, TypeOK
<1>22. CASE UNCHANGED vars
  BY <1>22 DEF vars, OnDemandHonoured, TypeOK, control, inner
<1> QED
  BY <1>1, <1>2, <1>3, <1>4, <1>5, <1>6, <1>7, <1>8, <1>9, <1>10, <1>11,
     <1>12, <1>13, <1>14, <1>15, <1>16, <1>17, <1>18, <1>19, <1>20, <1>21, <1>22
     DEF Next, HandleRequest, Progress, Timers, Client

\* An on-demand request that was told Started or AlreadyRunning reaches the
\* reboot decision, whatever happened in between.
THEOREM OnDemandIsHonoured == Spec => []OnDemandHonoured
<1>1. Init => OnDemandHonoured
  BY DEF Init, OnDemandHonoured
<1> QED
  BY <1>1, NextHonoured, TypeCorrect, PTL DEF Spec

\* The policy has always been asked about the options as they are before
\* wait_for_reboot goes on waiting.
LEMMA NextRefusal == TypeOK /\ RefusalIsCurrent /\ [Next]_vars => RefusalIsCurrent'
<1> SUFFICES ASSUME TypeOK, RefusalIsCurrent, [Next]_vars
             PROVE  RefusalIsCurrent'
  OBVIOUS
<1>1. ASSUME NEW h \in Handles, NEW s \in Sources, Call(h, s)
      PROVE  RefusalIsCurrent'
  BY <1>1 DEF Call, RefusalIsCurrent, TypeOK, control, inner
<1>2. ASSUME NEW h \in Handles, Abandon(h)
      PROVE  RefusalIsCurrent'
  BY <1>2 DEF Abandon, RefusalIsCurrent, TypeOK, control, inner
<1>3. CASE Start
  BY <1>3 DEF Start, RefusalIsCurrent, TypeOK, control, inner
<1>4. CASE Schedule
  BY <1>4 DEF Schedule, RefusalIsCurrent, TypeOK, control, inner
<1>5. CASE TimerFires
  BY <1>5 DEF TimerFires, RefusalIsCurrent, TypeOK, control, inner
<1>6. CASE TakeRequest
  BY <1>6 DEF TakeRequest, RefusalIsCurrent, TypeOK, control, inner
<1>7. CASE CheckRefused
  BY <1>7 DEF CheckRefused, AnswerResponder, RefusalIsCurrent, TypeOK, control, inner
<1>8. CASE CheckAllowed
  BY <1>8 DEF CheckAllowed, AnswerResponder, RefusalIsCurrent, TypeOK, control, inner
<1>9. CASE CheckStep
  BY <1>9 DEF CheckStep, O!Begin, O!Announce, O!Finish, O!Successors, RefusalIsCurrent, TypeOK, control, inner
<1>10. CASE RequestDuringCheck
  BY <1>10 DEF RequestDuringCheck, Reply, RefusalIsCurrent, TypeOK, control, inner
<1>11. CASE AnnounceReboot
  BY <1>11 DEF AnnounceReboot, RefusalIsCurrent, TypeOK, control, inner
<1>12. CASE GoIdle
  BY <1>12 DEF GoIdle, RefusalIsCurrent, TypeOK, control, inner
<1>13. CASE FirstAsk
  BY <1>13 DEF FirstAsk, AskReboot, RefusalIsCurrent, TypeOK, control, inner
<1>14. CASE AskAgain
  BY <1>14 DEF AskAgain, AskReboot, RefusalIsCurrent, TypeOK, control, inner
<1>15. CASE PingTimerFires
  BY <1>15 DEF PingTimerFires, RefusalIsCurrent, TypeOK, control, inner
<1>16. CASE PingDone
  BY <1>16 DEF PingDone, RefusalIsCurrent, TypeOK, control, inner
<1>17. CASE RequestDuringRebootWait
  BY <1>17 DEF RequestDuringRebootWait, Reply, AskReboot, RefusalIsCurrent, TypeOK, control, inner
<1>18. CASE RebootFails
  BY <1>18 DEF RebootFails, RefusalIsCurrent, TypeOK, control, inner
<1>19. CASE SystemReboots
  BY <1>19 DEF SystemReboots, O!End, RefusalIsCurrent, TypeOK, control, inner
<1>20. CASE End
  BY <1>20 DEF End, O!End, RefusalIsCurrent, TypeOK, control, inner
<1>21. CASE Boot
  BY <1>21 DEF Boot, O!Boot, RefusalIsCurrent, TypeOK
<1>22. CASE UNCHANGED vars
  BY <1>22 DEF vars, RefusalIsCurrent, TypeOK, control, inner
<1> QED
  BY <1>1, <1>2, <1>3, <1>4, <1>5, <1>6, <1>7, <1>8, <1>9, <1>10, <1>11,
     <1>12, <1>13, <1>14, <1>15, <1>16, <1>17, <1>18, <1>19, <1>20, <1>21, <1>22
     DEF Next, HandleRequest, Progress, Timers, Client

\* The machine never waits for a reboot on a refusal that is out of date.
THEOREM RefusalStaysCurrent == Spec => []RefusalIsCurrent
<1>1. Init => RefusalIsCurrent
  BY DEF Init, RefusalIsCurrent
<1> QED
  BY <1>1, NextRefusal, TypeCorrect, PTL DEF Spec

\* Taking the first request out of the channel: the others stay, once each.
LEMMA Dequeue ==
    ASSUME TypeOK, NoRequestLost, queue # <<>>, queue' = Tail(queue)
    PROVE  /\ Head(queue) = queue[1] /\ Head(queue) \in Handles
           /\ caller[Head(queue)] # "idle" /\ Head(queue) # responder
           /\ \A i, j \in 1..Len(queue') : queue'[i] = queue'[j] => i = j
           /\ \A i \in 1..Len(queue') :
                /\ queue'[i] \in Handles /\ queue'[i] # Head(queue)
                /\ queue'[i] # responder /\ caller[queue'[i]] # "idle"
           /\ \A h \in Handles :
                h \in Elements(queue) /\ h # Head(queue) => h \in Elements(queue')
<1>1. /\ Head(queue) = queue[1] /\ 1 \in 1..Len(queue) /\ Len(queue) \in Nat
      /\ Len(queue') = Len(queue) - 1
      /\ \A i \in 1..Len(queue') : i + 1 \in 1..Len(queue) /\ queue'[i] = queue[i + 1]
  BY DEF TypeOK
<1>2. \A i \in 1..Len(queue) : queue[i] \in Handles
  BY DEF TypeOK
<1>3. \A i, j \in 1..Len(queue') : queue'[i] = queue'[j] => i = j
  BY <1>1 DEF NoRequestLost
<1>4. \A i \in 1..Len(queue') :
        /\ queue'[i] \in Handles /\ queue'[i] # Head(queue)
        /\ queue'[i] # responder /\ caller[queue'[i]] # "idle"
  BY <1>1, <1>2 DEF NoRequestLost
<1>5. ASSUME NEW h \in Handles, h \in Elements(queue), h # Head(queue)
      PROVE  h \in Elements(queue')
  <2>1. PICK i \in 1..Len(queue) : h = queue[i]
    BY <1>5 DEF Elements
  <2>2. i - 1 \in 1..Len(queue') /\ queue'[i - 1] = h
    BY <1>1, <1>5, <2>1
  <2> QED
    BY <2>2 DEF Elements
<1> QED
  BY <1>1, <1>2, <1>3, <1>4, <1>5 DEF NoRequestLost

\* A request that is taken and answered at once leaves the calls accounted for.
LEMMA ReplyKeepsRequests ==
    ASSUME TypeOK, NoRequestLost, queue # <<>>, NEW a \in Answers,
           Reply(Head(queue), a), responder' = responder
    PROVE  NoRequestLost'
<1>1. /\ queue' = Tail(queue)
      /\ caller' = [caller EXCEPT ![Head(queue)] = "idle"]
  BY DEF Reply
<1>2. /\ Head(queue) \in Handles /\ Head(queue) # responder
      /\ \A i, j \in 1..Len(queue') : queue'[i] = queue'[j] => i = j
      /\ \A i \in 1..Len(queue') :
           /\ queue'[i] \in Handles /\ queue'[i] # Head(queue)
           /\ queue'[i] # responder /\ caller[queue'[i]] # "idle"
      /\ \A h \in Handles :
           h \in Elements(queue) /\ h # Head(queue) => h \in Elements(queue')
  BY <1>1, Dequeue
<1>3. \A h \in Handles : h # Head(queue) => caller'[h] = caller[h]
  BY <1>1 DEF TypeOK
<1>4. caller'[Head(queue)] = "idle"
  BY <1>1, <1>2 DEF TypeOK
<1>5. \A i \in 1..Len(queue') : caller'[queue'[i]] # "idle" /\ queue'[i] # responder'
  BY <1>2, <1>3
<1>6. \A h \in Handles :
        /\ caller'[h] = "calling" => h \in Elements(queue') \/ h = responder'
        /\ caller'[h] = "abandoned" => h \in Elements(queue')
  BY <1>2, <1>3, <1>4 DEF NoRequestLost
<1>7. responder' # NoHandle => caller'[responder'] = "calling"
  BY <1>2, <1>3 DEF NoRequestLost, TypeOK
<1> QED
  BY <1>2, <1>5, <1>6, <1>7 DEF NoRequestLost, Elements

\* Every step keeps each call in flight in exactly one place: the channel or
\* run()'s responder.
LEMMA NextRequests ==
    TypeOK /\ LoopCoherent /\ NoRequestLost /\ [Next]_vars => NoRequestLost'
<1> SUFFICES ASSUME TypeOK, LoopCoherent, NoRequestLost, [Next]_vars
             PROVE  NoRequestLost'
  OBVIOUS
<1>q. \A i \in 1..Len(queue) : queue[i] \in Handles
  BY DEF TypeOK
<1>0. ASSUME UNCHANGED <<queue, caller, responder>>
      PROVE  NoRequestLost'
  BY <1>0 DEF NoRequestLost, Elements
<1>1. ASSUME NEW h \in Handles, NEW s \in Sources, Call(h, s)
      PROVE  NoRequestLost'
  <2>1. CASE pc = "ended"
    BY <1>0, <1>1, <2>1 DEF Call
  <2>2. CASE pc # "ended"
    <3>1. /\ queue' = Append(queue, h) /\ responder' = responder
          /\ caller' = [caller EXCEPT ![h] = "calling"] /\ caller[h] = "idle"
      BY <1>1, <2>2 DEF Call
    <3>2. /\ Len(queue) \in Nat /\ Len(queue') = Len(queue) + 1
          /\ \A i \in 1..Len(queue) : queue'[i] = queue[i]
          /\ queue'[Len(queue) + 1] = h
      BY <3>1 DEF TypeOK
    <3>3. \A i \in 1..Len(queue) : queue[i] # h
      BY <3>1 DEF NoRequestLost
    <3>4. responder # h
      BY <3>1, NoHandleAssumption DEF NoRequestLost
    <3>5. \A x \in Handles : caller'[x] = IF x = h THEN "calling" ELSE caller[x]
      BY <3>1 DEF TypeOK
    <3>6. \A i, j \in 1..Len(queue') : queue'[i] = queue'[j] => i = j
      BY <3>2, <3>3 DEF NoRequestLost
    <3>7. \A i \in 1..Len(queue') : caller'[queue'[i]] # "idle" /\ queue'[i] # responder'
      BY <1>q, <3>1, <3>2, <3>3, <3>4, <3>5 DEF NoRequestLost
    <3>8. h \in Elements(queue') /\ \A x \in Elements(queue) : x \in Elements(queue')
      BY <3>2 DEF Elements
    <3>9. \A x \in Handles :
            /\ caller'[x] = "calling" => x \in Elements(queue') \/ x = responder'
            /\ caller'[x] = "abandoned" => x \in Elements(queue')
      BY <3>1, <3>5, <3>8 DEF NoRequestLost
    <3>10. responder' # NoHandle => caller'[responder'] = "calling"
      BY <3>1, <3>5 DEF NoRequestLost, TypeOK
    <3> QED
      BY <3>6, <3>7, <3>9, <3>10 DEF NoRequestLost, Elements
  <2> QED
    BY <2>1, <2>2
<1>2. ASSUME NEW h \in Handles, Abandon(h)
      PROVE  NoRequestLost'
  <2>1. queue' = queue /\ Elements(queue)' = Elements(queue)
    BY <1>2 DEF Abandon, Elements
  <2>2. CASE responder = h
    <3>1. responder' = NoHandle /\ caller' = [caller EXCEPT ![h] = "idle"]
      BY <1>2, <2>2 DEF Abandon
    <3>2. \A x \in Handles : caller'[x] = IF x = h THEN "idle" ELSE caller[x]
      BY <3>1 DEF TypeOK
    <3> QED
      BY <1>q, <2>1, <2>2, <3>1, <3>2, NoHandleAssumption DEF NoRequestLost
  <2>3. CASE responder # h
    <3>1. responder' = responder /\ caller' = [caller EXCEPT ![h] = "abandoned"]
      BY <1>2, <2>3 DEF Abandon
    <3>2. \A x \in Handles : caller'[x] = IF x = h THEN "abandoned" ELSE caller[x]
      BY <3>1 DEF TypeOK
    <3>3. h \in Elements(queue)
      BY <1>2, <2>3 DEF NoRequestLost, Abandon
    <3>4. responder' # NoHandle => caller'[responder'] = "calling"
      BY <2>3, <3>1, <3>2 DEF NoRequestLost, TypeOK
    <3> QED
      BY <1>q, <2>1, <3>1, <3>2, <3>3, <3>4 DEF NoRequestLost
  <2> QED
    BY <2>2, <2>3
<1>3. CASE TakeRequest
  <2> DEFINE h == Head(queue)
  <2>1. /\ queue # <<>> /\ queue' = Tail(queue) /\ pc = "waiting"
        /\ responder' = IF caller[h] = "calling" THEN h ELSE NoHandle
        /\ caller' = IF caller[h] = "calling" THEN caller ELSE [caller EXCEPT ![h] = "idle"]
    BY <1>3 DEF TakeRequest
  <2>2. responder = NoHandle
    BY <2>1 DEF LoopCoherent
  <2>3. /\ h \in Handles /\ caller[h] # "idle"
        /\ \A i, j \in 1..Len(queue') : queue'[i] = queue'[j] => i = j
        /\ \A i \in 1..Len(queue') :
             queue'[i] \in Handles /\ queue'[i] # h /\ caller[queue'[i]] # "idle"
        /\ \A x \in Handles : x \in Elements(queue) /\ x # h => x \in Elements(queue')
    BY <2>1, Dequeue
  <2>4. \A x \in Handles : x # h => caller'[x] = caller[x]
    BY <2>1, <2>3 DEF TypeOK
  <2>5. caller'[h] = IF caller[h] = "calling" THEN "calling" ELSE "idle"
    BY <2>1, <2>3 DEF TypeOK
  <2>6. \A i \in 1..Len(queue') : caller'[queue'[i]] # "idle" /\ queue'[i] # responder'
    BY <2>1, <2>3, <2>4, NoHandleAssumption
  <2>7. \A x \in Handles :
          /\ caller'[x] = "calling" => x \in Elements(queue') \/ x = responder'
          /\ caller'[x] = "abandoned" => x \in Elements(queue')
    BY <2>1, <2>2, <2>3, <2>4, <2>5, NoHandleAssumption DEF NoRequestLost
  <2>8. responder' # NoHandle => caller'[responder'] = "calling"
    BY <2>1, <2>5
  <2> QED
    BY <2>3, <2>6, <2>7, <2>8 DEF NoRequestLost, Elements
<1>4. ASSUME NEW a \in Answers, AnswerResponder(a)
      PROVE  NoRequestLost'
  <2>1. CASE responder = NoHandle
    BY <1>0, <1>4, <2>1 DEF AnswerResponder
  <2>2. CASE responder # NoHandle
    <3>1. /\ queue' = queue /\ Elements(queue)' = Elements(queue) /\ responder' = NoHandle
          /\ caller' = [caller EXCEPT ![responder] = "idle"]
      BY <1>4, <2>2 DEF AnswerResponder, Elements
    <3>2. \A x \in Handles : caller'[x] = IF x = responder THEN "idle" ELSE caller[x]
      BY <3>1 DEF TypeOK
    <3> QED
      BY <1>q, <3>1, <3>2, NoHandleAssumption DEF NoRequestLost
  <2> QED
    BY <2>1, <2>2
<1>5. CASE CheckRefused \/ CheckAllowed
  BY <1>4, <1>5 DEF CheckRefused, CheckAllowed
<1>6. CASE RequestDuringCheck \/ RequestDuringRebootWait
  BY <1>6, ReplyKeepsRequests DEF RequestDuringCheck, RequestDuringRebootWait
<1>7. CASE End \/ SystemReboots
  <2>1. /\ queue' = <<>> /\ responder' = NoHandle
        /\ caller' = [x \in Handles |-> "idle"]
    BY <1>7 DEF End, SystemReboots
  <2> QED
    BY <2>1 DEF NoRequestLost
<1>8. CASE Start \/ Schedule \/ TimerFires \/ CheckStep \/ Boot
  BY <1>0, <1>8 DEF Start, Schedule, TimerFires, CheckStep, Boot, control
<1>9. CASE AnnounceReboot \/ GoIdle \/ RebootFails
  BY <1>0, <1>9 DEF AnnounceReboot, GoIdle, RebootFails, control
<1>10. CASE FirstAsk \/ AskAgain \/ PingTimerFires \/ PingDone
  BY <1>0, <1>10 DEF FirstAsk, AskAgain, PingTimerFires, PingDone, control
<1>11. CASE UNCHANGED vars
  BY <1>0, <1>11 DEF vars, control
<1> QED
  BY <1>1, <1>2, <1>3, <1>5, <1>6, <1>7, <1>8, <1>9, <1>10, <1>11
     DEF Next, HandleRequest, Progress, Timers, Client

\* No call of a ControlHandle is lost or answered twice, for any number of
\* handles, wherever run() is when it arrives and whoever gives up on it.
THEOREM RequestsKept == Spec => []NoRequestLost
<1>1. Init => NoRequestLost
  BY DEF Init, NoRequestLost
<1> QED
  BY <1>1, NextRequests, TypeCorrect, Coherence, PTL DEF Spec

-----------------------------------------------------------------------------
(***************************************************************************)
(* Refinement                                                              *)
(***************************************************************************)

\* Every step of the loop is a step of ObservedStates or leaves what an
\* observer sees as it was.
LEMMA NextObserved == LoopCoherent /\ [Next]_vars => [O!Next]_(O!vars)
<1> SUFFICES ASSUME LoopCoherent, [Next]_vars
             PROVE  [O!Next]_(O!vars)
  OBVIOUS
<1>0. ASSUME UNCHANGED inner
      PROVE  UNCHANGED O!vars
  BY <1>0 DEF inner, O!vars
<1>1. CASE CheckStep
  BY <1>1 DEF CheckStep, O!Next
<1>2. CASE AnnounceReboot
  <2>1. O!AwaitReboot
    BY <1>2 DEF AnnounceReboot, LoopCoherent, O!AwaitReboot
  <2> QED
    BY <2>1 DEF O!Next
<1>3. CASE GoIdle
  <2>1. check = "over" /\ (reboot => observed = "WaitingForReboot")
    BY <1>3 DEF GoIdle, LoopCoherent
  <2>2. O!Rest
    BY <1>3, <2>1, Zenon DEF GoIdle, O!Rest
  <2> QED
    BY <2>2 DEF O!Next
<1>4. CASE End
  BY <1>4 DEF End, O!Next
<1>5. CASE SystemReboots \/ Boot
  BY <1>5 DEF SystemReboots, Boot, O!Next
<1>6. CASE Client
  BY <1>0, <1>6 DEF Client, Call, Abandon
<1>7. CASE HandleRequest
  BY <1>0, <1>7 DEF HandleRequest, TakeRequest, RequestDuringCheck, RequestDuringRebootWait
<1>8. CASE Start \/ Schedule \/ CheckRefused \/ CheckAllowed
  BY <1>0, <1>8 DEF Start, Schedule, CheckRefused, CheckAllowed
<1>9. CASE FirstAsk \/ PingDone \/ RebootFails \/ Timers
  BY <1>0, <1>9 DEF FirstAsk, PingDone, RebootFails, Timers, TimerFires, AskAgain,
                    PingTimerFires
<1>10. CASE UNCHANGED vars
  BY <1>0, <1>10 DEF vars
<1> QED
  BY <1>1, <1>2, <1>3, <1>4, <1>5, <1>6, <1>7, <1>8, <1>9, <1>10 DEF Next, Progress

\* run() and wait_for_reboot() implement ObservedStates, its liveness apart:
\* the States of the stream follow each other only as it allows.
THEOREM ImplementsObservedStates == Spec => O!Safety
<1>1. Init => O!Init
  BY DEF Init
<1> QED
  BY <1>1, NextObserved, Coherence, PTL DEF Spec, O!Safety
=============================================================================
