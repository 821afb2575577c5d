------------------------------ MODULE Schedule ------------------------------
(***************************************************************************)
(* When the state machine checks for updates, asks again for a reboot and  *)
(* pings: the times that the policy engine computes, the timers that the   *)
(* machine sets for them, the last_update_time that it keeps in storage,   *)
(* and the interval between checks that it reports.                        *)
(*                                                                         *)
(* ControlLoop lets an armed timer fire at any step; here time passes. The *)
(* wall clock may be set at any moment, also while a timer runs, and the   *)
(* monotonic clock starts anew with every boot. Time does not pass by a    *)
(* timer that has run out while the machine waits for it.                  *)
(***************************************************************************)
EXTENDS ComplexTime

CONSTANTS
    Builds,         \* what embedders build the machine with: kinds of policy
                    \* (ComputeNextUpdateTime), timer (UntilOver) and storage
                    \* (Succeeds)
    Delay,          \* UPDATE_DELAY_SECS, or the interval of an embedder's policy
    MinWait,        \* the minimum_wait of a policy that has one
    CHECK_REBOOT_ALLOWED_INTERVAL,
    Step,           \* how far time goes in one step
    Offsets,        \* how wrong the wall clock may be
    MaxTime         \* bound on real time

ASSUME ScheduleAssumption ==
    /\ Builds \subseteq {"stub", "minimal", "mock", "interval"} \X
                         {"exact", "minimal"} \X {"stub", "durable", "faulty"}
    /\ {Delay, MinWait, CHECK_REBOOT_ALLOWED_INTERVAL, Step} \subseteq Nat \ {0}
    /\ Offsets \subseteq Int
    /\ MaxTime \in Nat

\* A step of time ends where a wait for the next reboot_allowed ends, and does
\* not pass by it.
ASSUME StepAssumption ==
    \E n \in 1..CHECK_REBOOT_ALLOWED_INTERVAL : CHECK_REBOOT_ALLOWED_INTERVAL = n * Step

VARIABLES
    policy, timer, storage,     \* the build
    pc,             \* where run() or wait_for_reboot() is
    real,           \* real time
    offset,         \* the wall clock shows real + offset
    booted,         \* when the monotonic clock was 0
    timing,         \* schedule.next_update_time, while it is waited for
    armedAt,        \* when its timers were set
    due,            \* when the sleep of a "minimal" timer ends
    reached,        \* has an "exact" timer seen one of its bounds reached
    askDue,         \* when the wait for the next reboot_allowed ends
    lastUpdate,     \* schedule.last_update_time
    lastCheck,      \* schedule.last_update_check_time
    cached,         \* LAST_UPDATE_TIME in storage, as get() sees it
    stored,         \*   and as last committed
    reported,       \* the UpdateCheckInterval reported for the check that runs
    endedAt,        \* history: when a check, a ping or a refusal last ended
    askedAt,        \* history: when the timer last led to reboot_allowed
    checkAt,        \* history: when the last check of this boot began; and the
    updateAt,       \*   readings of the clocks that lastUpdate,
    cachedAt,       \*   cached
    storedAt        \*   and stored come from

built == <<policy, timer, storage>>
clock == <<real, offset, booted>>
timers == <<timing, armedAt, due, reached, askDue>>
context == <<lastUpdate, lastCheck, cached, stored, reported>>
readings == <<checkAt, updateAt, cachedAt, storedAt>>
history == <<endedAt, askedAt, readings>>
vars == <<built, pc, clock, timers, context, history>>

\* CheckTiming
CheckTiming == [time : PartialComplexTime, wait : Nat \cup {None}]

\* Metrics::UpdateCheckInterval, with its ClockType
ClockType == {"Monotonic", "Wall"}
UpdateCheckInterval == [interval : Nat, clock : ClockType]

Reading == [real : Nat, offset : Int]

ASSUME NoneAssumption ==
    None \notin PartialComplexTime \cup CheckTiming \cup UpdateCheckInterval \cup Reading

\* time_source.now()
Mono == real - booted
Now == Complex(real + offset, Mono)
Read == [real |-> real, offset |-> offset]

Locations == {"off", "scheduling", "arming", "waiting", "deciding", "checking",
              "askReboot", "rebootArming", "rebootWait", "pinging", "rebooting"}

TypeOK ==
    /\ built \in Builds
    /\ pc \in Locations
    /\ real \in Nat /\ offset \in Offsets /\ booted \in 0..real
    /\ timing \in CheckTiming \cup {None}
    /\ pc \in {"arming", "waiting", "rebootArming", "rebootWait"} => timing # None
    /\ armedAt \in Nat /\ due \in Int /\ askDue \in Nat
    /\ reached \in BOOLEAN
    /\ lastUpdate \in PartialComplexTime \cup {None}
    /\ lastCheck \in PartialComplexTime \cup {None}
    /\ {cached, stored} \subseteq Int \cup {None}
    /\ reported \in UpdateCheckInterval \cup {None}
    /\ endedAt \in Nat /\ askedAt \in Nat
    /\ {checkAt, updateAt, cachedAt, storedAt} \subseteq Reading \cup {None}

Init ==
    /\ \E b \in Builds : policy = b[1] /\ timer = b[2] /\ storage = b[3]
    /\ pc = "scheduling"
    /\ real = 0
    /\ offset \in Offsets
    /\ booted = 0
    /\ timing = None
    /\ armedAt = 0 /\ due = 0 /\ askDue = 0
    /\ reached = FALSE
    /\ lastUpdate = None /\ lastCheck = None /\ cached = None /\ stored = None
    /\ reported = None
    /\ endedAt = 0 /\ askedAt = 0
    /\ checkAt = None /\ updateAt = None /\ cachedAt = None /\ storedAt = None

-----------------------------------------------------------------------------
(***************************************************************************)
(* The policy engine                                                       *)
(***************************************************************************)

\* StubPolicy: at once, on both clocks.
StubTiming == [time |-> Now, wait |-> None]

\* MinimalPolicy of the hello-world example: a fixed time from now.
MinimalTiming == [time |-> Wall(Now.wall + Delay), wait |-> MinWait]

\* MockPolicyEngine: the time that the test has set, a bound on one clock.
MockTiming == [time |-> Monotonic(Delay), wait |-> None]

\* External: a policy that counts from the last update on both clocks.
IntervalTiming(last) ==
    [time |-> Plus(CompleteWith(IF last = None THEN Now ELSE last, Now), Delay),
     wait |-> MinWait]

\* compute_next_update_time, given schedule.last_update_time.
ComputeNextUpdateTime(last) ==
    CASE policy = "stub" -> StubTiming
      [] policy = "minimal" -> MinimalTiming
      [] policy = "mock" -> MockTiming
      [] policy = "interval" -> IntervalTiming(last)

\* CheckDecision: the positive and the negative responses.
Positive == {"Ok", "OkUpdateDeferred"}
CheckDecision == Positive \cup {"TooSoon", "ThrottledByPolicy", "DeniedByPolicy"}

\* What a policy may answer to update_check_allowed, reboot_allowed and
\* reboot_needed.
StubDecisions == [check |-> {"Ok"}, rebootAllowed |-> {TRUE}, rebootNeeded |-> {TRUE}]
MinimalDecisions == [check |-> {"Ok"}, rebootAllowed |-> {TRUE}, rebootNeeded |-> {FALSE}]
AnyDecisions == [check |-> CheckDecision, rebootAllowed |-> BOOLEAN, rebootNeeded |-> BOOLEAN]

Decisions ==
    CASE policy = "stub" -> StubDecisions
      [] policy = "minimal" -> MinimalDecisions
      [] OTHER -> AnyDecisions

-----------------------------------------------------------------------------
(***************************************************************************)
(* The timer                                                               *)
(***************************************************************************)

\* duration_until_system_time and duration_until_instant: how long a sleep
\* has to be for each bound, now; 0 for one in the past.
DurationUntil(t, c) == IF t[c] > Now[c] THEN t[c] - Now[c] ELSE 0

\* MinimalTimer::wait_until: one sleep, as long as the nearest bound is away.
Sleep(t) ==
    LET durations == {DurationUntil(t, c) : c \in {x \in Timelines : t[x] # None}}
    IN CHOOSE d \in durations : \A e \in durations : d <= e

\* Timer::wait_until is over: an "exact" timer watches both clocks, a
\* "minimal" one has computed its sleep when it was set.
UntilOver == IF timer = "minimal" THEN Mono >= due ELSE reached

\* Timer::wait_for(minimum_wait) is over, or there is none.
ForOver == Mono >= armedAt + (IF timing.wait = None THEN 0 ELSE timing.wait)

\* Mutant: whichever of the two is over first.
WaitOverEither == UntilOver \/ ForOver

\* make_wait_to_next_check: both waits.
WaitOver == UntilOver /\ ForOver

\* The timers for timing t are set.
SetTimers(t) ==
    /\ armedAt' = Mono
    /\ due' = IF timer = "minimal" THEN Mono + Sleep(t.time) ELSE 0
    /\ reached' = (timer = "exact" /\ IsAfterOrEqAny(Now, t.time))

\* The select is left, and its timers with it.
DropTimers == timing' = None /\ armedAt' = 0 /\ due' = 0 /\ reached' = FALSE

\* What an exact timer sees when the clocks show now.
Watch(now) ==
    reached' = (reached \/ /\ timer = "exact"
                           /\ pc \in {"waiting", "rebootWait"}
                           /\ IsAfterOrEqAny(now, timing.time))

-----------------------------------------------------------------------------
(***************************************************************************)
(* last_update_time in storage                                             *)
(***************************************************************************)

\* What a set, a remove or a commit may come to: StubStorage, and the example's
\* MinimalStorage, fail whatever is asked of them; another one fails never, or
\* now and then.
Succeeds ==
    CASE storage = "stub" -> {FALSE}
      [] storage = "durable" -> {TRUE}
      [] storage = "faulty" -> BOOLEAN

\* StorageExt::get_time
GetTime == IF stored = None THEN None ELSE Wall(FromMicros(stored))

\* StorageExt::set_option_int of LAST_UPDATE_TIME, in Context::persist.
SetOptionInt(u, at, succeeds) ==
    IF succeeds
      THEN /\ cached' = IF u = None THEN None ELSE ToMicrosSinceEpoch(u)
           /\ cachedAt' = IF cached' = None THEN None ELSE at
      ELSE UNCHANGED <<cached, cachedAt>>

\* commit_or_log
CommitOrLog(succeeds) ==
    IF succeeds THEN stored' = cached' /\ storedAt' = cachedAt'
                ELSE UNCHANGED <<stored, storedAt>>

\* last_update_time is u, and the context is persisted and committed, each of
\* which may fail.
Update(u, at) ==
    /\ lastUpdate' = u
    /\ updateAt' = at
    /\ \E set \in Succeeds, commit \in Succeeds :
         SetOptionInt(u, at, set) /\ CommitOrLog(commit)

-----------------------------------------------------------------------------
(***************************************************************************)
(* run()                                                                   *)
(***************************************************************************)

\* update_next_update_time: the timing is computed, and yielded.
ComputeTiming ==
    /\ pc = "scheduling"
    /\ pc' = "arming"
    /\ timing' = ComputeNextUpdateTime(lastUpdate)
    /\ UNCHANGED <<built, clock, armedAt, due, reached, askDue, context, history>>

MakeWait ==
    /\ pc = "arming"
    /\ pc' = "waiting"
    /\ SetTimers(timing)
    /\ UNCHANGED <<built, clock, timing, askDue, context, history>>

TimerFires ==
    /\ pc = "waiting"
    /\ WaitOver
    /\ pc' = "deciding"
    /\ DropTimers
    /\ UNCHANGED <<built, clock, askDue, context, history>>

TakeRequest ==
    /\ pc = "waiting"
    /\ pc' = "deciding"
    /\ DropTimers
    /\ UNCHANGED <<built, clock, askDue, context, history>>

CheckRefused ==
    /\ pc = "deciding"
    /\ Decisions.check \ Positive # {}
    /\ pc' = "scheduling"
    /\ endedAt' = real
    /\ UNCHANGED <<built, clock, timers, context, askedAt, readings>>

\* wall_duration_since: nothing is reported for a time in the future.
WallDurationSince(earlier) ==
    IF Now.wall < earlier THEN None
    ELSE [interval |-> Now.wall - earlier, clock |-> "Wall"]

\* Mutant: the wall clock is used whenever there is a wall time.
CheckIntervalByWall ==
    IF lastCheck = None THEN None ELSE WallDurationSince(lastCheck.wall)

\* report_check_interval: on the wall clock when the last check is known from
\* storage only.
CheckInterval ==
    CASE lastCheck = None -> None
      [] lastCheck # None /\ lastCheck.mono # None ->
           [interval |-> Now.mono - lastCheck.mono, clock |-> "Monotonic"]
      [] OTHER -> WallDurationSince(lastCheck.wall)

CheckBegins ==
    /\ pc = "deciding"
    /\ Decisions.check \cap Positive # {}
    /\ pc' = "checking"
    /\ reported' = CheckInterval
    /\ lastCheck' = Now
    /\ checkAt' = Read
    /\ UNCHANGED <<built, clock, timers, lastUpdate, cached, stored, endedAt, askedAt,
                   updateAt, cachedAt, storedAt>>

\* A change of the interval that Omaha dictates, told in any answer of a check
\* or to a ping, is saved at once, with the rest of the context.
SavePoll ==
    /\ pc \in {"checking", "pinging"}
    /\ Update(lastUpdate, updateAt)
    /\ UNCHANGED <<built, pc, clock, timers, lastCheck, reported, endedAt, askedAt, checkAt>>

\* A check that Omaha has answered renews last_update_time, and only such a
\* one may need a reboot.
CheckEnds(answered, reboot) ==
    /\ pc = "checking"
    /\ reboot \in Decisions.rebootNeeded
    /\ pc' = IF answered /\ reboot THEN "askReboot" ELSE "scheduling"
    /\ IF answered THEN Update(Now, Read) ELSE Update(lastUpdate, updateAt)
    /\ reported' = None
    /\ endedAt' = real
    /\ UNCHANGED <<built, clock, timers, lastCheck, askedAt, checkAt>>

-----------------------------------------------------------------------------
(***************************************************************************)
(* wait_for_reboot()                                                       *)
(***************************************************************************)

LeaveRebootWait == DropTimers /\ askDue' = 0 /\ askedAt' = 0

\* The first question; if the answer is no, the two waits are set.
AskReboot(allowed) ==
    /\ pc = "askReboot"
    /\ allowed \in Decisions.rebootAllowed
    /\ IF allowed
         THEN pc' = "rebooting" /\ UNCHANGED <<timing, askDue, askedAt>>
         ELSE /\ pc' = "rebootArming"
              /\ timing' = ComputeNextUpdateTime(lastUpdate)
              /\ askDue' = Mono + CHECK_REBOOT_ALLOWED_INTERVAL
              /\ askedAt' = real
    /\ UNCHANGED <<built, clock, armedAt, due, reached, context, endedAt, readings>>

MakeWaitToPing ==
    /\ pc = "rebootArming"
    /\ pc' = "rebootWait"
    /\ SetTimers(timing)
    /\ UNCHANGED <<built, clock, timing, askDue, context, history>>

AskAgain(allowed) ==
    /\ pc = "rebootWait"
    /\ Mono >= askDue
    /\ allowed \in Decisions.rebootAllowed
    /\ askedAt' = real
    /\ IF allowed
         THEN pc' = "rebooting" /\ UNCHANGED askDue
         ELSE /\ askDue' = Mono + CHECK_REBOOT_ALLOWED_INTERVAL
              /\ UNCHANGED pc
    /\ UNCHANGED <<built, clock, timing, armedAt, due, reached, context, endedAt, readings>>

\* An on-demand request asks at once, and sets no wait.
AskOnDemand ==
    /\ pc = "rebootWait"
    /\ TRUE \in Decisions.rebootAllowed
    /\ pc' = "rebooting"
    /\ UNCHANGED <<built, clock, timers, context, history>>

PingBegins ==
    /\ pc = "rebootWait"
    /\ WaitOver
    /\ pc' = "pinging"
    /\ DropTimers
    /\ UNCHANGED <<built, clock, askDue, context, history>>

\* Mutant: the wait for the reboot is set again, too.
PingEndsAndWaits(answered) ==
    /\ pc = "pinging"
    /\ pc' = "rebootArming"
    /\ IF answered THEN Update(Now, Read) ELSE Update(lastUpdate, updateAt)
    /\ timing' = ComputeNextUpdateTime(lastUpdate')
    /\ askDue' = Mono + CHECK_REBOOT_ALLOWED_INTERVAL
    /\ endedAt' = real
    /\ UNCHANGED <<built, clock, armedAt, due, reached, lastCheck, reported, askedAt, checkAt>>

\* Mutant: the next time is not computed.
PingEndsUnscheduled(answered) ==
    /\ pc = "pinging"
    /\ pc' = "rebootArming"
    /\ IF answered THEN Update(Now, Read) ELSE Update(lastUpdate, updateAt)
    /\ endedAt' = real
    /\ UNCHANGED <<built, clock, timers, lastCheck, reported, askedAt, checkAt>>

\* ping_omaha and update_next_update_time.
PingEnds(answered) ==
    /\ pc = "pinging"
    /\ pc' = "rebootArming"
    /\ IF answered THEN Update(Now, Read) ELSE Update(lastUpdate, updateAt)
    /\ timing' = ComputeNextUpdateTime(lastUpdate')
    /\ endedAt' = real
    /\ UNCHANGED <<built, clock, armedAt, due, reached, askDue, lastCheck, reported, askedAt,
                   checkAt>>

RebootFails ==
    /\ pc = "rebooting"
    /\ pc' = "scheduling"
    /\ LeaveRebootWait
    /\ UNCHANGED <<built, clock, context, endedAt, readings>>

\* The device stops: it reboots, or loses power, and what is not committed.
Stop ==
    /\ pc # "off"
    /\ pc' = "off"
    /\ LeaveRebootWait
    /\ lastUpdate' = None /\ lastCheck' = None /\ reported' = None
    /\ updateAt' = None /\ checkAt' = None
    /\ cached' = stored /\ cachedAt' = storedAt
    /\ UNCHANGED <<built, clock, stored, endedAt, storedAt>>

\* Context::load: the stored time stands for the last check, too. A boot takes
\* a while.
Boot ==
    /\ pc = "off"
    /\ real > booted
    /\ pc' = "scheduling"
    /\ booted' = real
    /\ lastUpdate' = GetTime
    /\ lastCheck' = GetTime
    /\ updateAt' = storedAt
    /\ UNCHANGED <<built, real, offset, timers, cached, stored, reported, endedAt, askedAt,
                   checkAt, cachedAt, storedAt>>

-----------------------------------------------------------------------------
(***************************************************************************)
(* Time                                                                    *)
(***************************************************************************)

\* The machine waits for something that has happened.
Due ==
    \/ pc = "waiting" /\ WaitOver
    \/ pc = "rebootWait" /\ (WaitOver \/ Mono >= askDue)

\* Where the machine awaits a timer, an answer, the installer, a reboot or
\* its observers. The steps between them take no time.
Awaiting == pc \notin {"scheduling", "deciding", "askReboot"}

Tick ==
    /\ Awaiting /\ ~Due
    /\ real + Step <= MaxTime
    /\ real' = real + Step
    /\ UNCHANGED <<built, pc, offset, booted, timing, armedAt, due, askDue, context, history>>
    /\ Watch(Now')

SetClock(o) ==
    /\ Awaiting
    /\ offset' = o
    /\ UNCHANGED <<built, pc, real, booted, timing, armedAt, due, askDue, context, history>>
    /\ Watch(Now')

Progress ==
    \/ ComputeTiming \/ MakeWait \/ TimerFires
    \/ CheckRefused \/ CheckBegins
    \/ \E answered, reboot \in BOOLEAN : CheckEnds(answered, reboot)
    \/ \E allowed \in BOOLEAN : AskReboot(allowed) \/ AskAgain(allowed)
    \/ MakeWaitToPing \/ PingBegins
    \/ \E answered \in BOOLEAN : PingEnds(answered)
    \/ RebootFails

Next ==
    \/ Progress
    \/ TakeRequest \/ AskOnDemand \/ SavePoll
    \/ Stop \/ Boot
    \/ Tick
    \/ \E o \in Offsets : SetClock(o)

\* Time passes, and the machine takes the steps that nothing holds up. Nobody
\* has to ask for a check, to stop the device, to start it or to set its clock.
Spec == Init /\ [][Next]_vars /\ WF_vars(Progress) /\ WF_vars(Tick)

-----------------------------------------------------------------------------
(***************************************************************************)
(* Properties                                                              *)
(***************************************************************************)

\* CheckTiming::minimum_wait, "The minimum wait until the next check,
\* regardless of the wall or monotonic time it should be performed at": the
\* timer starts no check and no ping before the minimum wait has passed since
\* the last one was over, even if the wall clock was set in between or the
\* time computed from a stored one is long past.
ChecksApart ==
    [][(TimerFires \/ PingBegins) /\ timing.wait # None
         => real - endedAt >= timing.wait]_vars

\* Once CHECK_REBOOT_ALLOWED_INTERVAL has passed since the policy last refused
\* a reboot, the machine does not go on waiting but asks again: the pings, the
\* requests and the changes of the clock in between do not start the interval
\* anew. (A ping that is running at that moment puts the question off until
\* Omaha has answered it.)
AskedInTime ==
    [][pc = "rebootWait" /\ real' > real
         => real' - askedAt <= CHECK_REBOOT_ALLOWED_INTERVAL]_vars

\* A reported interval says by which clock it was measured, and is right:
\* within one boot it is exactly the time since the last check began, whatever
\* happened to the wall clock; for the first check after a restart it is what
\* the wall clock shows since the last answer of Omaha that the storage has
\* kept, to the microsecond, before the epoch and after it, however often that
\* time was loaded and stored again, and whichever of its saves failed.
\* (Whether that answer is the last check is CheckTimeStored.)
IntervalIsReal ==
    [][pc = "deciding" /\ pc' = "checking" /\ lastCheck # None =>
         LET since == IF checkAt # None THEN checkAt ELSE storedAt
             passed == real - since.real
             shown == passed + offset - since.offset
         IN IF checkAt # None
              THEN reported' = [interval |-> passed, clock |-> "Monotonic"]
              ELSE \/ reported' = None /\ shown < NanosPerMicro
                   \/ /\ reported' # None
                      /\ reported'.clock = "Wall"
                      /\ reported'.interval - shown \in (-999)..999]_vars

\* When the wait that has been set is over at the latest, on the monotonic
\* clock; a time on the wall clock alone may never come.
Latest ==
    LET until == IF timer = "minimal" THEN due ELSE timing.time.mono
        atLeast == IF timing.wait = None THEN 0 ELSE armedAt + timing.wait
    IN IF until = None THEN None ELSE IF until > atLeast THEN until ELSE atLeast

\* The clock cannot stop the checks: a wait that has a bound on the monotonic
\* clock, or was turned into a sleep, ends, although the wall clock is set
\* back again and again.
EveryWaitEnds ==
    (pc = "waiting" /\ Latest # None /\ booted + Latest <= MaxTime) ~> (pc # "waiting")

-----------------------------------------------------------------------------
(***************************************************************************)
(* What comments in the source say and the code does not do                *)
(***************************************************************************)

\* "It will also persist the new last check time to storage", and what is kept
\* there as last_update_time is "When the last update check was attempted":
\* once a check has ended, a storage that does not fail has a time from the
\* start of that check on.
CheckTimeStored ==
    [][pc = "checking" /\ pc' \in {"scheduling", "askReboot"} /\ storage = "durable"
         => stored' # None /\ storedAt'.real >= checkAt.real]_vars
=============================================================================
