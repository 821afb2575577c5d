--------------------------- MODULE ScheduleProofs ---------------------------
(***************************************************************************)
(* Schedule for any embedder's build, any intervals and any changes of the *)
(* clock: it is type correct, checks are the minimum wait apart, the       *)
(* question for a reboot is asked in time, and the interval that is        *)
(* reported is the real one.                                               *)
(***************************************************************************)
EXTENDS Schedule, TLAPS

-----------------------------------------------------------------------------
(***************************************************************************)
(* The inductive invariants                                                *)
(***************************************************************************)

\* A wall time and its reading agree, but for what storing it has cut off.
Near(w, at) == w - (at.real + at.offset) \in (-999)..999

\* A wall time that was loaded is a whole number of microseconds: storing it
\* again changes nothing.
Whole(w) == \E k \in Int : w = FromMicros(k)

\* What is known of the last check: the reading on the monotonic clock within
\* the boot it was made in, and after a restart the wall time that was loaded.
CheckKnown ==
    lastCheck # None =>
      IF checkAt # None
        THEN lastCheck.mono = checkAt.real - booted
        ELSE /\ lastCheck.mono = None /\ lastCheck.wall # None
             /\ storedAt # None /\ Near(lastCheck.wall, storedAt)

\* What is known of the last update, in memory and in storage.
UpdateKnown ==
    /\ lastUpdate # None =>
         /\ updateAt # None /\ lastUpdate.wall # None
         /\ \/ lastUpdate.wall = updateAt.real + updateAt.offset
            \/ Whole(lastUpdate.wall) /\ Near(lastUpdate.wall, updateAt)
    /\ cached # None => cachedAt # None /\ Near(FromMicros(cached), cachedAt)
    /\ stored # None => storedAt # None /\ Near(FromMicros(stored), storedAt)

\* A check of this boot began in the past, and nothing is stored before one has.
ReadBefore ==
    /\ checkAt # None => checkAt.real <= real
    /\ pc \in {"checking", "askReboot", "rebootArming", "rebootWait", "pinging", "rebooting"}
         => checkAt # None
    /\ pc = "off" => checkAt = None

Clocks == ReadBefore /\ CheckKnown /\ UpdateKnown

\* The timers that run were set after the last check, ping or refusal ended.
Armed ==
    /\ endedAt <= real
    /\ pc \in {"waiting", "rebootWait"} => endedAt <= booted + armedAt

\* The wait for reboot_allowed counts from when it was last asked by the timer,
\* and time comes to its end in whole steps.
Asking ==
    pc \in {"rebootArming", "rebootWait", "pinging"} =>
      /\ askDue = askedAt - booted + CHECK_REBOOT_ALLOWED_INTERVAL
      /\ \E n \in Int : askDue - Mono = n * Step

-----------------------------------------------------------------------------
(***************************************************************************)
(* Times                                                                   *)
(***************************************************************************)

\* The constants are positive numbers.
LEMMA Constants ==
  /\ Delay \in Nat \ {0} /\ MinWait \in Nat \ {0} /\ Step \in Nat \ {0}
  /\ CHECK_REBOOT_ALLOWED_INTERVAL \in Nat \ {0}
  /\ Offsets \subseteq Int /\ MaxTime \in Nat
  BY ScheduleAssumption

\* The kinds of policy, timer and storage of a build.
LEMMA BuildIs ==
  ASSUME TypeOK
  PROVE  /\ policy \in {"stub", "minimal", "mock", "interval"}
         /\ timer \in {"exact", "minimal"}
         /\ storage \in {"stub", "durable", "faulty"}
  <1>1. <<policy, timer, storage>> \in {"stub", "minimal", "mock", "interval"} \X
                                        {"exact", "minimal"} \X {"stub", "durable", "faulty"}
    BY ScheduleAssumption DEF TypeOK, built
  <1>2. QED
    BY <1>1

\* A time of which one timeline is known is a PartialComplexTime.
LEMMA PartialIs ==
  ASSUME NEW w \in Int \cup {None}, NEW m \in Int \cup {None}, w # None \/ m # None
  PROVE  [wall |-> w, mono |-> m] \in PartialComplexTime
  BY DEF PartialComplexTime, Timelines

\* The two timelines of a PartialComplexTime, of which one is known.
LEMMA PartialHas ==
  ASSUME NEW t \in PartialComplexTime
  PROVE  /\ t.wall \in Int \cup {None} /\ t.mono \in Int \cup {None}
         /\ t.wall # None \/ t.mono # None
  BY DEF PartialComplexTime, Timelines

\* Now is a time on both clocks, and the monotonic one has not gone below 0.
LEMMA NowIs ==
  ASSUME TypeOK
  PROVE  /\ real \in Nat /\ offset \in Int /\ booted \in Nat /\ booted <= real
         /\ Mono \in Nat
         /\ Now.wall = real + offset /\ Now.mono = real - booted
         /\ Now \in PartialComplexTime
         /\ Read \in Reading
  <1>1. real \in Nat /\ offset \in Int /\ booted \in Nat /\ booted <= real
    BY Constants DEF TypeOK
  <1>2. Mono \in Nat
    BY <1>1 DEF Mono
  <1>3. Now.wall = real + offset /\ Now.mono = real - booted
    BY DEF Now, Complex, Mono
  <1>4. Now \in PartialComplexTime
    <2>1. real + offset \in Int /\ Mono \in Int /\ Mono # None
      BY <1>1, <1>2, TimeAssumption
    <2>2. QED
      BY <2>1, PartialIs DEF Now, Complex
  <1>5. Read \in Reading
    BY <1>1 DEF Read, Reading
  <1>6. QED
    BY <1>1, <1>2, <1>3, <1>4, <1>5

\* Storing a wall time cuts off less than a microsecond, on either side of the
\* epoch, and nothing of what was stored before.
LEMMA MicrosKept ==
  ASSUME NEW w \in Int, ToMicros(w) # None
  PROVE  /\ ToMicros(w) \in Int
         /\ FromMicros(ToMicros(w)) - w \in (-999)..999
         /\ Whole(w) => FromMicros(ToMicros(w)) = w
  <1> DEFINE whole == IF w >= 0 THEN w \div 1000 ELSE (-w) \div 1000
  <1>1. ToMicros(w) = IF w >= 0 THEN whole ELSE -whole
    BY DEF ToMicros, NanosPerMicro
  <1>2. CASE w >= 0
    <2>1. whole = w \div 1000
      BY <1>2
    <2>2. whole \in Int /\ 1000 * whole <= w /\ w < 1000 * whole + 1000
      BY <1>2, <2>1
    <2> HIDE DEF whole
    <2>3. \A k \in Int : w = k * 1000 => k = whole
      BY <2>2
    <2>4. QED
      BY <1>1, <1>2, <2>2, <2>3 DEF FromMicros, NanosPerMicro, Whole
  <1>3. CASE w < 0
    <2>1. whole = (-w) \div 1000
      BY <1>3
    <2>2. whole \in Int /\ 1000 * whole <= -w /\ -w < 1000 * whole + 1000
      BY <1>3, <2>1
    <2> HIDE DEF whole
    <2>3. \A k \in Int : w = k * 1000 => k = -whole
      BY <2>2
    <2>4. ToMicros(w) = -whole
      BY <1>1, <1>3
    <2>5. QED
      BY <2>2, <2>3, <2>4 DEF FromMicros, NanosPerMicro, Whole
  <1>4. QED
    BY <1>2, <1>3

-----------------------------------------------------------------------------
(***************************************************************************)
(* Timings and timers                                                      *)
(***************************************************************************)

\* Each policy's timing, by the kind of policy.
LEMMA ComputeIs ==
  ASSUME NEW last
  PROVE  /\ policy = "stub" => ComputeNextUpdateTime(last) = StubTiming
         /\ policy = "minimal" => ComputeNextUpdateTime(last) = MinimalTiming
         /\ policy = "mock" => ComputeNextUpdateTime(last) = MockTiming
         /\ policy = "interval" => ComputeNextUpdateTime(last) = IntervalTiming(last)
  <1>1. "stub" # "minimal" /\ "stub" # "mock" /\ "stub" # "interval" /\ "minimal" # "mock"
        /\ "minimal" # "interval" /\ "mock" # "interval"
    OBVIOUS
  <1>2. QED
    BY <1>1, Zenon DEF ComputeNextUpdateTime

\* Every policy computes a timing with a bound on one clock at least.
LEMMA TimingTyped ==
  ASSUME TypeOK, NEW last \in PartialComplexTime \cup {None}
  PROVE  ComputeNextUpdateTime(last) \in CheckTiming
  <1>1. None \notin Int /\ MinWait \in Nat /\ Delay \in Nat
    BY TimeAssumption, Constants
  <1>2. StubTiming \in CheckTiming
    BY NowIs DEF StubTiming, CheckTiming
  <1>3. MinimalTiming \in CheckTiming
    <2>1. Now.wall + Delay \in Int
      BY <1>1, NowIs
    <2>2. Wall(Now.wall + Delay) \in PartialComplexTime
      BY <1>1, <2>1, PartialIs DEF Wall
    <2>3. QED
      BY <1>1, <2>2 DEF MinimalTiming, CheckTiming
  <1>4. MockTiming \in CheckTiming
    <2>1. Delay \in Int /\ Delay # None
      BY <1>1
    <2>2. Monotonic(Delay) \in PartialComplexTime
      BY <2>1, PartialIs DEF Monotonic
    <2>3. QED
      BY <2>2 DEF MockTiming, CheckTiming
  <1>5. IntervalTiming(last) \in CheckTiming
    <2> DEFINE from == IF last = None THEN Now ELSE last
               full == CompleteWith(from, Now)
    <2>1. from \in PartialComplexTime
      BY NowIs
    <2>2. Now.wall \in Int /\ Now.mono \in Int
      BY NowIs
    <2>3. from.wall \in Int \cup {None} /\ from.mono \in Int \cup {None}
      BY <2>1, PartialHas
    <2> HIDE DEF from
    <2>4. full.wall \in Int /\ full.mono \in Int
      BY <2>2, <2>3 DEF CompleteWith
    <2> HIDE DEF full
    <2>5. Plus(full, Delay) = [wall |-> full.wall + Delay, mono |-> full.mono + Delay]
      BY <1>1, <2>4 DEF Plus
    <2>6. Plus(full, Delay) \in PartialComplexTime
      BY <1>1, <2>4, <2>5, PartialIs
    <2>7. IntervalTiming(last) = [time |-> Plus(full, Delay), wait |-> MinWait]
      BY DEF IntervalTiming, full, from
    <2>8. QED
      BY <1>1, <2>6, <2>7 DEF CheckTiming
  <1>6. QED
    BY <1>2, <1>3, <1>4, <1>5, ComputeIs, BuildIs

\* A "minimal" timer finds how long to sleep.
LEMMA SleepTyped ==
  ASSUME TypeOK, NEW t \in PartialComplexTime
  PROVE  Sleep(t) \in Nat
  <1> DEFINE known == {x \in Timelines : t[x] # None}
             durations == {DurationUntil(t, c) : c \in known}
  <1>1. t["wall"] \in Int \cup {None} /\ t["mono"] \in Int \cup {None}
        /\ (t["wall"] # None \/ t["mono"] # None)
    BY PartialHas
  <1>2. Now["wall"] \in Int /\ Now["mono"] \in Int
    BY NowIs
  <1>3. known \subseteq {"wall", "mono"} /\ known # {}
    BY <1>1 DEF Timelines
  <1>4. \A c \in known : DurationUntil(t, c) \in Nat
    BY <1>1, <1>2, <1>3 DEF DurationUntil
  <1> DEFINE w == DurationUntil(t, "wall")
             m == DurationUntil(t, "mono")
  <1>5. \E d \in durations : \A e \in durations : d <= e
    <2>1. CASE known = {"wall"}
      <3>1. durations = {w} /\ w \in Nat
        BY <1>4, <2>1
      <3> HIDE DEF durations, w
      <3>2. QED
        BY <3>1
    <2>2. CASE known = {"mono"}
      <3>1. durations = {m} /\ m \in Nat
        BY <1>4, <2>2
      <3> HIDE DEF durations, m
      <3>2. QED
        BY <3>1
    <2>3. CASE known = {"wall", "mono"}
      <3>1. durations = {w, m} /\ w \in Nat /\ m \in Nat
        BY <1>4, <2>3
      <3> HIDE DEF durations, w, m
      <3>2. QED
        BY <3>1
    <2> HIDE DEF known
    <2>4. known = {"wall"} \/ known = {"mono"} \/ known = {"wall", "mono"}
      BY <1>3
    <2>5. QED
      BY <2>1, <2>2, <2>3, <2>4
  <1>6. Sleep(t) = CHOOSE d \in durations : \A e \in durations : d <= e
    BY DEF Sleep
  <1>7. durations \subseteq Nat
    BY <1>4
  <1> HIDE DEF durations
  <1>8. QED
    BY <1>5, <1>6, <1>7

\* Setting the timers for a timing.
LEMMA SetTimersTyped ==
  ASSUME TypeOK, NEW t \in CheckTiming, SetTimers(t)
  PROVE  armedAt' \in Nat /\ armedAt' = Mono /\ due' \in Int /\ reached' \in BOOLEAN
  <1>1. Mono \in Nat
    BY NowIs
  <1>2. Sleep(t.time) \in Nat
    BY SleepTyped DEF CheckTiming
  <1>3. armedAt' = Mono /\ due' = (IF timer = "minimal" THEN Mono + Sleep(t.time) ELSE 0)
    BY DEF SetTimers
  <1>4. reached' \in BOOLEAN
    BY Zenon DEF SetTimers
  <1>5. QED
    BY <1>1, <1>2, <1>3, <1>4

\* What a save comes to: the time that is cached is the old one or the new one,
\* and the one that is stored is the old one or the one that is cached.
LEMMA UpdateIs ==
  ASSUME NEW u, NEW at, Update(u, at)
  PROVE  /\ lastUpdate' = u /\ updateAt' = at
         /\ \/ UNCHANGED <<cached, cachedAt>>
            \/ /\ cached' = IF u = None THEN None ELSE ToMicrosSinceEpoch(u)
               /\ cachedAt' = IF cached' = None THEN None ELSE at
         /\ \/ UNCHANGED <<stored, storedAt>>
            \/ stored' = cached' /\ storedAt' = cachedAt'
  BY DEF Update, SetOptionInt, CommitOrLog

\* What is stored of a time is a number of microseconds, or nothing.
LEMMA UpdateTyped ==
  ASSUME TypeOK, NEW u \in PartialComplexTime \cup {None}, NEW at \in Reading \cup {None},
         Update(u, at)
  PROVE  /\ lastUpdate' \in PartialComplexTime \cup {None}
         /\ {cached', stored'} \subseteq Int \cup {None}
         /\ {updateAt', cachedAt', storedAt'} \subseteq Reading \cup {None}
  <1>1. u # None => ToMicrosSinceEpoch(u) \in Int \cup {None}
    <2> SUFFICES ASSUME u # None PROVE ToMicrosSinceEpoch(u) \in Int \cup {None}
      OBVIOUS
    <2>1. u.wall \in Int \cup {None}
      BY PartialHas
    <2>2. QED
      BY <2>1, MicrosKept DEF ToMicrosSinceEpoch
  <1>2. /\ {cached, stored} \subseteq Int \cup {None}
        /\ {cachedAt, storedAt} \subseteq Reading \cup {None}
    BY DEF TypeOK
  <1>3. cached' \in Int \cup {None} /\ cachedAt' \in Reading \cup {None}
    BY <1>1, <1>2, UpdateIs
  <1>4. stored' \in Int \cup {None} /\ storedAt' \in Reading \cup {None}
    BY <1>2, <1>3, UpdateIs
  <1>5. lastUpdate' = u /\ updateAt' = at
    BY UpdateIs
  <1>6. QED
    BY <1>3, <1>4, <1>5

\* The last update as an unanswered check or ping leaves it, or as an answered
\* one renews it.
LEMMA RenewTyped ==
  ASSUME TypeOK, NEW answered \in BOOLEAN,
         IF answered THEN Update(Now, Read) ELSE Update(lastUpdate, updateAt)
  PROVE  /\ lastUpdate' \in PartialComplexTime \cup {None}
         /\ {cached', stored'} \subseteq Int \cup {None}
         /\ {updateAt', cachedAt', storedAt'} \subseteq Reading \cup {None}
  <1>1. CASE answered
    BY <1>1, NowIs, UpdateTyped
  <1>2. CASE ~answered
    BY <1>2, UpdateTyped DEF TypeOK
  <1>3. QED
    BY <1>1, <1>2

\* The interval that is reported is never negative.
LEMMA IntervalTyped ==
  ASSUME TypeOK, Clocks
  PROVE  CheckInterval \in UpdateCheckInterval \cup {None}
  <1>1. CASE lastCheck = None
    BY <1>1 DEF CheckInterval
  <1>2. CASE lastCheck # None /\ lastCheck.mono # None
    <2>1. checkAt # None /\ lastCheck.mono = checkAt.real - booted /\ checkAt.real <= real
      BY <1>2 DEF Clocks, ReadBefore, CheckKnown
    <2>2. checkAt.real \in Nat
      BY <2>1 DEF TypeOK, Reading
    <2>3. Now.mono - lastCheck.mono \in Nat
      BY <2>1, <2>2, NowIs
    <2>4. QED
      BY <1>2, <2>3 DEF CheckInterval, UpdateCheckInterval, ClockType
  <1>3. CASE lastCheck # None /\ lastCheck.mono = None
    <2>1. lastCheck.wall \in Int
      BY <1>3, PartialHas DEF TypeOK
    <2>2. WallDurationSince(lastCheck.wall) \in UpdateCheckInterval \cup {None}
      BY <2>1, NowIs DEF WallDurationSince, UpdateCheckInterval, ClockType
    <2>3. QED
      BY <1>3, <2>2 DEF CheckInterval
  <1>4. QED
    BY <1>1, <1>2, <1>3

-----------------------------------------------------------------------------
(***************************************************************************)
(* Type correctness                                                        *)
(***************************************************************************)

\* A machine that has just been built is typed.
LEMMA TypeInit == Init => TypeOK
  <1> SUFFICES ASSUME Init PROVE TypeOK
    OBVIOUS
  <1>1. built \in Builds
    <2>1. PICK b \in Builds : policy = b[1] /\ timer = b[2] /\ storage = b[3]
      BY DEF Init
    <2>2. b \in {"stub", "minimal", "mock", "interval"} \X
                {"exact", "minimal"} \X {"stub", "durable", "faulty"}
      BY ScheduleAssumption
    <2>3. b = <<policy, timer, storage>>
      BY <2>1, <2>2
    <2>4. QED
      BY <2>3 DEF built
  <1>2. real = 0 /\ booted = 0 /\ offset \in Offsets /\ offset \in Int
    BY Constants DEF Init
  <1>4. reached \in BOOLEAN
    BY Zenon DEF Init
  <1>5. pc \in Locations /\ pc \notin {"arming", "waiting", "rebootArming", "rebootWait"}
    BY DEF Init, Locations
  <1>6. QED
    BY <1>1, <1>2, <1>4, <1>5 DEF Init, TypeOK

\* No step leaves the types: timers run only for a timing, and no reported
\* interval is negative.
LEMMA TypeNext == TypeOK /\ Clocks /\ [Next]_vars => TypeOK'
  <1> SUFFICES ASSUME TypeOK, Clocks, [Next]_vars
               PROVE  TypeOK'
    OBVIOUS
  <1> USE DEF Locations
  <1>0. /\ lastUpdate \in PartialComplexTime \cup {None}
        /\ \A t \in CheckTiming : t # None
    BY NoneAssumption DEF TypeOK
  <1>1. CASE ComputeTiming
    <2>1. timing' \in CheckTiming
      BY <1>0, <1>1, TimingTyped DEF ComputeTiming
    <2>2. QED
      BY <1>0, <1>1, <2>1 DEF ComputeTiming, TypeOK, built, clock, context, history, readings
  <1>2. CASE MakeWait \/ MakeWaitToPing
    <2>1. timing \in CheckTiming /\ SetTimers(timing)
      BY <1>2 DEF MakeWait, MakeWaitToPing, TypeOK
    <2>2. armedAt' \in Nat /\ due' \in Int /\ reached' \in BOOLEAN
      BY <2>1, SetTimersTyped
    <2>3. /\ UNCHANGED <<built, clock, timing, askDue, context, history>>
          /\ pc' \in {"waiting", "rebootWait"}
      BY <1>2 DEF MakeWait, MakeWaitToPing
    <2>4. QED
      BY <1>0, <2>1, <2>2, <2>3 DEF TypeOK, built, clock, context, history, readings
  <1>3. CASE TimerFires \/ TakeRequest \/ PingBegins
    <2>1. /\ pc' \in {"deciding", "pinging"} /\ timing' = None /\ armedAt' = 0 /\ due' = 0
          /\ UNCHANGED <<built, clock, askDue, context, history>>
      BY <1>3 DEF TimerFires, TakeRequest, PingBegins, DropTimers
    <2>2. reached' \in BOOLEAN
      BY <1>3, Zenon DEF TimerFires, TakeRequest, PingBegins, DropTimers
    <2>3. QED
      BY <2>1, <2>2 DEF TypeOK, built, clock, context, history, readings
  <1>4. CASE CheckRefused
    <2>1. /\ pc' = "scheduling" /\ endedAt' = real
          /\ UNCHANGED <<built, clock, timers, context, askedAt, readings>>
      BY <1>4 DEF CheckRefused
    <2>2. QED
      BY <2>1 DEF TypeOK, built, clock, timers, context, readings
  <1>5. CASE CheckBegins
    <2>1. reported' \in UpdateCheckInterval \cup {None}
      BY <1>5, IntervalTyped DEF CheckBegins
    <2>2. lastCheck' \in PartialComplexTime /\ checkAt' \in Reading
      BY <1>5, NowIs DEF CheckBegins
    <2>3. /\ pc' = "checking"
          /\ UNCHANGED <<built, clock, timers, lastUpdate, cached, stored, endedAt, askedAt,
                         updateAt, cachedAt, storedAt>>
      BY <1>5 DEF CheckBegins
    <2>4. QED
      BY <2>1, <2>2, <2>3 DEF TypeOK, built, clock, timers
  <1>6. ASSUME NEW answered \in BOOLEAN, NEW reboot \in BOOLEAN, CheckEnds(answered, reboot)
        PROVE  TypeOK'
    <2>1. /\ lastUpdate' \in PartialComplexTime \cup {None}
          /\ {cached', stored'} \subseteq Int \cup {None}
          /\ {updateAt', cachedAt', storedAt'} \subseteq Reading \cup {None}
      BY <1>6, RenewTyped DEF CheckEnds
    <2>2. /\ pc' \in {"askReboot", "scheduling"} /\ reported' = None /\ endedAt' = real
          /\ UNCHANGED <<built, clock, timers, lastCheck, askedAt, checkAt>>
      BY <1>6 DEF CheckEnds
    <2>3. QED
      BY <2>1, <2>2 DEF TypeOK, built, clock, timers
  <1>7. ASSUME NEW allowed \in BOOLEAN, AskReboot(allowed)
        PROVE  TypeOK'
    <2>1. UNCHANGED <<built, clock, armedAt, due, reached, context, endedAt, readings>>
      BY <1>7 DEF AskReboot
    <2>2. CASE pc' = "rebooting" /\ UNCHANGED <<timing, askDue, askedAt>>
      BY <2>1, <2>2 DEF TypeOK, built, clock, context, readings
    <2>3. CASE /\ pc' = "rebootArming"
               /\ timing' = ComputeNextUpdateTime(lastUpdate)
               /\ askDue' = Mono + CHECK_REBOOT_ALLOWED_INTERVAL
               /\ askedAt' = real
      <3>1. timing' \in CheckTiming
        BY <1>0, <2>3, TimingTyped
      <3>2. askDue' \in Nat
        BY <2>3, NowIs, Constants
      <3>3. QED
        BY <1>0, <2>1, <2>3, <3>1, <3>2 DEF TypeOK, built, clock, context, readings
    <2>4. QED
      BY <1>7, <2>2, <2>3 DEF AskReboot
  <1>8. ASSUME NEW allowed \in BOOLEAN, AskAgain(allowed)
        PROVE  TypeOK'
    <2>1. /\ UNCHANGED <<built, clock, timing, armedAt, due, reached, context, endedAt, readings>>
          /\ askedAt' = real
          /\ pc' \in {"rebooting", "rebootWait"} /\ pc = "rebootWait"
          /\ askDue' \in {askDue, Mono + CHECK_REBOOT_ALLOWED_INTERVAL}
      BY <1>8 DEF AskAgain
    <2>2. askDue' \in Nat
      BY <2>1, NowIs, Constants DEF TypeOK
    <2>3. QED
      BY <2>1, <2>2 DEF TypeOK, built, clock, context, readings
  <1>9. CASE AskOnDemand
    BY <1>9 DEF AskOnDemand, TypeOK, built, clock, timers, context, history, readings
  <1>10. ASSUME NEW answered \in BOOLEAN, PingEnds(answered)
         PROVE  TypeOK'
    <2>1. /\ lastUpdate' \in PartialComplexTime \cup {None}
          /\ {cached', stored'} \subseteq Int \cup {None}
          /\ {updateAt', cachedAt', storedAt'} \subseteq Reading \cup {None}
      BY <1>10, RenewTyped DEF PingEnds
    <2>2. timing' \in CheckTiming
      BY <1>10, <2>1, TimingTyped DEF PingEnds
    <2>3. /\ pc' = "rebootArming" /\ endedAt' = real
          /\ UNCHANGED <<built, clock, armedAt, due, reached, askDue, lastCheck, reported,
                         askedAt, checkAt>>
      BY <1>10 DEF PingEnds
    <2>4. QED
      BY <1>0, <2>1, <2>2, <2>3 DEF TypeOK, built, clock
  <1>11. CASE RebootFails \/ Stop
    <2>1. /\ timing' = None /\ armedAt' = 0 /\ due' = 0 /\ askDue' = 0 /\ askedAt' = 0
          /\ pc' \in {"scheduling", "off"}
          /\ UNCHANGED <<built, clock, stored, endedAt, storedAt>>
          /\ lastUpdate' \in {lastUpdate, None} /\ lastCheck' \in {lastCheck, None}
          /\ reported' \in {reported, None} /\ checkAt' \in {checkAt, None}
          /\ updateAt' \in {updateAt, None} /\ cached' \in {cached, stored}
          /\ cachedAt' \in {cachedAt, storedAt}
      BY <1>11 DEF RebootFails, Stop, LeaveRebootWait, DropTimers, context, readings
    <2>2. reached' \in BOOLEAN
      BY <1>11, Zenon DEF RebootFails, Stop, LeaveRebootWait, DropTimers
    <2>3. QED
      BY <2>1, <2>2 DEF TypeOK, built, clock
  <1>12. CASE Boot
    <2>1. GetTime \in PartialComplexTime \cup {None}
      <3>1. stored # None => FromMicros(stored) \in Int
        BY DEF TypeOK, FromMicros, NanosPerMicro
      <3>2. QED
        BY <3>1, PartialIs, TimeAssumption DEF GetTime, Wall
    <2>2. /\ pc' = "scheduling" /\ booted' = real /\ lastUpdate' = GetTime /\ lastCheck' = GetTime
          /\ updateAt' = storedAt
          /\ UNCHANGED <<built, real, offset, timers, cached, stored, reported, endedAt, askedAt,
                         checkAt, cachedAt, storedAt>>
      BY <1>12 DEF Boot
    <2>3. QED
      BY <2>1, <2>2, NowIs DEF TypeOK, built, timers
  <1>13. CASE Tick
    <2>1. reached' \in BOOLEAN
      BY <1>13, Zenon DEF Tick, Watch
    <2>2. real' \in Nat /\ booted \in 0..real'
      BY <1>13, NowIs, Constants DEF Tick
    <2>3. QED
      BY <1>13, <2>1, <2>2 DEF Tick, TypeOK, built, context, history, readings
  <1>14. ASSUME NEW o \in Offsets, SetClock(o)
         PROVE  TypeOK'
    <2>1. reached' \in BOOLEAN
      BY <1>14, Zenon DEF SetClock, Watch
    <2>2. QED
      BY <1>14, <2>1 DEF SetClock, TypeOK, built, context, history, readings
  <1>15. CASE UNCHANGED vars
    BY <1>15 DEF vars, TypeOK, built, clock, timers, context, history, readings
  <1>16. CASE SavePoll
    <2>1. /\ lastUpdate' \in PartialComplexTime \cup {None}
          /\ {cached', stored'} \subseteq Int \cup {None}
          /\ {updateAt', cachedAt', storedAt'} \subseteq Reading \cup {None}
      BY <1>16, UpdateTyped DEF SavePoll, TypeOK
    <2>2. UNCHANGED <<built, pc, clock, timers, lastCheck, reported, endedAt, askedAt, checkAt>>
      BY <1>16 DEF SavePoll
    <2>3. QED
      BY <2>1, <2>2 DEF TypeOK, built, clock, timers
  <1>17. QED
    BY <1>1, <1>2, <1>3, <1>4, <1>5, <1>6, <1>7, <1>8, <1>9, <1>10, <1>11, <1>12, <1>13,
       <1>14, <1>15, <1>16 DEF Next, Progress

-----------------------------------------------------------------------------
(***************************************************************************)
(* What is known of the last check and the last update                     *)
(***************************************************************************)

\* What is saved of a time is near the reading it comes from, however often it
\* went through storage and whether or not it reaches the disk.
LEMMA UpdateKeeps ==
  ASSUME TypeOK, Clocks, NEW u \in PartialComplexTime \cup {None},
         NEW at \in Reading \cup {None}, Update(u, at),
         u # None => /\ at # None /\ u.wall # None
                     /\ \/ u.wall = at.real + at.offset
                        \/ Whole(u.wall) /\ Near(u.wall, at)
  PROVE  UpdateKnown'
  <1>0. UpdateKnown
    BY DEF Clocks
  <1>1. ASSUME cached' # None
        PROVE  cachedAt' # None /\ Near(FromMicros(cached'), cachedAt')
    <2>1. CASE UNCHANGED <<cached, cachedAt>>
      BY <1>0, <1>1, <2>1 DEF UpdateKnown
    <2>2. CASE /\ cached' = IF u = None THEN None ELSE ToMicrosSinceEpoch(u)
               /\ cachedAt' = IF cached' = None THEN None ELSE at
      <3>1. u # None /\ cached' = ToMicrosSinceEpoch(u) /\ cachedAt' = at /\ at # None
        BY <1>1, <2>2
      <3>2. u.wall \in Int
        BY <3>1, PartialHas
      <3>3. cached' = ToMicros(u.wall)
        BY <3>1 DEF ToMicrosSinceEpoch
      <3>4. /\ cached' \in Int
            /\ FromMicros(cached') - u.wall \in (-999)..999
            /\ Whole(u.wall) => FromMicros(cached') = u.wall
        <4> DEFINE w == u.wall
        <4>1. w \in Int /\ ToMicros(w) # None
          BY <1>1, <3>2, <3>3
        <4> HIDE DEF w
        <4>2. /\ ToMicros(w) \in Int
              /\ FromMicros(ToMicros(w)) - w \in (-999)..999
              /\ Whole(w) => FromMicros(ToMicros(w)) = w
          BY <4>1, MicrosKept
        <4>3. QED
          BY <3>3, <4>2 DEF w
      <3>5. at.real \in Int /\ at.offset \in Int
        BY <3>1 DEF Reading
      <3>6. CASE u.wall = at.real + at.offset
        BY <3>1, <3>4, <3>5, <3>6 DEF Near
      <3>7. CASE Whole(u.wall) /\ Near(u.wall, at)
        BY <3>1, <3>4, <3>7
      <3>8. QED
        BY <3>1, <3>6, <3>7
    <2>3. QED
      BY <2>1, <2>2, UpdateIs
  <1>2. ASSUME stored' # None
        PROVE  storedAt' # None /\ Near(FromMicros(stored'), storedAt')
    <2>1. CASE UNCHANGED <<stored, storedAt>>
      BY <1>0, <1>2, <2>1 DEF UpdateKnown
    <2>2. CASE stored' = cached' /\ storedAt' = cachedAt'
      BY <1>1, <1>2, <2>2
    <2>3. QED
      BY <2>1, <2>2, UpdateIs
  <1>3. lastUpdate' = u /\ updateAt' = at
    BY UpdateIs
  <1>4. QED
    BY <1>1, <1>2, <1>3 DEF UpdateKnown

\* So it is for what an unanswered check or ping leaves and an answered one
\* renews.
LEMMA RenewKnown ==
  ASSUME TypeOK, Clocks, NEW answered \in BOOLEAN,
         IF answered THEN Update(Now, Read) ELSE Update(lastUpdate, updateAt)
  PROVE  UpdateKnown'
  <1>1. CASE answered
    <2>1. Now \in PartialComplexTime /\ Read \in Reading /\ Read # None
      BY NowIs, NoneAssumption
    <2>2. Now.wall = Read.real + Read.offset /\ Now.wall # None
      BY NowIs, TimeAssumption DEF Read
    <2>3. Update(Now, Read)
      BY <1>1
    <2>4. QED
      BY <2>1, <2>2, <2>3, UpdateKeeps
  <1>2. CASE ~answered
    <2>1. lastUpdate \in PartialComplexTime \cup {None} /\ updateAt \in Reading \cup {None}
      BY DEF TypeOK
    <2>2. Update(lastUpdate, updateAt)
      BY <1>2
    <2>3. QED
      BY <2>1, <2>2, UpdateKeeps DEF Clocks, UpdateKnown
  <1>3. QED
    BY <1>1, <1>2

\* Neither a change of the clock nor a restart nor a failing storage falsifies
\* what is known.
LEMMA ClocksNext == TypeOK /\ Clocks /\ [Next]_vars => Clocks'
  <1> SUFFICES ASSUME TypeOK, Clocks, [Next]_vars
               PROVE  Clocks'
    OBVIOUS
  <1> DEFINE Later == {"checking", "askReboot", "rebootArming", "rebootWait", "pinging",
                       "rebooting"}
  <1>0. ReadBefore /\ CheckKnown /\ UpdateKnown
    BY DEF Clocks
  <1>1. ASSUME UNCHANGED <<booted, lastUpdate, lastCheck, cached, stored, readings>>,
               pc' \in Later => pc \in Later, pc' = "off" => pc = "off",
               real' \in Nat, real <= real'
        PROVE  Clocks'
    <2>1. CheckKnown'
      BY <1>0, <1>1 DEF CheckKnown, Near, readings
    <2>2. UpdateKnown'
      BY <1>0, <1>1 DEF UpdateKnown, readings
    <2>3. real \in Nat /\ (checkAt # None => checkAt.real \in Nat)
      BY DEF TypeOK, Reading
    <2>4. ReadBefore'
      BY <1>0, <1>1, <2>3 DEF ReadBefore, readings
    <2>5. QED
      BY <2>1, <2>2, <2>4 DEF Clocks
  <1>2. ASSUME ComputeTiming \/ MakeWait \/ TimerFires \/ TakeRequest \/ CheckRefused
               \/ MakeWaitToPing \/ AskOnDemand \/ PingBegins \/ RebootFails \/ UNCHANGED vars
        PROVE  Clocks'
    <2>1. UNCHANGED <<real, booted, lastUpdate, lastCheck, cached, stored, readings>>
      BY <1>2 DEF ComputeTiming, MakeWait, TimerFires, TakeRequest, CheckRefused,
                  MakeWaitToPing, AskOnDemand, PingBegins, RebootFails, vars, clock, context,
                  history
    <2>2. (pc' \in Later => pc \in Later) /\ (pc' = "off" => pc = "off")
      BY <1>2 DEF ComputeTiming, MakeWait, TimerFires, TakeRequest, CheckRefused,
                  MakeWaitToPing, AskOnDemand, PingBegins, RebootFails, vars
    <2>3. QED
      BY <1>1, <2>1, <2>2, NowIs
  <1>3. ASSUME NEW allowed \in BOOLEAN, AskReboot(allowed) \/ AskAgain(allowed)
        PROVE  Clocks'
    <2>1. UNCHANGED <<real, booted, lastUpdate, lastCheck, cached, stored, readings>>
      BY <1>3 DEF AskReboot, AskAgain, clock, context
    <2>2. (pc' \in Later => pc \in Later) /\ (pc' = "off" => pc = "off")
      BY <1>3 DEF AskReboot, AskAgain
    <2>3. QED
      BY <1>1, <2>1, <2>2, NowIs
  <1>4. CASE Tick
    <2>1. UNCHANGED <<booted, lastUpdate, lastCheck, cached, stored, readings, pc>>
      BY <1>4 DEF Tick, context, history
    <2>2. real' \in Nat /\ real <= real'
      BY <1>4, NowIs, Constants DEF Tick
    <2>3. QED
      BY <1>1, <2>1, <2>2
  <1>5. ASSUME NEW o \in Offsets, SetClock(o)
        PROVE  Clocks'
    <2>1. UNCHANGED <<real, booted, lastUpdate, lastCheck, cached, stored, readings, pc>>
      BY <1>5 DEF SetClock, context, history
    <2>2. QED
      BY <1>1, <2>1, NowIs
  <1>6. CASE CheckBegins
    <2>1. /\ lastCheck' = Now /\ checkAt' = Read /\ pc' = "checking"
          /\ UNCHANGED <<real, booted, lastUpdate, cached, stored, updateAt, cachedAt, storedAt>>
      BY <1>6 DEF CheckBegins, clock
    <2>2. checkAt' # None /\ checkAt'.real = real /\ Now.mono = real - booted
      BY <2>1, NowIs, NoneAssumption DEF Read
    <2>3. CheckKnown'
      BY <2>1, <2>2 DEF CheckKnown
    <2>4. UpdateKnown'
      BY <1>0, <2>1 DEF UpdateKnown
    <2>5. ReadBefore'
      BY <2>1, <2>2, NowIs DEF ReadBefore
    <2>6. QED
      BY <2>3, <2>4, <2>5 DEF Clocks
  \* The steps that save are those of a machine that has checked since it booted.
  <1>7. ASSUME UpdateKnown', pc \in Later, pc' # "off",
               UNCHANGED <<real, booted, lastCheck, checkAt>>
        PROVE  Clocks'
    <2>1. checkAt # None
      BY <1>0, <1>7 DEF ReadBefore
    <2>2. CheckKnown'
      BY <1>0, <1>7, <2>1 DEF CheckKnown
    <2>3. ReadBefore'
      BY <1>0, <1>7, <2>1 DEF ReadBefore
    <2>4. QED
      BY <1>7, <2>2, <2>3 DEF Clocks
  <1>8. ASSUME NEW answered \in BOOLEAN, PingEnds(answered)
               \/ (\E reboot \in BOOLEAN : CheckEnds(answered, reboot))
        PROVE  Clocks'
    <2>1. IF answered THEN Update(Now, Read) ELSE Update(lastUpdate, updateAt)
      BY <1>8 DEF PingEnds, CheckEnds
    <2>2. UpdateKnown'
      BY <2>1, RenewKnown
    <2>3. UNCHANGED <<real, booted, lastCheck, checkAt>> /\ pc \in Later /\ pc' # "off"
      BY <1>8 DEF PingEnds, CheckEnds, clock
    <2>4. QED
      BY <1>7, <2>2, <2>3
  <1>9. CASE SavePoll
    <2>1. UpdateKnown'
      BY <1>9, RenewKnown DEF SavePoll
    <2>2. UNCHANGED <<real, booted, lastCheck, checkAt>> /\ pc \in Later /\ pc' # "off"
      BY <1>9 DEF SavePoll, clock
    <2>3. QED
      BY <1>7, <2>1, <2>2
  <1>10. CASE Stop
    <2>1. /\ pc' = "off" /\ lastUpdate' = None /\ lastCheck' = None /\ checkAt' = None
          /\ cached' = stored /\ cachedAt' = storedAt
          /\ UNCHANGED <<real, booted, stored, storedAt>>
      BY <1>10 DEF Stop, clock
    <2>2. UpdateKnown' /\ CheckKnown'
      BY <1>0, <2>1 DEF UpdateKnown, CheckKnown
    <2>3. ReadBefore'
      BY <2>1 DEF ReadBefore
    <2>4. QED
      BY <2>2, <2>3 DEF Clocks
  <1>11. CASE Boot
    <2>1. /\ lastUpdate' = GetTime /\ lastCheck' = GetTime /\ updateAt' = storedAt
          /\ checkAt = None /\ pc' = "scheduling"
          /\ UNCHANGED <<cached, stored, checkAt, cachedAt, storedAt>>
      BY <1>0, <1>11 DEF Boot, ReadBefore
    <2>2. ASSUME GetTime # None
          PROVE  /\ GetTime.mono = None /\ storedAt # None
                 /\ GetTime.wall # None /\ Whole(GetTime.wall) /\ Near(GetTime.wall, storedAt)
      <3>1. stored \in Int /\ stored # None /\ GetTime = Wall(FromMicros(stored))
        BY <2>2 DEF GetTime, TypeOK
      <3>2. FromMicros(stored) \in Int
        BY <3>1 DEF FromMicros, NanosPerMicro
      <3>3. GetTime.wall = FromMicros(stored) /\ GetTime.mono = None
        BY <3>1 DEF Wall
      <3>4. QED
        BY <1>0, <3>1, <3>2, <3>3, TimeAssumption DEF Whole, UpdateKnown
    <2>3. CheckKnown'
      BY <2>1, <2>2 DEF CheckKnown, Near
    <2>4. UpdateKnown'
      BY <1>0, <2>1, <2>2 DEF UpdateKnown
    <2>5. ReadBefore'
      BY <2>1 DEF ReadBefore
    <2>6. QED
      BY <2>3, <2>4, <2>5 DEF Clocks
  <1>12. QED
    BY <1>2, <1>3, <1>4, <1>5, <1>6, <1>8, <1>9, <1>10, <1>11 DEF Next, Progress

\* Before the first check nothing is known.
LEMMA ClocksInit == Init => Clocks
  BY DEF Init, Clocks, ReadBefore, CheckKnown, UpdateKnown

\* Every reachable state is typed, and what it knows of the last check and of
\* the last update is true.
LEMMA Correct == Spec => [](TypeOK /\ Clocks)
  <1>1. QED
    BY TypeInit, ClocksInit, TypeNext, ClocksNext, PTL DEF Spec

\* Every reachable state is typed: no wait without a timing, no negative
\* interval, and no time without a clock.
THEOREM TypeCorrect == Spec => []TypeOK
  <1>1. QED
    BY Correct, PTL

-----------------------------------------------------------------------------
(***************************************************************************)
(* The minimum wait                                                        *)
(***************************************************************************)

\* Timers are set after what they follow, and what ends while they run is not
\* a check, a ping or a refusal.
LEMMA ArmedNext == TypeOK /\ Armed /\ [Next]_vars => Armed'
  <1> SUFFICES ASSUME TypeOK, Armed, [Next]_vars
               PROVE  Armed'
    OBVIOUS
  <1>0. /\ real \in Nat /\ booted \in Nat /\ booted <= real /\ Mono \in Nat
        /\ endedAt \in Nat /\ endedAt <= real /\ armedAt \in Nat
    BY NowIs DEF TypeOK, Armed
  <1>1. ASSUME UNCHANGED <<real, booted, armedAt, endedAt>>,
               pc' \in {"waiting", "rebootWait"} => pc' = pc
        PROVE  Armed'
    BY <1>0, <1>1 DEF Armed
  <1>2. ASSUME real' \in Nat, real <= real', endedAt' \in {endedAt, real},
               pc' \notin {"waiting", "rebootWait"}
        PROVE  Armed'
    BY <1>0, <1>2 DEF Armed
  <1>3. CASE MakeWait \/ MakeWaitToPing
    <2>1. SetTimers(timing) /\ UNCHANGED <<real, booted, endedAt>>
      BY <1>3 DEF MakeWait, MakeWaitToPing, clock, history
    <2>2. armedAt' = real - booted
      BY <2>1 DEF SetTimers, Mono
    <2>3. QED
      BY <1>0, <2>1, <2>2 DEF Armed
  <1>4. CASE ComputeTiming \/ TimerFires \/ TakeRequest \/ CheckRefused \/ CheckBegins
             \/ AskOnDemand \/ PingBegins \/ RebootFails \/ Stop \/ Boot \/ SavePoll
    <2>1. UNCHANGED real /\ endedAt' \in {endedAt, real}
      BY <1>4 DEF ComputeTiming, TimerFires, TakeRequest, CheckRefused, CheckBegins,
                  AskOnDemand, PingBegins, RebootFails, Stop, Boot, SavePoll, clock, history
    <2>2. pc' \notin {"waiting", "rebootWait"}
      BY <1>4 DEF ComputeTiming, TimerFires, TakeRequest, CheckRefused, CheckBegins,
                  AskOnDemand, PingBegins, RebootFails, Stop, Boot, SavePoll
    <2>3. QED
      BY <1>0, <1>2, <2>1, <2>2
  <1>5. ASSUME NEW answered \in BOOLEAN, PingEnds(answered)
               \/ (\E reboot \in BOOLEAN : CheckEnds(answered, reboot))
        PROVE  Armed'
    <2>1. UNCHANGED real /\ endedAt' = real /\ pc' \notin {"waiting", "rebootWait"}
      BY <1>5 DEF PingEnds, CheckEnds, clock
    <2>2. QED
      BY <1>0, <1>2, <2>1
  <1>6. ASSUME NEW allowed \in BOOLEAN, AskReboot(allowed) \/ AskAgain(allowed)
        PROVE  Armed'
    <2>1. UNCHANGED <<real, booted, armedAt, endedAt>>
      BY <1>6 DEF AskReboot, AskAgain, clock
    <2>2. pc' \in {"waiting", "rebootWait"} => pc' = pc
      BY <1>6 DEF AskReboot, AskAgain
    <2>3. QED
      BY <1>1, <2>1, <2>2
  <1>7. CASE Tick
    <2>1. UNCHANGED <<pc, booted, armedAt, endedAt>> /\ real' \in Nat /\ real <= real'
      BY <1>0, <1>7, Constants DEF Tick, history
    <2>2. QED
      BY <1>0, <2>1 DEF Armed
  <1>8. ASSUME NEW o \in Offsets, SetClock(o)
        PROVE  Armed'
    BY <1>1, <1>8 DEF SetClock, history
  <1>9. CASE UNCHANGED vars
    BY <1>1, <1>9 DEF vars, clock, timers, history
  <1>10. QED
    BY <1>3, <1>4, <1>5, <1>6, <1>7, <1>8, <1>9 DEF Next, Progress

\* The timer starts no check and no ping before the minimum wait has passed
\* since the last check, ping or refusal was over, for any policy and timer and
\* whatever happens to the wall clock.
THEOREM ChecksAreApart == Spec => ChecksApart
  <1> DEFINE Apart == (TimerFires \/ PingBegins) /\ timing.wait # None
                        => real - endedAt >= timing.wait
  <1>1. Init => Armed
    BY DEF Init, Armed
  <1>2. TypeOK /\ Armed => Apart
    <2> SUFFICES ASSUME TypeOK, Armed, TimerFires \/ PingBegins, timing.wait # None
                 PROVE  real - endedAt >= timing.wait
      OBVIOUS
    <2>1. pc \in {"waiting", "rebootWait"} /\ ForOver
      BY DEF TimerFires, PingBegins, WaitOver
    <2>2. timing.wait \in Nat
      BY <2>1 DEF TypeOK, CheckTiming
    <2>3. real - booted >= armedAt + timing.wait
      BY <2>1 DEF ForOver, Mono
    <2>4. endedAt <= booted + armedAt /\ endedAt \in Nat /\ armedAt \in Nat
      BY <2>1 DEF Armed, TypeOK
    <2>5. QED
      BY <2>2, <2>3, <2>4, NowIs
  <1>3. TypeOK /\ Armed => [Apart]_vars
    BY <1>2
  <1>4. QED
    BY <1>1, <1>3, ArmedNext, TypeCorrect, PTL DEF Spec, ChecksApart

-----------------------------------------------------------------------------
(***************************************************************************)
(* The question for a reboot                                               *)
(***************************************************************************)

\* A positive number of steps is at least one step.
LEMMA WholeSteps ==
  ASSUME NEW n \in Int, n * Step > 0
  PROVE  n * Step >= Step
  <1>1. Step \in Nat \ {0} /\ n * Step \in Int
    BY Constants
  <1>2. n >= 1
    <2>1. ASSUME n <= 0 PROVE FALSE
      <3>1. n * Step <= 0
        BY <1>1, <2>1
      <3>2. QED
        BY <1>1, <3>1
    <2>2. QED
      BY <2>1
  <1>3. (n - 1) * Step >= 0
    BY <1>1, <1>2
  <1>4. n * Step = (n - 1) * Step + Step
    BY <1>1
  <1>5. QED
    BY <1>1, <1>3, <1>4

\* Neither a ping nor a request nor a change of the clock starts the wait for
\* reboot_allowed anew.
LEMMA AskingNext == TypeOK /\ Asking /\ [Next]_vars => Asking'
  <1> SUFFICES ASSUME TypeOK, Asking, [Next]_vars
               PROVE  Asking'
    OBVIOUS
  <1> DEFINE Waits == {"rebootArming", "rebootWait", "pinging"}
  <1>0. /\ real \in Nat /\ booted \in Nat /\ booted <= real
        /\ askDue \in Nat /\ askedAt \in Nat /\ Step \in Nat
        /\ CHECK_REBOOT_ALLOWED_INTERVAL \in Nat
    BY NowIs, Constants DEF TypeOK
  <1>1. ASSUME UNCHANGED <<real, booted, askDue, askedAt>>, pc' \in Waits => pc \in Waits
        PROVE  Asking'
    BY <1>1 DEF Asking, Mono
  <1>2. ASSUME pc' \notin Waits
        PROVE  Asking'
    BY <1>2 DEF Asking
  <1>3. ASSUME UNCHANGED <<real, booted>>, askedAt' = real,
               askDue' = Mono + CHECK_REBOOT_ALLOWED_INTERVAL
        PROVE  Asking'
    <2>1. askDue' = askedAt' - booted' + CHECK_REBOOT_ALLOWED_INTERVAL
      BY <1>0, <1>3 DEF Mono
    <2>2. PICK n \in 1..CHECK_REBOOT_ALLOWED_INTERVAL :
            CHECK_REBOOT_ALLOWED_INTERVAL = n * Step
      BY StepAssumption
    <2>3. askDue' - Mono' = n * Step
      BY <1>0, <1>3, <2>2 DEF Mono
    <2>4. n \in Int
      OBVIOUS
    <2>5. QED
      BY <2>1, <2>3, <2>4 DEF Asking
  <1>4. CASE ComputeTiming \/ MakeWait \/ TimerFires \/ TakeRequest \/ CheckRefused
             \/ CheckBegins \/ AskOnDemand \/ RebootFails \/ Stop \/ Boot
    <2>1. pc' \notin Waits
      BY <1>4 DEF ComputeTiming, MakeWait, TimerFires, TakeRequest, CheckRefused,
                  CheckBegins, AskOnDemand, RebootFails, Stop, Boot
    <2>2. QED
      BY <1>2, <2>1
  <1>5. ASSUME NEW answered \in BOOLEAN, NEW reboot \in BOOLEAN, CheckEnds(answered, reboot)
        PROVE  Asking'
    <2>1. pc' \notin Waits
      BY <1>5 DEF CheckEnds
    <2>2. QED
      BY <1>2, <2>1
  <1>6. ASSUME NEW allowed \in BOOLEAN, AskReboot(allowed)
        PROVE  Asking'
    <2>1. CASE allowed
      <3>1. pc' \notin Waits
        BY <1>6, <2>1 DEF AskReboot
      <3>2. QED
        BY <1>2, <3>1
    <2>2. CASE ~allowed
      BY <1>3, <1>6, <2>2 DEF AskReboot, clock
    <2>3. QED
      BY <2>1, <2>2
  <1>7. ASSUME NEW allowed \in BOOLEAN, AskAgain(allowed)
        PROVE  Asking'
    <2>1. CASE allowed
      <3>1. pc' \notin Waits
        BY <1>7, <2>1 DEF AskAgain
      <3>2. QED
        BY <1>2, <3>1
    <2>2. CASE ~allowed
      BY <1>3, <1>7, <2>2 DEF AskAgain, clock
    <2>3. QED
      BY <2>1, <2>2
  <1>8. CASE \/ MakeWaitToPing \/ PingBegins \/ SavePoll
             \/ \E answered \in BOOLEAN : PingEnds(answered)
    <2>1. UNCHANGED <<real, booted, askDue, askedAt>> /\ (pc \in Waits \/ pc' = pc)
      BY <1>8 DEF MakeWaitToPing, PingBegins, SavePoll, PingEnds, clock, timers, history
    <2>2. QED
      BY <1>1, <2>1
  <1>9. CASE Tick
    <2>1. real' = real + Step /\ UNCHANGED <<pc, booted, askDue, askedAt>>
      BY <1>9 DEF Tick, history
    <2> SUFFICES ASSUME pc \in Waits
                 PROVE  /\ askDue = askedAt - booted + CHECK_REBOOT_ALLOWED_INTERVAL
                        /\ \E n \in Int : askDue - Mono' = n * Step
      BY <2>1 DEF Asking
    <2>2. PICK n \in Int : askDue - Mono = n * Step
      BY DEF Asking
    <2>3. askDue - Mono' = (n - 1) * Step
      <3>1. Mono' = Mono + Step /\ Mono \in Nat
        BY <1>0, <2>1, NowIs DEF Mono
      <3>2. (n - 1) * Step = n * Step - Step
        BY <1>0
      <3>3. QED
        BY <1>0, <2>2, <3>1, <3>2
    <2>4. n - 1 \in Int
      OBVIOUS
    <2>5. QED
      BY <2>3, <2>4 DEF Asking
  <1>10. ASSUME NEW o \in Offsets, SetClock(o)
         PROVE  Asking'
    BY <1>1, <1>10 DEF SetClock, history
  <1>11. CASE UNCHANGED vars
    BY <1>1, <1>11 DEF vars, clock, timers, history
  <1>12. QED
    BY <1>4, <1>5, <1>6, <1>7, <1>8, <1>9, <1>10, <1>11 DEF Next, Progress

\* Once the interval has passed since the policy last refused a reboot, the
\* machine does not go on waiting but asks again, whatever pings, requests and
\* changes of the clock came in between.
THEOREM RebootIsAskedInTime == Spec => AskedInTime
  <1> DEFINE InTime == pc = "rebootWait" /\ real' > real
                         => real' - askedAt <= CHECK_REBOOT_ALLOWED_INTERVAL
  <1>1. Init => Asking
    BY DEF Init, Asking
  <1>2. TypeOK /\ Asking /\ [Next]_vars => [InTime]_vars
    <2> SUFFICES ASSUME TypeOK, Asking, [Next]_vars, pc = "rebootWait", real' > real
                 PROVE  real' - askedAt <= CHECK_REBOOT_ALLOWED_INTERVAL
      OBVIOUS
    <2>1. real \in Nat /\ Mono \in Nat /\ booted \in Nat
      BY NowIs
    <2>2. Tick
      <3>1. real' = real \/ Tick
        BY DEF Next, Progress, ComputeTiming, MakeWait, TimerFires, TakeRequest, CheckRefused,
               CheckBegins, CheckEnds, AskReboot, AskAgain, MakeWaitToPing, AskOnDemand,
               PingBegins, PingEnds, RebootFails, Stop, Boot, SetClock, SavePoll, vars, clock
      <3>2. QED
        BY <2>1, <3>1
    <2>3. ~(Mono >= askDue) /\ real' = real + Step
      BY <2>2 DEF Tick, Due
    <2>4. PICK n \in Int : askDue - Mono = n * Step
      BY DEF Asking
    <2>5. /\ askDue \in Nat /\ askedAt \in Nat /\ Step \in Nat
          /\ CHECK_REBOOT_ALLOWED_INTERVAL \in Nat
      BY Constants DEF TypeOK
    <2>6. n * Step > 0
      BY <2>1, <2>3, <2>4, <2>5
    <2>7. askDue - Mono >= Step
      BY <2>4, <2>6, WholeSteps
    <2>8. askDue = askedAt - booted + CHECK_REBOOT_ALLOWED_INTERVAL
      BY DEF Asking
    <2>9. QED
      BY <2>1, <2>3, <2>5, <2>7, <2>8 DEF Mono
  <1>3. QED
    BY <1>1, <1>2, AskingNext, TypeCorrect, PTL DEF Spec, AskedInTime

-----------------------------------------------------------------------------
(***************************************************************************)
(* The interval that is reported                                           *)
(***************************************************************************)

\* The difference of two wall times is that of their readings, but for what
\* storing one of them has cut off.
LEMMA NearDifference ==
  ASSUME NEW now \in Int, NEW last \in Int, NEW r \in Int, NEW o \in Int,
         NEW cr \in Int, NEW co \in Int,
         now = r + o, last - (cr + co) \in (-999)..999
  PROVE  /\ now - last - ((r - cr) + o - co) \in (-999)..999
         /\ now < last => (r - cr) + o - co < 1000
  <1> DEFINE cut == last - (cr + co)
  <1>1. cut \in Int /\ -999 <= cut /\ cut <= 999
    OBVIOUS
  <1>2. last = cut + (cr + co)
    OBVIOUS
  <1> HIDE DEF cut
  <1>3. now - last - ((r - cr) + o - co) = -cut
    BY <1>1, <1>2
  <1>4. now < last => (r - cr) + o - co < cut
    BY <1>1, <1>2
  <1>5. QED
    BY <1>1, <1>3, <1>4

\* What the interval is measured from, the time that has passed since then, and
\* what the wall clock shows of it.
Since == IF checkAt # None THEN checkAt ELSE storedAt
Passed == real - Since.real
Shown == Passed + offset - Since.offset

\* Within the boot of the last check the interval is what has passed.
LEMMA IntervalWithinBoot ==
  ASSUME TypeOK, Clocks, lastCheck # None, checkAt # None
  PROVE  CheckInterval = [interval |-> Passed, clock |-> "Monotonic"]
  <1>1. lastCheck.mono = checkAt.real - booted
    BY DEF Clocks, CheckKnown
  <1>2. checkAt.real \in Nat
    BY DEF TypeOK, Reading
  <1>3. Now.mono = real - booted /\ real \in Nat /\ booted \in Nat
    BY NowIs
  <1>4. lastCheck.mono # None
    BY <1>1, <1>2, <1>3, TimeAssumption
  <1>5. CheckInterval = [interval |-> Now.mono - lastCheck.mono, clock |-> "Monotonic"]
    BY <1>4 DEF CheckInterval
  <1>6. Now.mono - lastCheck.mono = Passed
    BY <1>1, <1>2, <1>3 DEF Passed, Since
  <1>7. QED
    BY <1>5, <1>6

\* After a restart it is what the wall clock shows, if that makes sense.
LEMMA IntervalAfterRestart ==
  ASSUME TypeOK, Clocks, lastCheck # None, checkAt = None, storedAt # None
  PROVE  \/ CheckInterval = None /\ Shown < NanosPerMicro
         \/ /\ CheckInterval # None
            /\ CheckInterval.clock = "Wall"
            /\ CheckInterval.interval - Shown \in (-999)..999
  <1> DEFINE now == Now.wall
             last == lastCheck.wall
             cr == storedAt.real
             co == storedAt.offset
  <1>1. lastCheck.mono = None /\ last # None /\ Near(last, storedAt)
    BY DEF Clocks, CheckKnown
  <1>2. last \in Int
    BY <1>1, PartialHas DEF TypeOK
  <1>3. cr \in Int /\ co \in Int
    BY DEF TypeOK, Reading
  <1>4. now = real + offset /\ real \in Int /\ offset \in Int
    BY NowIs
  <1>5. last - (cr + co) \in (-999)..999
    BY <1>1 DEF Near
  <1>6. Shown = (real - cr) + offset - co
    BY DEF Shown, Passed, Since
  <1>7. CheckInterval = IF now < last THEN None ELSE [interval |-> now - last, clock |-> "Wall"]
    BY <1>1 DEF CheckInterval, WallDurationSince
  <1> HIDE DEF now, last, cr, co
  <1>8. now \in Int
    BY <1>4
  <1>9. now - last - Shown \in (-999)..999 /\ (now < last => Shown < 1000)
    BY <1>2, <1>3, <1>4, <1>5, <1>6, <1>8, NearDifference
  <1>10. CASE now < last
    BY <1>7, <1>9, <1>10 DEF NanosPerMicro
  <1>11. CASE ~(now < last)
    <2>1. now - last \in Nat
      BY <1>2, <1>8, <1>11
    <2>2. [interval |-> now - last, clock |-> "Wall"] \in UpdateCheckInterval
      BY <2>1 DEF UpdateCheckInterval, ClockType
    <2>3. CheckInterval # None
      BY <1>7, <1>11, <2>2, NoneAssumption
    <2>4. CheckInterval.clock = "Wall" /\ CheckInterval.interval = now - last
      BY <1>7, <1>11
    <2>5. QED
      BY <1>9, <2>3, <2>4
  <1>12. QED
    BY <1>10, <1>11

\* The interval between checks that is reported is, within a boot, exactly the
\* time since the last check began, and after a restart, to the microsecond,
\* what the wall clock shows since the answer that the storage has kept, by the
\* clock that it names and whichever saves have failed.
THEOREM ReportedIntervalIsReal == Spec => IntervalIsReal
  <1> DEFINE IsReal == pc = "deciding" /\ pc' = "checking" /\ lastCheck # None =>
                         IF checkAt # None
                           THEN reported' = [interval |-> Passed, clock |-> "Monotonic"]
                           ELSE \/ reported' = None /\ Shown < NanosPerMicro
                                \/ /\ reported' # None
                                   /\ reported'.clock = "Wall"
                                   /\ reported'.interval - Shown \in (-999)..999
  <1>1. TypeOK /\ Clocks /\ [Next]_vars => IsReal
    <2> SUFFICES ASSUME TypeOK, Clocks, [Next]_vars, pc = "deciding", pc' = "checking",
                        lastCheck # None
                 PROVE  IF checkAt # None
                          THEN reported' = [interval |-> Passed, clock |-> "Monotonic"]
                          ELSE \/ reported' = None /\ Shown < NanosPerMicro
                               \/ /\ reported' # None
                                  /\ reported'.clock = "Wall"
                                  /\ reported'.interval - Shown \in (-999)..999
      OBVIOUS
    <2>1. CheckBegins
      BY DEF Next, Progress, ComputeTiming, MakeWait, TimerFires, TakeRequest, CheckRefused,
             CheckEnds, AskReboot, AskAgain, MakeWaitToPing, AskOnDemand,
             PingBegins, PingEnds, RebootFails, Stop, Boot, Tick, SetClock, SavePoll, vars
    <2>2. reported' = CheckInterval
      BY <2>1 DEF CheckBegins
    <2>3. CASE checkAt # None
      BY <2>2, <2>3, IntervalWithinBoot
    <2>4. CASE checkAt = None
      BY <2>2, <2>4, IntervalAfterRestart DEF Clocks, CheckKnown
    <2>5. QED
      BY <2>3, <2>4
  <1>2. TypeOK /\ Clocks /\ [Next]_vars => [IsReal]_vars
    BY <1>1
  <1>3. QED
    BY <1>2, Correct, PTL DEF Spec, IntervalIsReal, Since, Passed, Shown

=============================================================================
