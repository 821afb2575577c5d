---------------------------- MODULE ComplexTime ----------------------------
(***************************************************************************)
(* ComplexTime and PartialComplexTime (time.rs, time/complex.rs): times on *)
(* the wall clock, which may be set, and on the monotonic clock, which     *)
(* starts anew with every boot; and the microseconds since the epoch that  *)
(* wall times are stored as.                                               *)
(*                                                                         *)
(* A time on either clock is a number of nanoseconds: on the wall clock    *)
(* since the epoch, and negative before it.                                *)
(***************************************************************************)
EXTENDS Integers

CONSTANTS
    None,           \* Option::None
    MaxMicros       \* i64::MAX

ASSUME TimeAssumption == None \notin Int /\ MaxMicros \in Nat

Timelines == {"wall", "mono"}

ComplexTime == [wall : Int, mono : Int]

\* At least one of the timelines has a value.
PartialComplexTime ==
    {t \in [wall : Int \cup {None}, mono : Int \cup {None}] :
       \E c \in Timelines : t[c] # None}

\* From<SystemTime>, From<Instant> and From<ComplexTime>
Wall(w) == [wall |-> w, mono |-> None]
Monotonic(m) == [wall |-> None, mono |-> m]
Complex(w, m) == [wall |-> w, mono |-> m]

\* Add<Duration>: on each timeline that has a value.
Plus(t, d) ==
    [wall |-> IF t.wall = None THEN None ELSE t.wall + d,
     mono |-> IF t.mono = None THEN None ELSE t.mono + d]

\* Mutant: every bound has to be reached.
IsAfterOrEqAll(now, t) ==
    \A c \in Timelines : t[c] # None => now[c] >= t[c]

\* is_after_or_eq_any: at least one of the bounds has been reached.
IsAfterOrEqAny(now, t) ==
    \E c \in Timelines : t[c] # None /\ now[c] >= t[c]

\* complete_with: an unknown time is taken from now.
CompleteWith(t, now) ==
    [wall |-> IF t.wall = None THEN now.wall ELSE t.wall,
     mono |-> IF t.mono = None THEN now.mono ELSE t.mono]

NanosPerMicro == 1000

\* Mutant: a remainder counts as a whole microsecond before the epoch, and
\* is lost after it.
ToMicrosOneMore(w) ==
    IF w >= 0 THEN w \div NanosPerMicro ELSE -((-w) \div NanosPerMicro) - 1

\* checked_system_time_to_micros_from_epoch: whole microseconds towards the
\* epoch, from either side of it; None on overflow.
ToMicros(w) ==
    LET whole == IF w >= 0 THEN w \div NanosPerMicro ELSE (-w) \div NanosPerMicro
    IN IF whole > MaxMicros THEN None ELSE IF w >= 0 THEN whole ELSE -whole

\* micros_from_epoch_to_system_time
FromMicros(m) == m * NanosPerMicro

\* checked_to_micros_since_epoch: of the wall time, if there is one.
ToMicrosSinceEpoch(t) == IF t.wall = None THEN None ELSE ToMicros(t.wall)
=============================================================================
