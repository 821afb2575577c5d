-------------------------- MODULE MockServerProofs --------------------------
(***************************************************************************)
(* Proofs about RequestBuilder and MockServer: the entries of a builder    *)
(* are what any sequence of calls asks for, and what the client reads in   *)
(* an answer is what some configuration promises.                          *)
(***************************************************************************)
EXTENDS MockServer, TLAPS, FiniteSetTheorems, SequenceTheorems, FunctionTheorems,
        NaturalsInduction, WellFoundedInduction

-----------------------------------------------------------------------------
(***************************************************************************)
(* Positions                                                               *)
(***************************************************************************)

\* A position lies among the number of positions.
LEMMA PositionBounds ==
  ASSUME NEW S \in SUBSET Nat, IsFiniteSet(S), NEW i \in S
  PROVE  Position(S, i) \in 1..Cardinality(S)
  <1> DEFINE B == {j \in S : j <= i}
  <1>1. IsFiniteSet(B) /\ Cardinality(B) <= Cardinality(S)
    BY FS_Subset
  <1>2. Cardinality(B) \in Nat /\ Cardinality(S) \in Nat
    BY <1>1, FS_CardinalityType
  <1>3. Cardinality(B) # 0
    <2>1. i \in B
      OBVIOUS
    <2>2. QED
      BY <1>1, <2>1, FS_EmptySet
  <1>4. Position(S, i) = Cardinality(B)
    BY DEF Position
  <1> HIDE DEF B
  <1>5. QED
    BY <1>1, <1>2, <1>3, <1>4

\* The larger one has the later position.
LEMMA PositionGrows ==
  ASSUME NEW S \in SUBSET Nat, IsFiniteSet(S), NEW i \in S, NEW j \in S, i < j
  PROVE  Position(S, i) < Position(S, j)
  <1> DEFINE B(k) == {m \in S : m <= k}
  <1>1. IsFiniteSet(B(j)) /\ B(i) \subseteq B(j) /\ j \in B(j) /\ j \notin B(i)
    <2>1. i \in Nat /\ j \in Nat /\ \A m \in S : m \in Nat
      OBVIOUS
    <2>2. IsFiniteSet(B(j))
      BY FS_Subset
    <2>3. B(i) \subseteq B(j) /\ j \in B(j) /\ j \notin B(i)
      <3>1. j <= j /\ ~(j <= i) /\ \A m \in S : m <= i => m <= j
        BY <2>1
      <3>2. QED
        BY <3>1, Zenon
    <2>4. QED
      BY <2>2, <2>3
  <1>2. Cardinality(B(i)) <= Cardinality(B(j)) /\ Cardinality(B(i)) # Cardinality(B(j))
    BY <1>1, FS_Subset
  <1>3. Cardinality(B(i)) \in Nat /\ Cardinality(B(j)) \in Nat
    BY <1>1, FS_Subset, FS_CardinalityType
  <1>4. Position(S, i) = Cardinality(B(i)) /\ Position(S, j) = Cardinality(B(j))
    BY DEF Position
  <1> HIDE DEF B
  <1>5. QED
    BY <1>2, <1>3, <1>4

\* No two are at the same position, and every position is taken.
LEMMA PositionBijective ==
  ASSUME NEW S \in SUBSET Nat, IsFiniteSet(S)
  PROVE  /\ \A i, j \in S : Position(S, i) = Position(S, j) => i = j
         /\ \A n \in 1..Cardinality(S) : \E i \in S : Position(S, i) = n
  <1> DEFINE N == Cardinality(S)
             f == [i \in S |-> Position(S, i)]
  <1>1. \A i \in S : Position(S, i) \in 1..N
    BY PositionBounds
  <1>2. N \in Nat
    BY FS_CardinalityType
  <1>3. \A i, j \in S : Position(S, i) = Position(S, j) => i = j
    <2> SUFFICES ASSUME NEW i \in S, NEW j \in S, Position(S, i) = Position(S, j)
                 PROVE  i = j
      OBVIOUS
    <2>1. Position(S, i) \in Nat /\ Position(S, j) \in Nat
      BY <1>1, <1>2
    <2>2. ~(i < j) /\ ~(j < i)
      BY <2>1, PositionGrows
    <2>3. QED
      BY <2>2
  <1>4. IsFiniteSet(1..N) /\ Cardinality(1..N) = N
    BY <1>2, FS_Interval
  <1>5. f \in Injection(S, 1..N)
    BY <1>1, <1>3 DEF Injection, IsInjective
  <1> HIDE DEF N, f
  <1>6. f \in Surjection(S, 1..N)
    BY <1>4, <1>5, FS_Injection DEF N
  <1>7. \A n \in 1..N : \E i \in S : f[i] = n
    BY <1>6 DEF Surjection
  <1>8. QED
    BY <1>3, <1>7 DEF N, f

\* The n-th is the one at position n.
LEMMA NthIs ==
  ASSUME NEW S \in SUBSET Nat, IsFiniteSet(S)
  PROVE  /\ \A n \in 1..Cardinality(S) : Nth(S, n) \in S /\ Position(S, Nth(S, n)) = n
         /\ \A i \in S : Nth(S, Position(S, i)) = i
  <1>1. ASSUME NEW n \in 1..Cardinality(S)
        PROVE  Nth(S, n) \in S /\ Position(S, Nth(S, n)) = n
    <2>1. \E i \in S : Position(S, i) = n
      BY PositionBijective
    <2>2. QED
      BY <2>1, Zenon DEF Nth
  <1>2. ASSUME NEW i \in S
        PROVE  Nth(S, Position(S, i)) = i
    <2>1. Position(S, i) \in 1..Cardinality(S)
      BY PositionBounds
    <2> DEFINE c == Nth(S, Position(S, i))
    <2>2. c \in S /\ Position(S, c) = Position(S, i)
      BY <1>1, <2>1
    <2> HIDE DEF c
    <2>3. c = i
      BY <2>2, PositionBijective
    <2>4. QED
      BY <2>3 DEF c
  <1>3. QED
    BY <1>1, <1>2

\* A set of positions that a last one is added to.
LEMMA NthAdded ==
  ASSUME NEW k \in Nat, NEW S \in SUBSET (1..k)
  PROVE  LET T == S \cup {k + 1}
         IN /\ IsFiniteSet(S) /\ Cardinality(S) \in Nat
            /\ Cardinality(T) = Cardinality(S) + 1
            /\ \A n \in 1..Cardinality(S) : Nth(S, n) \in S /\ Nth(T, n) = Nth(S, n)
            /\ Nth(T, Cardinality(S) + 1) = k + 1
  <1> DEFINE T == S \cup {k + 1}
  <1>1. IsFiniteSet(S) /\ Cardinality(S) \in Nat /\ S \in SUBSET Nat
    <2>1. IsFiniteSet(1..k)
      BY FS_Interval
    <2>2. IsFiniteSet(S)
      BY <2>1, FS_Subset
    <2>3. QED
      BY <2>2, FS_CardinalityType
  <1>2. k + 1 \notin S
    OBVIOUS
  <1>3. IsFiniteSet(T) /\ Cardinality(T) = Cardinality(S) + 1 /\ T \in SUBSET Nat
    BY <1>1, <1>2, FS_AddElement
  <1>4. ASSUME NEW n \in 1..Cardinality(S)
        PROVE  Nth(S, n) \in S /\ Nth(T, n) = Nth(S, n)
    <2> DEFINE i == Nth(S, n)
    <2>1. i \in S /\ Position(S, i) = n
      BY <1>1, NthIs
    <2> HIDE DEF i
    <2>2. {j \in T : j <= i} = {j \in S : j <= i}
      BY <2>1
    <2>3. Position(T, i) = n
      BY <2>1, <2>2 DEF Position
    <2>4. Nth(T, Position(T, i)) = i
      BY <1>3, <2>1, NthIs
    <2>5. QED
      BY <2>1, <2>3, <2>4 DEF i
  <1>5. Nth(T, Cardinality(S) + 1) = k + 1
    <2>0. \A j \in T : j <= k + 1
      OBVIOUS
    <2>1. {j \in T : j <= k + 1} = T
      BY <2>0, Zenon
    <2>2. Position(T, k + 1) = Cardinality(S) + 1
      BY <1>3, <2>1 DEF Position
    <2>3. Nth(T, Position(T, k + 1)) = k + 1
      BY <1>3, NthIs
    <2>4. QED
      BY <2>2, <2>3
  <1>6. QED
    BY <1>1, <1>3, <1>4, <1>5

-----------------------------------------------------------------------------
(***************************************************************************)
(* What calls ask for                                                      *)
(***************************************************************************)

\* A further call, at the end of the others.
LEMMA Appended ==
  ASSUME NEW cs \in Seq(Call), NEW c \in Call
  PROVE  LET more == Append(cs, c)
         IN /\ Len(cs) \in Nat
            /\ more \in Seq(Call)
            /\ Len(more) = Len(cs) + 1
            /\ \A i \in 1..Len(cs) : more[i] = cs[i] /\ cs[i] \in Call
            /\ more[Len(cs) + 1] = c
  OBVIOUS

\* It is one more of the calls about its app id and of its kind.
LEMMA CallsForMore ==
  ASSUME NEW cs \in Seq(Call), NEW c \in Call, NEW id, NEW what
  PROVE  /\ CallsFor(cs, id, what) \subseteq 1..Len(cs)
         /\ CallsFor(Append(cs, c), id, what) =
              IF c.app.id = id /\ c.what = what
                THEN CallsFor(cs, id, what) \cup {Len(cs) + 1}
                ELSE CallsFor(cs, id, what)
  <1> DEFINE more == Append(cs, c)
             k == Len(cs)
  <1>1. /\ k \in Nat
        /\ Len(more) = k + 1
        /\ \A i \in 1..k : more[i] = cs[i]
        /\ more[k + 1] = c
    BY Appended
  <1>2. 1..(k + 1) = (1..k) \cup {k + 1}
    BY <1>1
  <1> HIDE DEF more, k
  <1>3. \A i : i \in CallsFor(more, id, what) <=>
                \/ i \in CallsFor(cs, id, what)
                \/ i = k + 1 /\ c.app.id = id /\ c.what = what
    BY <1>1, <1>2 DEF CallsFor, k
  <1>4. QED
    BY <1>3 DEF CallsFor, more, k

\* It is a first call if its app id is new.
LEMMA FirstCallsMore ==
  ASSUME NEW cs \in Seq(Call), NEW c \in Call
  PROVE  /\ FirstCalls(cs) \subseteq 1..Len(cs)
         /\ FirstCalls(Append(cs, c)) =
              IF \E i \in 1..Len(cs) : cs[i].app.id = c.app.id
                THEN FirstCalls(cs)
                ELSE FirstCalls(cs) \cup {Len(cs) + 1}
  <1> DEFINE more == Append(cs, c)
             k == Len(cs)
  <1>1. /\ k \in Nat
        /\ Len(more) = k + 1
        /\ \A i \in 1..k : more[i] = cs[i]
        /\ more[k + 1] = c
    BY Appended
  <1> HIDE DEF more, k
  <1>2. 1..(k + 1) = (1..k) \cup {k + 1} /\ (k + 1) - 1 = k /\ k + 1 \notin 1..k
    BY <1>1
  <1>3. ASSUME NEW i \in 1..k
        PROVE  i \in FirstCalls(more) <=> i \in FirstCalls(cs)
    <2>1. \A j \in 1..(i - 1) : j \in 1..k
      BY <1>1
    <2>2. \A j \in 1..(i - 1) : more[j] = cs[j]
      BY <1>1, <2>1
    <2>3. i \in 1..Len(more) /\ more[i] = cs[i] /\ i \in 1..Len(cs)
      BY <1>1, <1>2 DEF k
    <2>4. QED
      BY <2>2, <2>3, Zenon DEF FirstCalls
  <1>4. k + 1 \in FirstCalls(more) <=> ~\E j \in 1..k : cs[j].app.id = c.app.id
    <2>1. k + 1 \in 1..Len(more)
      BY <1>1
    <2>2. k + 1 \in FirstCalls(more) <=> \A j \in 1..k : more[j].app.id # c.app.id
      BY <1>1, <1>2, <2>1 DEF FirstCalls
    <2>3. QED
      BY <1>1, <2>2
  <1>5. FirstCalls(more) \subseteq (1..k) \cup {k + 1} /\ FirstCalls(cs) \subseteq 1..k
    BY <1>1, <1>2 DEF FirstCalls, k
  <1>6. CASE \E j \in 1..k : cs[j].app.id = c.app.id
    <2>1. FirstCalls(more) = FirstCalls(cs)
      BY <1>3, <1>4, <1>5, <1>6
    <2>2. QED
      BY <1>5, <1>6, <2>1 DEF more, k
  <1>7. CASE ~\E j \in 1..k : cs[j].app.id = c.app.id
    <2>1. FirstCalls(more) = FirstCalls(cs) \cup {k + 1}
      BY <1>3, <1>4, <1>5, <1>7
    <2>2. QED
      BY <1>5, <1>7, <2>1 DEF more, k
  <1>8. QED
    BY <1>6, <1>7

\* First calls are about different app ids, and every id has one.
LEMMA FirstCallsAre ==
  ASSUME NEW cs \in Seq(Call)
  PROVE  /\ \A i, j \in FirstCalls(cs) : cs[i].app.id = cs[j].app.id => i = j
         /\ \A i \in 1..Len(cs) : \E j \in FirstCalls(cs) : cs[j].app.id = cs[i].app.id
  <1>0. Len(cs) \in Nat
    OBVIOUS
  <1>1. ASSUME NEW i \in FirstCalls(cs), NEW j \in FirstCalls(cs),
               cs[i].app.id = cs[j].app.id
        PROVE  i = j
    <2>1. /\ i \in Nat /\ j \in Nat /\ i >= 1 /\ j >= 1
          /\ \A m \in 1..(i - 1) : cs[m].app.id # cs[i].app.id
          /\ \A m \in 1..(j - 1) : cs[m].app.id # cs[j].app.id
      BY <1>0 DEF FirstCalls
    <2>2. ~(i < j) /\ ~(j < i)
      BY <1>1, <2>1
    <2>3. QED
      BY <2>1, <2>2
  <1>2. ASSUME NEW i \in 1..Len(cs)
        PROVE  \E j \in FirstCalls(cs) : cs[j].app.id = cs[i].app.id
    <2> DEFINE S == {j \in 1..Len(cs) : cs[j].app.id = cs[i].app.id}
    <2>1. S \subseteq Nat /\ S # {}
      OBVIOUS
    <2>2. PICK j \in S : \A m \in S : ~(<<m, j>> \in OpToRel(<, Nat))
      BY <2>1, NatLessThanWellFounded, WFMin, Zenon
    <2>3. \A m \in S : ~(m < j)
      BY <2>1, <2>2, Zenon DEF OpToRel
    <2>4. \A m \in 1..(j - 1) : m \in 1..Len(cs) /\ m < j
      BY <1>0
    <2>5. j \in FirstCalls(cs)
      BY <2>3, <2>4, Zenon DEF FirstCalls
    <2>6. QED
      BY <2>5
  <1>3. QED
    BY <1>1, <1>2

\* The events asked for are a sequence of events, in the order of the calls.
LEMMA EventsForMore ==
  ASSUME NEW cs \in Seq(Call), NEW c \in Call, NEW id
  PROVE  /\ EventsFor(cs, id) \in Seq(Events)
         /\ EventsFor(Append(cs, c), id) =
              IF c.app.id = id /\ c.what = "event" THEN Append(EventsFor(cs, id), c.event)
                                                   ELSE EventsFor(cs, id)
  <1> DEFINE more == Append(cs, c)
             k == Len(cs)
             P == CallsFor(cs, id, "event")
             Q == CallsFor(more, id, "event")
             N == Cardinality(P)
             es == [n \in 1..N |-> cs[Nth(P, n)].event]
             fs == [n \in 1..Cardinality(Q) |-> more[Nth(Q, n)].event]
  <1>0. EventsFor(cs, id) = es /\ EventsFor(more, id) = fs
    BY Zenon DEF EventsFor
  <1>1. /\ k \in Nat
        /\ \A i \in 1..k : more[i] = cs[i] /\ cs[i] \in Call
        /\ more[k + 1] = c
    BY Appended
  <1>2. /\ P \subseteq 1..k
        /\ Q = IF c.app.id = id /\ c.what = "event" THEN P \cup {k + 1} ELSE P
    BY CallsForMore
  <1>3. \A i \in P : cs[i].event \in Events
    <2>1. \A call \in Call : call.what = "event" => call.event \in Events
      BY DEF Call
    <2>2. QED
      BY <1>1, <2>1 DEF CallsFor
  <1> HIDE DEF more, k, P, Q
  <1>4. /\ N \in Nat
        /\ Cardinality(P \cup {k + 1}) = N + 1
        /\ \A n \in 1..N : Nth(P, n) \in P /\ Nth(P \cup {k + 1}, n) = Nth(P, n)
        /\ Nth(P \cup {k + 1}, N + 1) = k + 1
    BY <1>1, <1>2, NthAdded
  <1> HIDE DEF N
  <1>5. es \in Seq(Events) /\ Len(es) = N
    BY <1>3, <1>4
  <1>6. CASE c.app.id = id /\ c.what = "event"
    <2>1. Q = P \cup {k + 1}
      BY <1>2, <1>6
    <2>2. DOMAIN fs = 1..(N + 1)
      BY <1>4, <2>1
    <2>3. ASSUME NEW n \in 1..N
          PROVE  fs[n] = es[n]
      <3>1. Nth(Q, n) = Nth(P, n) /\ Nth(P, n) \in 1..k /\ n \in 1..(N + 1)
        <4>1. n \in 1..(N + 1)
          BY <1>4
        <4>2. Nth(P, n) \in P /\ Nth(P \cup {k + 1}, n) = Nth(P, n)
          BY <1>4
        <4>3. QED
          BY <1>2, <2>1, <4>1, <4>2
      <3>2. fs[n] = more[Nth(P, n)].event
        BY <2>2, <3>1
      <3>3. QED
        BY <1>1, <3>1, <3>2
    <2>4. fs[N + 1] = c.event
      BY <1>1, <1>4, <2>1
    <2> HIDE DEF es, fs
    <2>5. Append(es, c.event) = [n \in 1..(N + 1) |-> IF n = N + 1 THEN c.event ELSE es[n]]
      BY <1>4, <1>5
    <2>6. fs = [n \in 1..(N + 1) |-> fs[n]]
      BY <2>2 DEF fs
    <2>7. fs = Append(es, c.event)
      <3>1. \A n \in 1..(N + 1) : n = N + 1 \/ n \in 1..N
        BY <1>4
      <3>2. \A n \in 1..(N + 1) : fs[n] = IF n = N + 1 THEN c.event ELSE es[n]
        BY <2>3, <2>4, <3>1
      <3>3. QED
        BY <2>5, <2>6, <3>2
    <2>8. QED
      BY <1>0, <1>5, <1>6, <2>7 DEF more
  <1>7. CASE ~(c.app.id = id /\ c.what = "event")
    <2>1. Q = P
      BY <1>2, <1>7
    <2>2. \A n \in 1..N : more[Nth(P, n)] = cs[Nth(P, n)]
      BY <1>1, <1>2, <1>4
    <2>3. fs = es
      BY <2>1, <2>2 DEF N
    <2>4. QED
      BY <1>0, <1>5, <1>7, <2>3 DEF more
  <1>8. QED
    BY <1>6, <1>7

\* What a call does to an entry, kind by kind.
LEMMA ModifyIs ==
  ASSUME NEW e, NEW c
  PROVE  /\ c.what = "check" => Modify(e, c) = [e EXCEPT !.check = UpdateCheck(params)]
         /\ c.what = "ping" => Modify(e, c) = [e EXCEPT !.ping = TRUE]
         /\ c.what = "event" => Modify(e, c) = [e EXCEPT !.events = Append(@, c.event)]
  BY Zenon DEF Modify

\* An entry of which one field is changed.
LEMMA EntryChanged ==
  ASSUME NEW a, NEW x, NEW y, NEW z, NEW w
  PROVE  LET e == [app |-> a, check |-> x, ping |-> y, events |-> z]
         IN /\ [e EXCEPT !.ping = w] = [app |-> a, check |-> x, ping |-> w, events |-> z]
            /\ [e EXCEPT !.events = w] = [app |-> a, check |-> x, ping |-> y, events |-> w]
  OBVIOUS

\* A call about another app id changes nothing for an app, and one about its
\* own what insert_and_modify_entry does to its entry.
LEMMA AskedOfMore ==
  ASSUME NEW cs \in Seq(Call), NEW c \in Call, NEW app
  PROVE  /\ c.app.id # app.id => AskedOf(Append(cs, c), params, app) = AskedOf(cs, params, app)
         /\ c.app.id = app.id =>
              AskedOf(Append(cs, c), params, app) = Modify(AskedOf(cs, params, app), c)
  <1> DEFINE more == Append(cs, c)
             old == AskedOf(cs, params, app)
             new == AskedOf(more, params, app)
  <1>0. ASSUME NEW id, NEW what
        PROVE  CallsFor(more, id, what) =
                 IF c.app.id = id /\ c.what = what
                   THEN CallsFor(cs, id, what) \cup {Len(cs) + 1}
                   ELSE CallsFor(cs, id, what)
    BY CallsForMore
  <1>1. ASSUME NEW what
        PROVE  (CallsFor(more, app.id, what) # {}) <=>
                 \/ CallsFor(cs, app.id, what) # {}
                 \/ c.app.id = app.id /\ c.what = what
    BY <1>0
  <1>2. EventsFor(more, app.id) =
          IF c.app.id = app.id /\ c.what = "event" THEN Append(EventsFor(cs, app.id), c.event)
                                                   ELSE EventsFor(cs, app.id)
    BY EventsForMore
  <1>3. c.what \in {"check", "ping", "event"}
    BY DEF Call
  <1> DEFINE entry(check, ping, events) ==
               [app |-> app, check |-> IF check THEN UpdateCheck(params) ELSE None,
                ping |-> ping, events |-> events]
             checks == CallsFor(cs, app.id, "check") # {}
             pings == CallsFor(cs, app.id, "ping") # {}
             events == EventsFor(cs, app.id)
  <1>4. old = entry(checks, pings, events)
    BY Zenon DEF AskedOf
  <1>5. new = entry(CallsFor(more, app.id, "check") # {}, CallsFor(more, app.id, "ping") # {},
                    EventsFor(more, app.id))
    BY Zenon DEF AskedOf
  <1> HIDE DEF more, old, new, checks, pings, events
  <1>6. new = entry(checks \/ (c.app.id = app.id /\ c.what = "check"),
                    pings \/ (c.app.id = app.id /\ c.what = "ping"),
                    IF c.app.id = app.id /\ c.what = "event" THEN Append(events, c.event)
                                                             ELSE events)
    BY <1>1, <1>2, <1>5 DEF checks, pings, events
  <1>7. CASE c.app.id # app.id
    <2>1. new = entry(checks, pings, events)
      BY <1>6, <1>7 DEF checks, pings
    <2>2. QED
      BY <1>4, <1>7, <2>1 DEF more, old, new
  <1>8. CASE c.app.id = app.id /\ c.what = "check"
    <2>1. new = entry(TRUE, pings, events)
      BY <1>6, <1>8 DEF pings
    <2>2. new = [old EXCEPT !.check = UpdateCheck(params)]
      BY <1>4, <2>1
    <2>3. QED
      BY <1>8, <2>2, ModifyIs DEF more, old, new
  <1>9. CASE c.app.id = app.id /\ c.what = "ping"
    <2>1. new = entry(checks, TRUE, events)
      BY <1>6, <1>9 DEF checks
    <2>2. new = [old EXCEPT !.ping = TRUE]
      <3> DEFINE X == IF checks THEN UpdateCheck(params) ELSE None
                 e == [app |-> app, check |-> X, ping |-> pings, events |-> events]
      <3>1. old = e /\ new = [app |-> app, check |-> X, ping |-> TRUE, events |-> events]
        BY <1>4, <2>1, Zenon
      <3> HIDE DEF X
      <3>2. PICK w : w = TRUE
        BY Zenon
      <3>3. [e EXCEPT !.ping = w] = [app |-> app, check |-> X, ping |-> w, events |-> events]
        BY EntryChanged
      <3>4. QED
        BY <3>1, <3>2, <3>3, Zenon
    <2>3. QED
      BY <1>9, <2>2, ModifyIs DEF more, old, new
  <1>10. CASE c.app.id = app.id /\ c.what = "event"
    <2>1. new = entry(checks, pings, Append(events, c.event))
      BY <1>6, <1>10 DEF checks, pings
    <2>2. new = [old EXCEPT !.events = Append(@, c.event)]
      <3> DEFINE X == IF checks THEN UpdateCheck(params) ELSE None
                 e == [app |-> app, check |-> X, ping |-> pings, events |-> events]
                 w == Append(events, c.event)
      <3>1. old = e /\ new = [app |-> app, check |-> X, ping |-> pings, events |-> w]
        BY <1>4, <2>1, Zenon
      <3>2. Append(old.events, c.event) = w
        BY <3>1
      <3> HIDE DEF X, w
      <3>3. [e EXCEPT !.events = w] =
              [app |-> app, check |-> X, ping |-> pings, events |-> w]
        BY EntryChanged
      <3>4. QED
        BY <3>1, <3>2, <3>3, Zenon
    <2>3. QED
      BY <1>10, <2>2, ModifyIs DEF more, old, new
  <1>11. QED
    BY <1>3, <1>7, <1>8, <1>9, <1>10

\* Nothing is asked for an app of which no call is.
LEMMA AskedOfNone ==
  ASSUME NEW cs \in Seq(Call), NEW app, \A i \in 1..Len(cs) : cs[i].app.id # app.id
  PROVE  AskedOf(cs, params, app) = NewEntry(app)
  <1>1. \A what : CallsFor(cs, app.id, what) = {}
    BY DEF CallsFor
  <1>2. EventsFor(cs, app.id) = <<>>
    <2>1. Cardinality(CallsFor(cs, app.id, "event")) = 0
      BY <1>1, FS_EmptySet
    <2>2. QED
      BY <2>1 DEF EventsFor
  <1>3. QED
    BY <1>1, <1>2 DEF AskedOf, NewEntry

\* Append as a function.
LEMMA AppendIs ==
  ASSUME NEW E, NEW s \in Seq(E), NEW x
  PROVE  Append(s, x) = [n \in 1..(Len(s) + 1) |-> IF n = Len(s) + 1 THEN x ELSE s[n]]
  <1> DEFINE T == E \cup {x}
             N == Len(s)
             a == Append(s, x)
             t == [n \in 1..(N + 1) |-> IF n = N + 1 THEN x ELSE s[n]]
  <1>1. s \in Seq(T) /\ N \in Nat /\ x \in T /\ \A n \in 1..N : s[n] \in T
    OBVIOUS
  <1> HIDE DEF T, N
  <1>2. /\ a \in Seq(T) /\ Len(a) = N + 1
        /\ \A n \in 1..N : a[n] = s[n]
        /\ a[N + 1] = x
    BY <1>1, AppendProperties DEF N
  <1>3. \A n \in 1..(N + 1) : n = N + 1 \/ n \in 1..N
    BY <1>1
  <1>4. t \in Seq(T) /\ Len(t) = N + 1
    BY <1>1, <1>3
  <1>5. \A n \in 1..(N + 1) : a[n] = t[n]
    BY <1>2, <1>3
  <1> HIDE DEF a, t
  <1>6. a = t
    BY <1>2, <1>4, <1>5, SeqEqual
  <1>7. QED
    BY <1>6 DEF a, t, N

\* What is asked for, app by app, in the order of the first calls.
LEMMA AskedIs ==
  ASSUME NEW cs \in Seq(Call), NEW p
  PROVE  LET F == FirstCalls(cs)
             N == Cardinality(F)
         IN /\ F \subseteq 1..Len(cs) /\ IsFiniteSet(F) /\ N \in Nat /\ F \in SUBSET Nat
            /\ Asked(cs, p) = [n \in 1..N |-> AskedOf(cs, p, cs[Nth(F, n)].app)]
            /\ Len(Asked(cs, p)) = N
            /\ \E E : Asked(cs, p) \in Seq(E)
            /\ \A n \in 1..N : /\ Nth(F, n) \in F /\ Nth(F, n) \in 1..Len(cs)
                               /\ Asked(cs, p)[n] = AskedOf(cs, p, cs[Nth(F, n)].app)
                               /\ Asked(cs, p)[n].app = cs[Nth(F, n)].app
  <1> DEFINE F == FirstCalls(cs)
             N == Cardinality(F)
             A == Asked(cs, p)
  <1>1. F \subseteq 1..Len(cs) /\ Len(cs) \in Nat
    BY DEF FirstCalls
  <1>2. IsFiniteSet(F) /\ N \in Nat /\ F \in SUBSET Nat
    <2>1. IsFiniteSet(1..Len(cs))
      BY <1>1, FS_Interval
    <2>2. IsFiniteSet(F)
      BY <1>1, <2>1, FS_Subset
    <2>3. QED
      BY <1>1, <2>2, FS_CardinalityType
  <1>3. A = [n \in 1..N |-> AskedOf(cs, p, cs[Nth(F, n)].app)]
    BY DEF Asked
  <1>4. \A n \in 1..N : Nth(F, n) \in F
    BY <1>2, NthIs
  <1> HIDE DEF F, N, A
  <1>5. \A n \in 1..N : A[n] = AskedOf(cs, p, cs[Nth(F, n)].app)
    BY <1>3
  <1>6. \A n \in 1..N : A[n].app = cs[Nth(F, n)].app
    <2>1. \A app : AskedOf(cs, p, app).app = app
      BY DEF AskedOf
    <2>2. QED
      BY <1>5, <2>1
  <1>7. A \in Seq({A[n] : n \in 1..N}) /\ Len(A) = N
    <2>1. A \in [1..N -> {A[n] : n \in 1..N}]
      BY <1>3
    <2>2. QED
      BY <1>2, <2>1
  <1>8. QED
    BY <1>1, <1>2, <1>3, <1>4, <1>5, <1>6, <1>7 DEF F, N, A

\* A call about a new app id is put after the others.
LEMMA AskedNew ==
  ASSUME NEW cs \in Seq(Call), NEW c \in Call,
         \A i \in 1..Len(cs) : cs[i].app.id # c.app.id
  PROVE  Asked(Append(cs, c), params) = InsertAndModify(Asked(cs, params), c)
  <1> DEFINE more == Append(cs, c)
             k == Len(cs)
             F == FirstCalls(cs)
             N == Cardinality(F)
             A == Asked(cs, params)
             B == Asked(more, params)
             e == Modify(NewEntry(c.app), c)
  <1>1. /\ k \in Nat /\ more \in Seq(Call)
        /\ \A i \in 1..k : more[i] = cs[i] /\ cs[i] \in Call
        /\ more[k + 1] = c
    BY Appended
  <1>2. /\ F \subseteq 1..k /\ N \in Nat
        /\ Len(A) = N
        /\ \E E : A \in Seq(E)
        /\ \A n \in 1..N : /\ Nth(F, n) \in F /\ Nth(F, n) \in 1..k
                           /\ A[n] = AskedOf(cs, params, cs[Nth(F, n)].app)
                           /\ A[n].app = cs[Nth(F, n)].app
    BY AskedIs
  <1>3. FirstCalls(more) = F \cup {k + 1}
    BY FirstCallsMore
  <1>4. /\ Cardinality(F \cup {k + 1}) = N + 1
        /\ \A n \in 1..N : Nth(F \cup {k + 1}, n) = Nth(F, n)
        /\ Nth(F \cup {k + 1}, N + 1) = k + 1
    BY <1>1, <1>2, NthAdded
  <1>5. B = [n \in 1..(N + 1) |-> AskedOf(more, params, more[Nth(F \cup {k + 1}, n)].app)]
    <2>1. B = [n \in 1..Cardinality(FirstCalls(more)) |->
                 AskedOf(more, params, more[Nth(FirstCalls(more), n)].app)]
      BY DEF Asked
    <2>2. QED
      BY <1>3, <1>4, <2>1
  <1>6. ASSUME NEW app, c.app.id # app.id
        PROVE  AskedOf(more, params, app) = AskedOf(cs, params, app)
    BY <1>6, AskedOfMore
  <1>7. AskedOf(more, params, c.app) = e
    <2>1. AskedOf(cs, params, c.app) = NewEntry(c.app)
      BY AskedOfNone
    <2>2. QED
      BY <2>1, AskedOfMore
  <1>8. Places(A, c.app.id) = {}
    BY <1>2 DEF Places
  <1>9. InsertAndModify(A, c) = Append(A, e)
    BY <1>8 DEF InsertAndModify
  <1> HIDE DEF more, k, F, N, A, B, e
  <1>10. ASSUME NEW n \in 1..N
         PROVE  AskedOf(more, params, more[Nth(F \cup {k + 1}, n)].app) = A[n]
    <2>1. more[Nth(F \cup {k + 1}, n)] = cs[Nth(F, n)] /\ Nth(F, n) \in 1..k
      BY <1>1, <1>2, <1>4
    <2>2. cs[Nth(F, n)].app.id # c.app.id
      BY <2>1 DEF k
    <2>3. QED
      BY <1>2, <1>6, <2>1, <2>2
  <1>11. Append(A, e) = [n \in 1..(N + 1) |-> IF n = N + 1 THEN e ELSE A[n]]
    <2>1. PICK E : A \in Seq(E)
      BY <1>2
    <2>2. N \in Nat /\ Len(A) = N
      BY <1>2
    <2>3. Append(A, e) = [n \in 1..(Len(A) + 1) |-> IF n = Len(A) + 1 THEN e ELSE A[n]]
      BY <2>1, AppendIs
    <2>4. QED
      BY <2>2, <2>3
  <1>12. ASSUME NEW n \in 1..(N + 1)
         PROVE  AskedOf(more, params, more[Nth(F \cup {k + 1}, n)].app)
                  = IF n = N + 1 THEN e ELSE A[n]
    <2>1. n = N + 1 \/ n \in 1..N
      BY <1>2
    <2>2. N + 1 \notin 1..N
      BY <1>2
    <2>3. QED
      BY <1>1, <1>4, <1>7, <1>10, <2>1, <2>2
  <1>13. B = Append(A, e)
    BY <1>5, <1>11, <1>12
  <1>14. QED
    BY <1>9, <1>13 DEF A, B, more

\* A call about an app id that was added before changes its one entry.
LEMMA AskedAgain ==
  ASSUME NEW cs \in Seq(Call), NEW c \in Call,
         \E i \in 1..Len(cs) : cs[i].app.id = c.app.id
  PROVE  Asked(Append(cs, c), params) = InsertAndModify(Asked(cs, params), c)
  <1> DEFINE more == Append(cs, c)
             k == Len(cs)
             F == FirstCalls(cs)
             N == Cardinality(F)
             A == Asked(cs, params)
             B == Asked(more, params)
  <1>1. /\ k \in Nat /\ more \in Seq(Call)
        /\ \A i \in 1..k : more[i] = cs[i] /\ cs[i] \in Call
    BY Appended
  <1>2. /\ F \subseteq 1..k /\ N \in Nat /\ IsFiniteSet(F) /\ F \in SUBSET Nat
        /\ A = [n \in 1..N |-> AskedOf(cs, params, cs[Nth(F, n)].app)]
        /\ Len(A) = N
        /\ \A n \in 1..N : /\ Nth(F, n) \in F /\ Nth(F, n) \in 1..k
                           /\ A[n] = AskedOf(cs, params, cs[Nth(F, n)].app)
                           /\ A[n].app = cs[Nth(F, n)].app
    BY AskedIs
  <1>3. FirstCalls(more) = F
    BY FirstCallsMore
  <1>4. B = [n \in 1..N |-> AskedOf(more, params, more[Nth(F, n)].app)]
    <2>1. B = [n \in 1..Cardinality(FirstCalls(more)) |->
                 AskedOf(more, params, more[Nth(FirstCalls(more), n)].app)]
      BY DEF Asked
    <2>2. QED
      BY <1>3, <2>1
  <1>5. PICK j \in F : cs[j].app.id = c.app.id
    BY FirstCallsAre
  <1> DEFINE q == Position(F, j)
  <1>6. q \in 1..N /\ Nth(F, q) = j
    BY <1>2, PositionBounds, NthIs
  <1>7. \A n \in 1..N : cs[Nth(F, n)].app.id = c.app.id <=> n = q
    <2> SUFFICES ASSUME NEW n \in 1..N
                 PROVE  cs[Nth(F, n)].app.id = c.app.id <=> n = q
      OBVIOUS
    <2>1. Nth(F, n) \in F /\ Position(F, Nth(F, n)) = n
      BY <1>2, NthIs
    <2>2. cs[Nth(F, n)].app.id = c.app.id => Nth(F, n) = j
      BY <1>5, <2>1, FirstCallsAre
    <2>3. QED
      BY <1>5, <1>6, <2>1, <2>2
  <1>8. ASSUME NEW app
        PROVE  /\ c.app.id # app.id => AskedOf(more, params, app) = AskedOf(cs, params, app)
               /\ c.app.id = app.id =>
                    AskedOf(more, params, app) = Modify(AskedOf(cs, params, app), c)
    BY AskedOfMore
  <1> HIDE DEF more, k, F, N, A, B, q
  <1>9. Places(A, c.app.id) = {q}
    BY <1>2, <1>6, <1>7 DEF Places
  <1>10. InsertAndModify(A, c) = [A EXCEPT ![q] = Modify(A[q], c)]
    <2>1. (CHOOSE i \in {q} : \A m \in {q} : i <= m) = q
      BY <1>2, <1>6
    <2>2. QED
      BY <1>9, <2>1 DEF InsertAndModify
  <1>11. ASSUME NEW n \in 1..N
         PROVE  AskedOf(more, params, more[Nth(F, n)].app)
                  = IF n = q THEN Modify(A[q], c) ELSE A[n]
    <2>1. more[Nth(F, n)] = cs[Nth(F, n)]
      BY <1>1, <1>2
    <2>2. QED
      BY <1>2, <1>6, <1>7, <1>8, <2>1
  <1>12. B = [n \in 1..N |-> IF n = q THEN Modify(A[q], c) ELSE A[n]]
    BY <1>4, <1>11
  <1>13. [A EXCEPT ![q] = Modify(A[q], c)]
           = [n \in 1..N |-> IF n = q THEN Modify(A[q], c) ELSE A[n]]
    BY <1>2, <1>6
  <1>14. QED
    BY <1>10, <1>12, <1>13 DEF A, B, more

-----------------------------------------------------------------------------
(***************************************************************************)
(* The builder                                                             *)
(***************************************************************************)

\* Every call is one of add_update_check, add_ping and add_event, and the
\* entries are what the calls so far ask for.
Built ==
    /\ params \in Params
    /\ calls \in Seq(Call)
    /\ EntriesAreWhatWasAdded

\* Without a call nothing is asked for.
LEMMA AskedOfNoCalls ==
  ASSUME NEW p
  PROVE  Asked(<<>>, p) = <<>>
  <1>1. FirstCalls(<<>>) = {}
    BY DEF FirstCalls
  <1>2. Cardinality(FirstCalls(<<>>)) = 0
    BY <1>1, FS_EmptySet
  <1>3. QED
    BY <1>2 DEF Asked

\* RequestBuilder::new has no entries.
LEMMA BuiltInit == Init => Built
  <1> SUFFICES ASSUME Init PROVE Built
    OBVIOUS
  <1>1. params \in Params /\ entries = <<>> /\ calls = <<>>
    BY DEF Init, New
  <1>2. QED
    BY <1>1, AskedOfNoCalls DEF Built, EntriesAreWhatWasAdded

\* Every call, in whatever order, keeps the entries what is asked for; building
\* a request, which clones them, leaves them alone.
LEMMA BuiltNext == Built /\ [Next]_vars => Built'
  <1> SUFFICES ASSUME Built, [Next]_vars
               PROVE  Built'
    OBVIOUS
  <1>0. params \in Params /\ calls \in Seq(Call) /\ entries = Asked(calls, params)
    BY DEF Built, EntriesAreWhatWasAdded
  <1>1. ASSUME NEW call \in Call, Add(call)
        PROVE  Built'
    <2>1. /\ entries' = InsertAndModify(entries, call)
          /\ calls' = Append(calls, call) /\ params' = params
      BY <1>1 DEF Add
    <2>2. InsertAndModify(Asked(calls, params), call) = Asked(Append(calls, call), params)
      BY <1>0, AskedNew, AskedAgain
    <2>3. entries' = Asked(calls', params')
      BY <1>0, <2>1, <2>2
    <2>4. calls' \in Seq(Call)
      BY <1>0, <2>1
    <2>5. QED
      BY <1>0, <2>1, <2>3, <2>4 DEF Built, EntriesAreWhatWasAdded
  <1>2. ASSUME NEW p \in Params, NewRequest(p)
        PROVE  Built'
    <2>1. params' = p /\ entries' = <<>> /\ calls' = <<>>
      BY <1>2 DEF NewRequest
    <2>2. QED
      BY <2>1, AskedOfNoCalls DEF Built, EntriesAreWhatWasAdded
  <1>3. CASE UNCHANGED <<params, entries, calls>>
    <2>1. entries' = Asked(calls', params')
      BY <1>0, <1>3
    <2>2. QED
      BY <1>0, <1>3, <2>1 DEF Built, EntriesAreWhatWasAdded
  <1>4. CASE Send
    BY <1>3, <1>4 DEF Send, Build
  <1>5. ASSUME NEW c, Configure(c)
        PROVE  Built'
    BY <1>3, <1>5 DEF Configure, builder
  <1>6. CASE Take \/ Respond \/ Receive
    BY <1>3, <1>6 DEF Take, Respond, Receive, builder
  <1>7. ASSUME NEW kind, Fail(kind)
        PROVE  Built'
    BY <1>3, <1>7 DEF Fail, builder
  <1>8. CASE UNCHANGED vars
    BY <1>3, <1>8 DEF vars, builder
  <1>9. QED
    BY <1>1, <1>2, <1>4, <1>5, <1>6, <1>7, <1>8
    DEF Next, SetResponses, SetAllUpdateCheckAssertions, SetAllCohortAssertions

\* The entries of a RequestBuilder are what its calls ask for: any number of
\* calls, of any apps, in any order.
THEOREM EntriesAreAsked == Spec => []EntriesAreWhatWasAdded
  <1>1. Built => EntriesAreWhatWasAdded
    BY DEF Built
  <1>2. QED
    BY <1>1, BuiltInit, BuiltNext, PTL DEF Spec

-----------------------------------------------------------------------------
(***************************************************************************)
(* The exchange                                                            *)
(***************************************************************************)

Configured(c) == \A id \in DOMAIN c : IsResponseAndMetadata(c[id])

\* The request is about the entries until another one is begun; the copy that
\* the handler works with is of a configuration in force since it was sent; and
\* an answer, and what is read in it, is about that copy.
Exchanged ==
    /\ stage \in {"none", "sent", "taken", "answered", "over"}
    /\ Configured(responses)
    /\ \A c \in since : Configured(c)
    /\ stage # "none" =>
         request.body.app = [i \in 1..Len(entries) |-> ProtocolApp(entries[i])]
    /\ stage \in {"sent", "taken"} => responses \in since
    /\ stage = "taken" => taken \in since
    /\ stage = "answered" =>
         \/ reply.kind \in {"status", "transport"}
         \/ taken \in since /\ Accepts(Apps, taken) /\ reply = Answer(Apps, taken)
    /\ stage = "over" =>
         \/ outcome.kind \in {"status", "transport", "timeout"}
         \/ /\ taken \in since /\ Accepts(Apps, taken)
            /\ outcome = ParseJsonResponse(Answer(Apps, taken))

\* Before the first request nothing is under way.
LEMMA ExchangedInit == Init => Exchanged
  BY ServerAssumption DEF Init, Exchanged, Configured

\* Changing an assertion of every app leaves a configuration.
LEMMA ReassertedIsConfigured ==
  ASSUME NEW c, Configured(c), NEW value
  PROVE  /\ value \in Assertions =>
              Configured([id \in DOMAIN c |-> [c[id] EXCEPT !.check_assertion = value]])
         /\ Configured([id \in DOMAIN c |-> [c[id] EXCEPT !.cohort_assertion = value]])
  BY DEF Configured, IsResponseAndMetadata

\* No step of client, server or network leaves the invariant.
LEMMA ExchangedNext == Exchanged /\ [Next]_vars => Exchanged'
  <1> SUFFICES ASSUME Exchanged, [Next]_vars
               PROVE  Exchanged'
    OBVIOUS
  <1>1. ASSUME NEW call \in Call, stage = "none", Add(call), UNCHANGED <<server, wire>>
        PROVE  Exchanged'
    BY <1>1 DEF server, wire, Exchanged
  <1>2. CASE Send
    <2>1. /\ stage' = "sent" /\ since' = {responses}
          /\ UNCHANGED <<responses, entries, params>>
          /\ request' = BuildIntermediate(requestId')
      BY <1>2 DEF Send, Build, server
    <2>2. request'.body.app = [i \in 1..Len(entries) |-> ProtocolApp(entries[i])]
      BY <2>1 DEF BuildIntermediate, Request
    <2>3. QED
      BY <2>1, <2>2 DEF Exchanged
  <1>3. ASSUME NEW p \in Params, NewRequest(p)
        PROVE  Exchanged'
    BY <1>3 DEF NewRequest, server, Exchanged
  <1>4. ASSUME NEW c, Configured(c), Configure(c)
        PROVE  Exchanged'
    BY <1>4 DEF Configure, builder, Exchanged
  <1>5. ASSUME NEW c \in Configurations, SetResponses(c)
        PROVE  Exchanged'
    <2>1. Configured(c)
      BY ServerAssumption DEF Configured
    <2>2. QED
      BY <1>4, <1>5, <2>1 DEF SetResponses
  <1>6. ASSUME NEW value \in Assertions, SetAllUpdateCheckAssertions(value)
        PROVE  Exchanged'
    <2>1. Configured(responses)
      BY DEF Exchanged
    <2>2. QED
      BY <1>4, <1>6, <2>1, ReassertedIsConfigured DEF SetAllUpdateCheckAssertions
  <1>7. ASSUME NEW value \in CohortAssertions, SetAllCohortAssertions(value)
        PROVE  Exchanged'
    <2>1. Configured(responses)
      BY DEF Exchanged
    <2>2. QED
      BY <1>4, <1>7, <2>1, ReassertedIsConfigured DEF SetAllCohortAssertions
  <1>8. CASE Take
    <2>1. [kind |-> "status"].kind = "status"
      OBVIOUS
    <2>2. QED
      BY <1>8, <2>1 DEF Take, builder, server, Exchanged
  <1>9. CASE Respond
    <2>1. /\ stage = "taken" /\ stage' = "answered"
          /\ reply' = IF Accepts(Apps, taken) THEN Answer(Apps, taken) ELSE [kind |-> "transport"]
          /\ UNCHANGED <<request, entries, responses, taken, since>>
      BY <1>9 DEF Respond, builder, server
    <2>2. Apps' = Apps
      BY <2>1 DEF Apps
    <2>3. \/ reply'.kind \in {"status", "transport"}
          \/ Accepts(Apps, taken) /\ reply' = Answer(Apps, taken)
      BY <2>1
    <2>4. QED
      BY <2>1, <2>2, <2>3 DEF Exchanged
  <1>10. CASE Receive
    <2>1. /\ stage = "answered" /\ stage' = "over"
          /\ outcome' = IF reply.kind = "ok" THEN ParseJsonResponse(reply) ELSE reply
          /\ UNCHANGED <<request, entries, responses, taken, since>>
      BY <1>10 DEF Receive, builder, server
    <2>2. Apps' = Apps
      BY <2>1 DEF Apps
    <2>3. Answer(Apps, taken).kind = "ok"
      BY DEF Answer
    <2>4. \/ outcome'.kind \in {"status", "transport"}
          \/ /\ taken \in since /\ Accepts(Apps, taken)
             /\ outcome' = ParseJsonResponse(Answer(Apps, taken))
      BY <2>1, <2>3 DEF Exchanged
    <2>5. QED
      BY <2>1, <2>2, <2>4 DEF Exchanged
  <1>11. ASSUME NEW kind \in {"transport", "timeout"}, Fail(kind)
         PROVE  Exchanged'
    <2>1. /\ stage \in {"sent", "taken", "answered"} /\ stage' = "over"
          /\ outcome'.kind = kind
          /\ UNCHANGED <<request, entries, responses, since>>
      BY <1>11 DEF Fail, builder, server
    <2>2. QED
      BY <2>1 DEF Exchanged
  <1>12. CASE UNCHANGED vars
    <2>1. UNCHANGED <<stage, responses, since, request, entries, taken, reply, outcome>>
      BY <1>12 DEF vars, builder, server, wire
    <2>2. Apps' = Apps
      BY <2>1 DEF Apps
    <2>3. QED
      BY <2>1, <2>2 DEF Exchanged
  <1>13. QED
    BY <1>1, <1>2, <1>3, <1>5, <1>6, <1>7, <1>8, <1>9, <1>10, <1>11, <1>12 DEF Next

-----------------------------------------------------------------------------
(***************************************************************************)
(* From end to end                                                         *)
(***************************************************************************)

\* What of an entry is on the wire.
LEMMA OnTheWire ==
  ASSUME NEW e
  PROVE  LET w == Serialize(ProtocolApp(e))
         IN /\ w.appid = e.app.id
            /\ "updatecheck" \in DOMAIN w <=> e.check # None
            /\ e.check # None => w.updatecheck = {f \in DOMAIN e.check : e.check[f]}
  <1> DEFINE a == ProtocolApp(e)
             present == {"appid", "version"}
                          \cup {f \in {"cohort", "updatecheck", "ping"} : a[f] # None}
                          \cup (IF a.event = <<>> THEN {} ELSE {"event"})
             flags(c) == {f \in DOMAIN c : c[f]}
             value(f) == CASE f = "updatecheck" -> flags(a[f])
                           [] f = "event" -> [i \in 1..Len(a[f]) |-> SerializeEvent(a[f][i])]
                           [] OTHER -> a[f]
  <1>1. a.appid = e.app.id /\ a.updatecheck = e.check
    BY DEF ProtocolApp
  <1>2. Serialize(a) = [f \in present |-> value(f)]
    BY Zenon DEF Serialize
  <1> HIDE DEF a
  <1>3. value("appid") = a.appid /\ value("updatecheck") = flags(a.updatecheck)
    BY Zenon
  <1>4. "appid" \in present /\ ("updatecheck" \in present <=> a.updatecheck # None)
    OBVIOUS
  <1> HIDE DEF present, value
  <1>5. /\ Serialize(a).appid = a.appid
        /\ DOMAIN Serialize(a) = present
        /\ a.updatecheck # None => Serialize(a).updatecheck = flags(a.updatecheck)
    BY <1>2, <1>3, <1>4
  <1>6. QED
    BY <1>1, <1>4, <1>5 DEF a

\* What the server answers for each kind of response.
LEMMA AnsweredIs ==
  ASSUME NEW x, IsResponseAndMetadata(x)
  PROVE  LET u == UpdateCheckAnswer(x)
         IN /\ x.response = "InvalidResponse" <=> "status" \notin DOMAIN u
            /\ x.response = "NoUpdate" => u.status = "noupdate" /\ FullUrls(u) = {}
            /\ x.response \notin {"NoUpdate", "InvalidResponse"} =>
                 /\ u.status = "ok"
                 /\ FullUrls(u) = {<<IF x.response = "InvalidURL" THEN InvalidCodebase
                                                               ELSE x.codebase,
                                     x.package_name>>}
  <1> DEFINE u == UpdateCheckAnswer(x)
             codebase == IF x.response = "InvalidURL" THEN InvalidCodebase ELSE x.codebase
             urgent == x.response = "UrgentUpdate"
  <1>0. x.response \in OmahaResponse
    BY DEF IsResponseAndMetadata
  <1>1. CASE x.response = "NoUpdate"
    <2>1. u = [status |-> "noupdate"]
      BY <1>1, Zenon DEF UpdateCheckAnswer
    <2>2. QED
      BY <1>1, <2>1 DEF FullUrls
  <1>2. CASE x.response = "InvalidResponse"
    <2>1. u = [invalid_status |-> "invalid"]
      BY <1>2, Zenon DEF UpdateCheckAnswer
    <2>2. QED
      BY <1>2, <2>1
  <1>3. CASE x.response \in {"Update", "UrgentUpdate", "InvalidURL"}
    <2>1. u = [status |-> "ok", codebase |-> codebase, package |-> x.package_name,
               urgent |-> urgent]
      BY <1>3, Zenon DEF UpdateCheckAnswer
    <2> HIDE DEF u, codebase, urgent
    <2>2. /\ DOMAIN u = {"status", "codebase", "package", "urgent"}
          /\ u.status = "ok" /\ u.codebase = codebase /\ u.package = x.package_name
      BY <2>1
    <2>3. FullUrls(u) = {<<codebase, x.package_name>>}
      BY <2>2 DEF FullUrls
    <2>4. QED
      BY <1>3, <2>2, <2>3 DEF u, codebase
  <1>4. QED
    BY <1>0, <1>1, <1>2, <1>3 DEF OmahaResponse

\* What the client has read is what the handler's copy promises.
LEMMA ReadIsPromised == Built /\ Exchanged => OfferedIsConfigured
  <1> SUFFICES ASSUME Built, Exchanged, stage = "over", outcome.kind = "parsed"
               PROVE  \E c \in since :
                        LET asked == Asked(calls, params)
                            checks == {n \in 1..Len(asked) : asked[n].check # None}
                        IN /\ \A n \in 1..Len(asked) : asked[n].app.id \in DOMAIN c
                           /\ checks # {} => Cardinality(checks) = Cardinality(DOMAIN c)
                           /\ \A n \in checks :
                                /\ c[asked[n].app.id].response # "InvalidResponse"
                                /\ params.disable =
                                     (c[asked[n].app.id].check_assertion = "UpdatesDisabled")
                           /\ outcome.apps = [n \in 1..Len(asked) |-> Promised(asked[n], c)]
    BY DEF OfferedIsConfigured
  <1> DEFINE asked == Asked(calls, params)
             N == Len(asked)
             checks == {n \in 1..N : asked[n].check # None}
             reply0 == Answer(Apps, taken)
  <1>1. /\ taken \in since /\ Accepts(Apps, taken) /\ Configured(taken)
        /\ outcome = ParseJsonResponse(reply0)
    BY DEF Exchanged
  <1>2. entries = asked /\ params \in Params /\ calls \in Seq(Call)
    BY DEF Built, EntriesAreWhatWasAdded
  <1>3. N \in Nat /\ \A n \in 1..N : asked[n].check \in {None, UpdateCheck(params)}
    <2>1. /\ N \in Nat /\ N = Cardinality(FirstCalls(calls))
          /\ \A n \in 1..N : \E app : asked[n] = AskedOf(calls, params, app)
      BY <1>2, AskedIs
    <2>2. \A app : AskedOf(calls, params, app).check \in {None, UpdateCheck(params)}
      BY DEF AskedOf
    <2> HIDE DEF asked
    <2>3. QED
      BY <2>1, <2>2
  <1> HIDE DEF asked, N
  <1>4. Len(Apps) = N /\ \A n \in 1..N : Apps[n] = Serialize(ProtocolApp(asked[n]))
    <2>1. request.body.app = [n \in 1..N |-> ProtocolApp(asked[n])]
      BY <1>2 DEF Exchanged, N
    <2>2. Len(request.body.app) = N
      BY <1>3, <2>1
    <2>3. Apps = [n \in 1..N |-> Serialize(request.body.app[n])]
      BY <2>2 DEF Apps
    <2>4. QED
      BY <1>3, <2>1, <2>3
  <1>5. ASSUME NEW n \in 1..N
        PROVE  /\ Apps[n].appid = asked[n].app.id
               /\ "updatecheck" \in DOMAIN Apps[n] <=> asked[n].check # None
               /\ asked[n].check # None => asked[n].check = UpdateCheck(params)
               /\ asked[n].check # None =>
                    Apps[n].updatecheck =
                      {f \in DOMAIN UpdateCheck(params) : UpdateCheck(params)[f]}
    BY <1>3, <1>4, OnTheWire
  <1>6. ASSUME NEW n \in 1..N
        PROVE  /\ asked[n].app.id \in DOMAIN taken
               /\ IsResponseAndMetadata(taken[asked[n].app.id])
               /\ asked[n].check # None =>
                    params.disable =
                      (taken[asked[n].app.id].check_assertion = "UpdatesDisabled")
    <2>1. Meets(Apps[n], taken)
      BY <1>1, <1>4 DEF Accepts
    <2>2. asked[n].app.id \in DOMAIN taken
      BY <1>5, <2>1 DEF Meets
    <2>3. IsResponseAndMetadata(taken[asked[n].app.id])
      BY <1>1, <2>2 DEF Configured
    <2>4. ASSUME asked[n].check # None
          PROVE  params.disable = (taken[asked[n].app.id].check_assertion = "UpdatesDisabled")
      <3>1. ("updatedisabled" \in Apps[n].updatecheck)
              = (taken[asked[n].app.id].check_assertion = "UpdatesDisabled")
        BY <1>5, <2>1, <2>4 DEF Meets
      <3>2. "updatedisabled" \in Apps[n].updatecheck <=> params.disable
        BY <1>5, <2>4 DEF UpdateCheck
      <3>3. params.disable \in BOOLEAN
        BY <1>2, BuilderAssumption
      <3>4. QED
        BY <3>1, <3>2, <3>3
    <2>5. QED
      BY <2>2, <2>3, <2>4
  <1>7. /\ Len(reply0.app) = N
        /\ \A n \in 1..N : reply0.app[n] = AppAnswer(Apps[n], taken)
    BY <1>3, <1>4 DEF Answer
  <1>8. /\ ~\E n \in 1..N : /\ "updatecheck" \in DOMAIN reply0.app[n]
                            /\ "status" \notin DOMAIN reply0.app[n].updatecheck
        /\ outcome.apps = [n \in 1..N |-> ParsedApp(reply0.app[n])]
    <2>1. [kind |-> "unparsable"].kind # "parsed"
      OBVIOUS
    <2>2. QED
      BY <1>1, <1>7, <2>1 DEF ParseJsonResponse
  <1>9. ASSUME NEW n \in 1..N
        PROVE  /\ asked[n].check # None =>
                    taken[asked[n].app.id].response # "InvalidResponse"
               /\ ParsedApp(reply0.app[n]) = Promised(asked[n], taken)
    <2> DEFINE id == asked[n].app.id
               x == taken[id]
               u == UpdateCheckAnswer(x)
               r == reply0.app[n]
    <2>1. r = AppAnswer(Apps[n], taken) /\ Apps[n].appid = id
      BY <1>5, <1>7
    <2>2. CASE asked[n].check = None
      <3>1. r = [appid |-> id]
        BY <1>5, <2>1, <2>2 DEF AppAnswer
      <3>2. ParsedApp(r) = [id |-> id, status |-> None, urls |-> {}]
        BY <3>1 DEF ParsedApp
      <3>3. QED
        BY <2>2, <3>2 DEF Promised
    <2>3. CASE asked[n].check # None
      <3>1. r = [appid |-> id, updatecheck |-> u]
        BY <1>5, <2>1, <2>3 DEF AppAnswer
      <3>2. "status" \in DOMAIN u
        BY <1>8, <3>1
      <3>3. /\ x.response # "InvalidResponse"
            /\ x.response = "NoUpdate" => u.status = "noupdate" /\ FullUrls(u) = {}
            /\ x.response # "NoUpdate" =>
                 /\ u.status = "ok"
                 /\ FullUrls(u) = {<<IF x.response = "InvalidURL" THEN InvalidCodebase
                                                               ELSE x.codebase,
                                     x.package_name>>}
        BY <1>6, <3>2, AnsweredIs
      <3>4. ParsedApp(r) = [id |-> id, status |-> u.status, urls |-> FullUrls(u)]
        BY <3>1 DEF ParsedApp
      <3> HIDE DEF u, r
      <3>5. ParsedApp(r) = Promised(asked[n], taken)
        BY <2>3, <3>3, <3>4 DEF Promised
      <3>6. QED
        BY <3>3, <3>5 DEF r
    <2>4. QED
      BY <2>2, <2>3
  <1>10. outcome.apps = [n \in 1..N |-> Promised(asked[n], taken)]
    BY <1>8, <1>9
  <1>11. checks # {} => Cardinality(checks) = Cardinality(DOMAIN taken)
    <2>1. Checked(Apps) = checks
      BY <1>4, <1>5 DEF Checked
    <2>2. Cardinality(checks) \in {0, Cardinality(DOMAIN taken)}
      BY <1>1, <2>1 DEF Accepts
    <2>3. IsFiniteSet(1..N)
      BY <1>3, FS_Interval
    <2>4. checks \subseteq 1..N
      OBVIOUS
    <2>5. IsFiniteSet(checks)
      <3> HIDE DEF checks, N
      <3> QED BY <2>3, <2>4, FS_Subset
    <2>6. QED
      <3> HIDE DEF checks, N
      <3> QED BY <2>2, <2>5, FS_EmptySet
  <1>12. QED
    BY <1>1, <1>6, <1>9, <1>10, <1>11 DEF asked, N

\* From the add_* calls to the answer: what the client reads about every app it
\* added is what one configuration promises that was in force since the request
\* was sent, however often the server is configured anew meanwhile.
THEOREM AnswerIsConfigured == Spec => []OfferedIsConfigured
  <1>1. Init => Built /\ Exchanged
    BY BuiltInit, ExchangedInit
  <1>2. (Built /\ Exchanged) /\ [Next]_vars => (Built /\ Exchanged)'
    BY BuiltNext, ExchangedNext
  <1>3. QED
    BY <1>1, <1>2, ReadIsPromised, PTL DEF Spec
=============================================================================
