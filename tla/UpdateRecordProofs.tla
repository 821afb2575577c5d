------------------------- MODULE UpdateRecordProofs -------------------------
(***************************************************************************)
(* UpdateRecord for any plans, any errors of the clock, any time and any   *)
(* number of failed storage operations: it is type correct, a plan's       *)
(* first-seen time survives crashes and is never another plan's, and the   *)
(* wait for a reboot is the real one and is reported once.                 *)
(***************************************************************************)
EXTENDS UpdateRecord, TLAPS, FiniteSetTheorems

-----------------------------------------------------------------------------
(***************************************************************************)
(* The inductive invariants                                                *)
(***************************************************************************)

\* A plan that is recorded has its own time, or none.
OwnTime(s) ==
    s["plan"] # None => s["firstSeen"] = None \/ s["firstSeen"].of = s["plan"]

\* After at most one fault that is so of what get() sees, of what is
\* committed, and of the install that is going on.
Own ==
    faults <= 1 =>
        /\ OwnTime(store)
        /\ OwnTime(disk)
        /\ pc = "installing" => firstSeen.of = plan

\* Without a fault everything is committed, and the record is of the plan that
\* was last started.
Recorded ==
    faults = 0 =>
        /\ store = disk
        /\ store["plan"] = None <=> origin = None
        /\ origin # None => store["firstSeen"] = origin /\ origin.of = store["plan"]
        /\ pc = "installing" => firstSeen = origin

\* No time that is remembered, or was reported, lies ahead; nothing is
\* reported while an update is installed.
Past(r) == r # None => r.real <= real
Chronicle ==
    /\ Past(store["finish"]) /\ Past(disk["finish"]) /\ Past(finish)
    /\ \A t \in reported : t <= real
    /\ pc = "installing" => begun.real <= real /\ \A t \in reported : t <= begun.real

\* A finish time that was reported is still stored.
Lingers(s) == s["finish"] # None /\ s["finish"].real \in reported
\* The time for which that may be: until it is cleared, or when that was cut
\* short.
Tolerated == excused \/ pc = "clearing"

\* A fault may leave a reported finish time in storage, but then it has no
\* target: it takes a second fault to give it one.
Forgotten ==
    /\ faults = 0 => (Lingers(store) => Tolerated) /\ (Lingers(disk) => Tolerated)
    /\ faults <= 1 => /\ Lingers(store) /\ store["target"] # None => Tolerated
                      /\ Lingers(disk) /\ disk["target"] # None => Tolerated
                      /\ report /\ finish.real \in reported => excused

-----------------------------------------------------------------------------
(***************************************************************************)
(* Storage                                                                 *)
(***************************************************************************)

\* set() changes one key, or none if it fails.
LEMMA SetIs ==
  ASSUME NEW s, DOMAIN s = Keys, NEW k \in Keys, NEW v, NEW failing
  PROVE  /\ DOMAIN Set(s, k, v, failing) = Keys
         /\ \A j \in Keys \ {k} : Set(s, k, v, failing)[j] = s[j]
         /\ k \in failing => Set(s, k, v, failing)[k] = s[k]
         /\ k \notin failing => Set(s, k, v, failing)[k] = v
  BY DEF Set

\* The operations that may fail in one step are finitely many.
LEMMA FailingFinite ==
  ASSUME NEW failing \in SUBSET {"plan", "firstSeen", "undo", "finish", "target", "commit", "persist"}
  PROVE  IsFiniteSet(failing)
  <1>1. IsFiniteSet({"plan", "firstSeen", "undo", "finish", "target", "commit", "persist"})
    <2>1. IsFiniteSet({})
      BY FS_EmptySet
    <2>2. IsFiniteSet({} \cup {"plan"})
      BY <2>1, FS_AddElement
    <2>3. IsFiniteSet({} \cup {"plan"} \cup {"firstSeen"})
      BY <2>2, FS_AddElement
    <2>4. IsFiniteSet({} \cup {"plan"} \cup {"firstSeen"} \cup {"undo"})
      BY <2>3, FS_AddElement
    <2>5. IsFiniteSet({} \cup {"plan"} \cup {"firstSeen"} \cup {"undo"} \cup {"finish"})
      BY <2>4, FS_AddElement
    <2>6. IsFiniteSet({} \cup {"plan"} \cup {"firstSeen"} \cup {"undo"} \cup {"finish"} \cup {"target"})
      BY <2>5, FS_AddElement
    <2>7. IsFiniteSet({} \cup {"plan"} \cup {"firstSeen"} \cup {"undo"} \cup {"finish"} \cup {"target"}
                        \cup {"commit"})
      BY <2>6, FS_AddElement
    <2>8. IsFiniteSet({} \cup {"plan"} \cup {"firstSeen"} \cup {"undo"} \cup {"finish"} \cup {"target"}
                        \cup {"commit"} \cup {"persist"})
      BY <2>7, FS_AddElement
    <2>9. {"plan", "firstSeen", "undo", "finish", "target", "commit", "persist"}
            = {} \cup {"plan"} \cup {"firstSeen"} \cup {"undo"} \cup {"finish"} \cup {"target"}
                 \cup {"commit"} \cup {"persist"}
      OBVIOUS
    <2>10. QED
      BY <2>8, <2>9
  <1>2. QED
    BY <1>1, FS_Subset

\* Every failed operation counts: no fault in all means that none failed now,
\* and one means that only one did, and then none before.
LEMMA FaultsCounted ==
  ASSUME TypeOK, NEW failing, IsFiniteSet(failing), CountFaults(failing)
  PROVE  /\ faults' \in 0..MaxFaults
         /\ faults <= faults'
         /\ faults' = 0 => failing = {}
         /\ faults' <= 1 => (faults = 0 \/ failing = {}) /\ \A x, y \in failing : x = y
  <1>1. faults \in Nat /\ MaxFaults \in Nat
    BY BoundsAssumption DEF TypeOK
  <1>2. Cardinality(failing) \in Nat
    BY FS_CardinalityType
  <1>3. /\ faults' = faults + Cardinality(failing)
        /\ faults + Cardinality(failing) <= MaxFaults
    BY DEF CountFaults
  <1>4. Cardinality(failing) = 0 <=> failing = {}
    BY FS_EmptySet
  <1>5. Cardinality(failing) = 1 => \A x, y \in failing : x = y
    BY FS_Singleton
  <1>6. QED
    BY <1>1, <1>2, <1>3, <1>4, <1>5

-----------------------------------------------------------------------------
(***************************************************************************)
(* What a step does to storage                                             *)
(***************************************************************************)

\* The times that may be noted down.
LEMMA ReadingTyped ==
  ASSUME TypeOK, NEW p \in Plans
  PROVE  /\ Reading(p) \in Readings
         /\ Reading(p).real = real
         /\ Reading(p).of = p
  BY OffsetsAssumption, BoundsAssumption DEF TypeOK, Reading, Readings, Wall

\* ClearRecord removes what it can, and commits that if it can.
LEMMA Cleared ==
  ASSUME TypeOK, ClearRecord
  PROVE  \E failing \in SUBSET {"finish", "target", "commit"} :
           /\ CountFaults(failing)
           /\ DOMAIN store' = Keys
           /\ store'["plan"] = store["plan"]
           /\ store'["firstSeen"] = store["firstSeen"]
           /\ store'["finish"] = IF "finish" \in failing THEN store["finish"] ELSE None
           /\ store'["target"] = IF "target" \in failing THEN store["target"] ELSE None
           /\ disk' = IF "commit" \in failing THEN disk ELSE store'
           /\ excused' = (excused \/ "commit" \in failing)
  <1>1. PICK failing \in SUBSET {"finish", "target", "commit"} :
          /\ store' = Remove(Remove(store, "finish", failing), "target", failing)
          /\ disk' = Commit(store', failing)
          /\ CountFaults(failing)
          /\ excused' = (excused \/ "commit" \in failing)
    BY DEF ClearRecord
  <1> DEFINE mid == Set(store, "finish", None, failing)
  <1>2. "finish" \in Keys /\ "target" \in Keys /\ "plan" \in Keys /\ "firstSeen" \in Keys
    BY DEF Keys
  <1>3. DOMAIN store = Keys
    BY DEF TypeOK, Stored
  <1>4. /\ DOMAIN mid = Keys
        /\ \A j \in Keys \ {"finish"} : mid[j] = store[j]
        /\ "finish" \in failing => mid["finish"] = store["finish"]
        /\ "finish" \notin failing => mid["finish"] = None
    BY <1>2, <1>3, SetIs
  <1>5. store' = Set(mid, "target", None, failing)
    BY <1>1 DEF Remove
  <1> HIDE DEF mid
  <1>6. /\ DOMAIN store' = Keys
        /\ \A j \in Keys \ {"target"} : store'[j] = mid[j]
        /\ "target" \in failing => store'["target"] = mid["target"]
        /\ "target" \notin failing => store'["target"] = None
    BY <1>2, <1>4, <1>5, SetIs
  <1>7. QED
    BY <1>1, <1>2, <1>4, <1>6 DEF Commit

\* What InstallEnds records.
LEMMA Finished ==
  ASSUME TypeOK, NEW outcome, InstallEnds(outcome)
  PROVE  \E failing \in SUBSET {"finish", "target", "commit", "persist"} :
           /\ CountFaults(failing)
           /\ DOMAIN store' = Keys
           /\ store'["plan"] = store["plan"]
           /\ store'["firstSeen"] = store["firstSeen"]
           /\ store'["finish"] = IF "finish" \in failing THEN store["finish"] ELSE Reading(plan)
           /\ disk' = disk \/ disk' = store'
           /\ failing = {} => disk' = store'
  <1>1. PICK failing \in SUBSET {"finish", "target", "commit", "persist"} :
          /\ store' = IF plan.system
                        THEN Set(Set(store, "finish", Reading(plan), failing), "target", plan.announced, failing)
                        ELSE Set(store, "finish", Reading(plan), failing)
          /\ disk' = IF "persist" \in failing THEN Commit(store', failing) ELSE store'
          /\ CountFaults(failing)
    BY DEF InstallEnds
  <1> DEFINE mid == Set(store, "finish", Reading(plan), failing)
  <1>2. "finish" \in Keys /\ "target" \in Keys /\ "plan" \in Keys /\ "firstSeen" \in Keys
    BY DEF Keys
  <1>3. DOMAIN store = Keys
    BY DEF TypeOK, Stored
  <1>4. /\ DOMAIN mid = Keys
        /\ \A j \in Keys \ {"finish"} : mid[j] = store[j]
        /\ "finish" \in failing => mid["finish"] = store["finish"]
        /\ "finish" \notin failing => mid["finish"] = Reading(plan)
    BY <1>2, <1>3, SetIs
  <1>5. store' = mid \/ store' = Set(mid, "target", plan.announced, failing)
    BY <1>1
  <1> HIDE DEF mid
  <1>6. DOMAIN store' = Keys /\ \A j \in Keys \ {"target"} : store'[j] = mid[j]
    BY <1>2, <1>4, <1>5, SetIs
  <1>7. disk' = disk \/ disk' = store'
    BY <1>1 DEF Commit
  <1>8. failing = {} => disk' = store'
    BY <1>1
  <1>9. QED
    BY <1>1, <1>2, <1>4, <1>6, <1>7, <1>8

\* What StartInstall records of a plan that is new: both keys, or nothing, or
\* no plan; the plan without its time takes two faults.
LEMMA FirstSeenRecorded ==
  ASSUME TypeOK, NEW p \in Plans, RecordFirstSeen(p)
  PROVE  \E failing \in SUBSET {"plan", "firstSeen", "undo", "commit"} :
           /\ CountFaults(failing)
           /\ DOMAIN store' = Keys
           /\ store'["finish"] = store["finish"]
           /\ store'["target"] = store["target"]
           /\ \/ store' = store /\ failing # {}
              \/ store'["plan"] = None /\ store'["firstSeen"] = store["firstSeen"] /\ failing # {}
              \/ /\ store'["plan"] = p
                 /\ store'["firstSeen"] = store["firstSeen"]
                 /\ failing = {"firstSeen", "undo"}
              \/ store'["plan"] = p /\ store'["firstSeen"] = Reading(p)
           /\ disk' = disk \/ disk' = store'
           /\ failing = {} => disk' = store'
  <1>1. PICK failing \in {{}, {"plan"}, {"firstSeen"}, {"firstSeen", "undo"}, {"commit"}} :
          /\ store' = CASE "plan" \in failing -> store
                        [] "firstSeen" \in failing ->
                             [store EXCEPT !["plan"] = IF "undo" \in failing THEN p ELSE None]
                        [] OTHER -> [store EXCEPT !["plan"] = p, !["firstSeen"] = Reading(p)]
          /\ disk' = IF failing \subseteq {"commit"} THEN Commit(store', failing) ELSE disk
          /\ CountFaults(failing)
    BY DEF RecordFirstSeen
  <1>2. "finish" \in Keys /\ "target" \in Keys /\ "plan" \in Keys /\ "firstSeen" \in Keys
    BY DEF Keys
  <1>3. DOMAIN store = Keys
    BY DEF TypeOK, Stored
  <1>4. disk' = disk \/ disk' = store'
    BY <1>1 DEF Commit
  <1>5. failing = {} => disk' = store'
    BY <1>1 DEF Commit
  <1>6. CASE failing = {"plan"}
    <2>1. store' = store
      BY <1>1, <1>6
    <2>2. QED
      BY <1>1, <1>3, <1>4, <1>6, <2>1
  <1>7. CASE failing = {"firstSeen"}
    <2>1. store' = [store EXCEPT !["plan"] = None]
      BY <1>1, <1>7
    <2>2. QED
      BY <1>1, <1>2, <1>3, <1>4, <1>7, <2>1
  <1>8. CASE failing = {"firstSeen", "undo"}
    <2>1. store' = [store EXCEPT !["plan"] = p]
      BY <1>1, <1>8
    <2>2. QED
      BY <1>1, <1>2, <1>3, <1>4, <1>8, <2>1
  <1>9. CASE failing \in {{}, {"commit"}}
    <2>1. store' = [store EXCEPT !["plan"] = p, !["firstSeen"] = Reading(p)]
      BY <1>1, <1>9
    <2>2. /\ DOMAIN store' = Keys
          /\ store'["finish"] = store["finish"]
          /\ store'["target"] = store["target"]
          /\ store'["plan"] = p
          /\ store'["firstSeen"] = Reading(p)
      BY <1>2, <1>3, <2>1
    <2>3. QED
      BY <1>1, <1>4, <1>5, <1>9, <2>2
  <1>10. QED
    BY <1>1, <1>6, <1>7, <1>8, <1>9

\* A commit of what get() sees, as persist_data makes it.
LEMMA Persisted ==
  ASSUME TypeOK, NEW failing \in SUBSET {"commit"},
         disk' = Commit(store, failing), CountFaults(failing)
  PROVE  /\ faults' \in 0..MaxFaults
         /\ faults <= faults'
         /\ disk' = disk \/ disk' = store
         /\ faults' = 0 => disk' = store
  <1>1. IsFiniteSet(failing)
    BY FailingFinite
  <1>2. QED
    BY <1>1, FaultsCounted DEF Commit

-----------------------------------------------------------------------------
(***************************************************************************)
(* Type correctness                                                        *)
(***************************************************************************)

\* The device comes with an empty storage.
LEMMA TypeInit == Init => TypeOK
  <1> SUFFICES ASSUME Init PROVE TypeOK
    OBVIOUS
  <1>1. Stored(store) /\ Stored(disk)
    BY DEF Init, Stored, Keys
  <1>2. 0 \in 0..MaxTime /\ 0 \in 0..MaxFaults
    BY BoundsAssumption
  <1>3. report \in BOOLEAN /\ excused \in BOOLEAN /\ ~report
    BY Zenon DEF Init
  <1>4. QED
    BY <1>1, <1>2, <1>3 DEF Init, TypeOK

\* No step leaves the types: in particular what is reported has a finish time,
\* and what is being installed has its plan and its times.
LEMMA TypeNext == TypeOK /\ [Next]_vars => TypeOK'
  <1> SUFFICES ASSUME TypeOK, [Next]_vars
               PROVE  TypeOK'
    OBVIOUS
  <1>1. CASE Start
    BY <1>1 DEF Start, clock, disks, install, history, TypeOK, Stored
  <1>2. CASE Report
    <2>1. finish.real \in 0..MaxTime
      BY <1>2 DEF Report, TypeOK, Readings
    <2>2. report' \in BOOLEAN /\ ~report'
      BY <1>2, Zenon DEF Report
    <2>3. reported' = reported \cup {finish.real} /\ pc' = "clearing"
      BY <1>2 DEF Report
    <2>4. UNCHANGED <<real, offset, store, disk, faults, finish, started, plan, firstSeen, begun,
                      origin, excused>>
      BY <1>2 DEF Report, clock, disks, install
    <2>5. reported' \subseteq 0..MaxTime
      BY <2>1, <2>3 DEF TypeOK
    <2>6. Stored(store') /\ Stored(disk')
      BY <2>4 DEF TypeOK
    <2>7. QED
      BY <2>2, <2>3, <2>4, <2>5, <2>6 DEF TypeOK
  <1>3. CASE NoReport
    BY <1>3 DEF NoReport, clock, disks, boot, install, history, TypeOK, Stored
  <1>4. CASE ClearRecord
    <2>1. PICK failing \in SUBSET {"finish", "target", "commit"} :
            /\ CountFaults(failing)
            /\ DOMAIN store' = Keys
            /\ store'["plan"] = store["plan"]
            /\ store'["firstSeen"] = store["firstSeen"]
            /\ store'["finish"] = IF "finish" \in failing THEN store["finish"] ELSE None
            /\ disk' = IF "commit" \in failing THEN disk ELSE store'
            /\ excused' = (excused \/ "commit" \in failing)
      BY <1>4, Cleared
    <2>2. faults' \in 0..MaxFaults
      BY <2>1, FailingFinite, FaultsCounted
    <2>3. Stored(store') /\ Stored(disk')
      BY <2>1 DEF TypeOK, Stored
    <2>4. excused' \in BOOLEAN
      BY <2>1, Zenon
    <2>5. QED
      BY <1>4, <2>2, <2>3, <2>4 DEF ClearRecord, clock, boot, install, TypeOK
  <1>5. CASE Turn
    <2>1. faults' \in 0..MaxFaults /\ (disk' = disk \/ disk' = store)
      BY <1>5, Persisted DEF Turn, TypeOK
    <2>2. QED
      BY <1>5, <2>1 DEF Turn, clock, boot, install, history, TypeOK, Stored
  <1>6. CASE StartInstall
    <2>1. PICK p \in Plans :
            /\ plan' = p
            /\ begun' = Reading(p)
            /\ KeepFirstSeen(p) \/ RecordFirstSeen(p)
            /\ origin' = IF origin # None /\ origin.of = p THEN origin ELSE Reading(p)
      BY <1>6 DEF StartInstall
    <2>2. Reading(p) \in Readings /\ p # None /\ Reading(p) # None
      BY ReadingTyped, NoneAssumption
    <2>3. begun' \in Readings /\ origin' \in Readings \cup {None} /\ plan' \in Plans
      BY <2>1, <2>2 DEF TypeOK
    <2>4. /\ Stored(store') /\ Stored(disk')
          /\ faults' \in 0..MaxFaults
          /\ firstSeen' \in Readings
      <3>1. CASE KeepFirstSeen(p)
        BY <2>2, <3>1 DEF KeepFirstSeen, disks, TypeOK, Stored
      <3>2. CASE RecordFirstSeen(p)
        <4>1. PICK failing \in SUBSET {"plan", "firstSeen", "undo", "commit"} :
                /\ CountFaults(failing)
                /\ DOMAIN store' = Keys
                /\ store'["finish"] = store["finish"]
                /\ \/ store' = store
                   \/ store'["plan"] = None /\ store'["firstSeen"] = store["firstSeen"]
                   \/ store'["plan"] = p /\ store'["firstSeen"] = store["firstSeen"]
                   \/ store'["plan"] = p /\ store'["firstSeen"] = Reading(p)
                /\ disk' = disk \/ disk' = store'
          BY <3>2, FirstSeenRecorded
        <4>2. faults' \in 0..MaxFaults
          BY <4>1, FailingFinite, FaultsCounted
        <4>3. Stored(store')
          BY <2>2, <4>1 DEF TypeOK, Stored
        <4>4. QED
          BY <2>2, <3>2, <4>1, <4>2, <4>3 DEF RecordFirstSeen, TypeOK
      <3>3. QED
        BY <2>1, <3>1, <3>2
    <2>5. plan' # None /\ firstSeen' # None /\ begun' # None
      BY <2>3, <2>4, NoneAssumption
    <2>6. QED
      BY <1>6, <2>3, <2>4, <2>5 DEF StartInstall, clock, boot, TypeOK
  <1>7. CASE InstallFails
    <2>1. faults' \in 0..MaxFaults /\ (disk' = disk \/ disk' = store)
      BY <1>7, Persisted DEF InstallFails
    <2>2. QED
      BY <1>7, <2>1 DEF InstallFails, InstallOver, clock, boot, history, TypeOK, Stored
  <1>8. ASSUME NEW outcome \in {"installed", "deferred"}, InstallEnds(outcome)
        PROVE  TypeOK'
    <2>1. PICK failing \in SUBSET {"finish", "target", "commit", "persist"} :
            /\ CountFaults(failing)
            /\ DOMAIN store' = Keys
            /\ store'["plan"] = store["plan"]
            /\ store'["firstSeen"] = store["firstSeen"]
            /\ store'["finish"] = IF "finish" \in failing THEN store["finish"] ELSE Reading(plan)
            /\ disk' = disk \/ disk' = store'
      BY <1>8, Finished
    <2>2. faults' \in 0..MaxFaults
      BY <2>1, FailingFinite, FaultsCounted
    <2>3. Reading(plan) \in Readings
      BY <1>8, ReadingTyped DEF InstallEnds, TypeOK
    <2>4. Stored(store') /\ Stored(disk')
      BY <2>1, <2>3 DEF TypeOK, Stored
    <2>5. pc' \in {"top", "reboot"} /\ plan' = None /\ firstSeen' = None /\ begun' = None
      BY <1>8 DEF InstallEnds, InstallOver
    <2>6. UNCHANGED <<real, offset, finish, report, started, origin, reported, excused>>
      BY <1>8 DEF InstallEnds, clock
    <2>7. QED
      BY <2>2, <2>4, <2>5, <2>6 DEF TypeOK
  <1>9. CASE RebootFails
    BY <1>9 DEF RebootFails, clock, disks, boot, install, history, TypeOK, Stored
  <1>10. CASE Restart
    <2>1. excused' \in BOOLEAN /\ report' \in BOOLEAN /\ ~report'
      BY <1>10, Zenon DEF Restart
    <2>2. 0 \in 0..MaxTime
      BY BoundsAssumption
    <2>3. QED
      BY <1>10, <2>1, <2>2 DEF Restart, InstallOver, clock, TypeOK, Stored
  <1>11. CASE Tick
    BY <1>11, BoundsAssumption DEF Tick, disks, boot, install, history, TypeOK, Stored
  <1>12. CASE SetClock
    BY <1>12 DEF SetClock, disks, boot, install, history, TypeOK, Stored
  <1>13. CASE UNCHANGED vars
    BY <1>13 DEF vars, clock, disks, boot, install, history, TypeOK, Stored
  <1>14. QED
    BY <1>1, <1>2, <1>3, <1>4, <1>5, <1>6, <1>7, <1>8, <1>9, <1>10, <1>11, <1>12, <1>13
       DEF Next

\* Every reachable state is typed: run() never reports without a finish time,
\* and storage holds nothing but plans, times and versions.
THEOREM TypeCorrect == Spec => []TypeOK
  <1>1. QED
    BY TypeInit, TypeNext, PTL DEF Spec

-----------------------------------------------------------------------------
(***************************************************************************)
(* The first-seen time                                                     *)
(***************************************************************************)

\* The plan and its time in s are those in some storage there was before.
SameRecord(s) ==
    \E b \in {store, disk} : s["plan"] = b["plan"] /\ s["firstSeen"] = b["firstSeen"]

\* Only the start of an install writes the plan and its time; every other step
\* leaves them, commits them, or goes back to what was committed.
LEMMA RecordMoves ==
  ASSUME TypeOK, [Next]_vars, ~StartInstall
  PROVE  /\ faults <= faults'
         /\ SameRecord(store') /\ SameRecord(disk')
         /\ pc' = "installing" => pc = "installing" /\ UNCHANGED <<plan, firstSeen>>
         /\ origin' = origin
         /\ faults' = 0 /\ store = disk => store' = disk'
  <1>0. faults \in Nat
    BY DEF TypeOK
  <1>1. CASE Start \/ Report \/ NoReport \/ RebootFails \/ Tick \/ SetClock \/ UNCHANGED vars
    <2>1. UNCHANGED <<store, disk, faults, plan, firstSeen, origin>>
      BY <1>1 DEF Start, Report, NoReport, RebootFails, Tick, SetClock, vars, disks,
                  install, history
    <2>2. pc' = "installing" => pc = "installing"
      BY <1>1 DEF Start, Report, NoReport, RebootFails, Tick, SetClock, vars
    <2>3. QED
      BY <1>0, <2>1, <2>2 DEF SameRecord
  <1>2. CASE ClearRecord
    <2>1. PICK failing \in SUBSET {"finish", "target", "commit"} :
            /\ CountFaults(failing)
            /\ store'["plan"] = store["plan"]
            /\ store'["firstSeen"] = store["firstSeen"]
            /\ disk' = IF "commit" \in failing THEN disk ELSE store'
      BY <1>2, Cleared
    <2>2. faults <= faults' /\ (faults' = 0 => failing = {})
      BY <2>1, FailingFinite, FaultsCounted
    <2>3. pc' = "waiting" /\ origin' = origin
      BY <1>2 DEF ClearRecord
    <2>4. QED
      BY <2>1, <2>2, <2>3 DEF SameRecord
  <1>3. CASE Turn
    <2>1. /\ faults <= faults'
          /\ disk' = disk \/ disk' = store
          /\ faults' = 0 /\ store = disk => disk' = store
      BY <1>0, <1>3, Persisted DEF Turn
    <2>2. pc' = "top" /\ origin' = origin /\ store' = store
      BY <1>3 DEF Turn, history
    <2>3. QED
      BY <2>1, <2>2 DEF SameRecord
  <1>4. CASE InstallFails
    <2>1. /\ faults <= faults'
          /\ disk' = disk \/ disk' = store
          /\ faults' = 0 => disk' = store
      BY <1>4, Persisted DEF InstallFails
    <2>2. pc' = "top" /\ origin' = origin /\ store' = store
      BY <1>4 DEF InstallFails, history
    <2>3. QED
      BY <2>1, <2>2 DEF SameRecord
  <1>5. ASSUME NEW outcome \in {"installed", "deferred"}, InstallEnds(outcome)
        PROVE  /\ faults <= faults'
               /\ SameRecord(store') /\ SameRecord(disk')
               /\ pc' = "installing" => pc = "installing" /\ UNCHANGED <<plan, firstSeen>>
               /\ origin' = origin
               /\ faults' = 0 /\ store = disk => store' = disk'
    <2>1. PICK failing \in SUBSET {"finish", "target", "commit", "persist"} :
            /\ CountFaults(failing)
            /\ store'["plan"] = store["plan"]
            /\ store'["firstSeen"] = store["firstSeen"]
            /\ disk' = disk \/ disk' = store'
            /\ failing = {} => disk' = store'
      BY <1>5, Finished
    <2>2. faults <= faults' /\ (faults' = 0 => failing = {})
      BY <2>1, FailingFinite, FaultsCounted
    <2>3. pc' # "installing" /\ origin' = origin
      BY <1>5 DEF InstallEnds
    <2>4. QED
      BY <2>1, <2>2, <2>3 DEF SameRecord
  <1>6. CASE Restart
    <2>1. UNCHANGED <<disk, faults, origin>> /\ store' = disk /\ pc' = "off"
      BY <1>6 DEF Restart
    <2>2. QED
      BY <1>0, <2>1 DEF SameRecord
  <1>7. QED
    BY <1>1, <1>2, <1>3, <1>4, <1>5, <1>6 DEF Next

\* A single fault, wherever it strikes, gives no plan another's time.
LEMMA OwnNext == TypeOK /\ Own /\ [Next]_vars => Own'
  <1> SUFFICES ASSUME TypeOK, Own, [Next]_vars, (faults <= 1)'
               PROVE  /\ OwnTime(store')
                      /\ OwnTime(disk')
                      /\ pc' = "installing" => firstSeen'.of = plan'
    BY DEF Own, OwnTime
  <1>0. faults \in Nat
    BY DEF TypeOK
  <1>1. CASE StartInstall
    <2>1. PICK p \in Plans : plan' = p /\ (KeepFirstSeen(p) \/ RecordFirstSeen(p))
      BY <1>1 DEF StartInstall
    <2>2. Reading(p).of = p /\ p # None
      BY ReadingTyped, NoneAssumption
    <2>3. CASE KeepFirstSeen(p)
      <3>1. OwnTime(store) /\ OwnTime(disk) /\ UNCHANGED <<store, disk>>
        BY <2>3 DEF KeepFirstSeen, disks, Own
      <3>2. firstSeen'.of = p
        BY <2>2, <2>3, <3>1 DEF KeepFirstSeen, OwnTime
      <3>3. QED
        BY <2>1, <3>1, <3>2
    <2>4. CASE RecordFirstSeen(p)
      <3>1. PICK failing \in SUBSET {"plan", "firstSeen", "undo", "commit"} :
              /\ CountFaults(failing)
              /\ \/ store' = store
                 \/ store'["plan"] = None
                 \/ failing = {"firstSeen", "undo"}
                 \/ store'["plan"] = p /\ store'["firstSeen"] = Reading(p)
              /\ disk' = disk \/ disk' = store'
        BY <2>4, FirstSeenRecorded
      <3>2. /\ faults <= faults' /\ faults' \in Nat
            /\ faults' <= 1 => \A x, y \in failing : x = y
        BY <3>1, FailingFinite, FaultsCounted
      <3>3. failing # {"firstSeen", "undo"}
        BY <3>2
      <3>4. OwnTime(store) /\ OwnTime(disk)
        BY <1>0, <3>2 DEF Own
      <3>5. OwnTime(store')
        BY <2>2, <3>1, <3>3, <3>4 DEF OwnTime
      <3>6. firstSeen' = Reading(p)
        BY <2>4 DEF RecordFirstSeen
      <3>7. QED
        BY <2>1, <2>2, <3>1, <3>4, <3>5, <3>6
    <2>5. QED
      BY <2>1, <2>3, <2>4
  <1>2. CASE ~StartInstall
    <2>1. /\ faults <= faults'
          /\ SameRecord(store') /\ SameRecord(disk')
          /\ pc' = "installing" => pc = "installing" /\ UNCHANGED <<plan, firstSeen>>
      BY <1>2, RecordMoves
    <2>2. faults' \in Nat
      BY TypeNext DEF TypeOK
    <2>3. OwnTime(store) /\ OwnTime(disk) /\ (pc = "installing" => firstSeen.of = plan)
      BY <1>0, <2>1, <2>2 DEF Own
    <2>4. OwnTime(store') /\ OwnTime(disk')
      BY <2>1, <2>3 DEF OwnTime, SameRecord
    <2>5. QED
      BY <2>1, <2>3, <2>4
  <1>3. QED
    BY <1>1, <1>2

\* A single failed storage operation never makes a plan inherit the first-seen
\* time of another, whatever the plans, the clock and the crashes.
THEOREM FirstSeenIsTheOwn == Spec => []FirstSeenIsOwn
  <1>1. Init => Own
    BY DEF Init, Own, OwnTime, Keys
  <1>2. Own => FirstSeenIsOwn
    BY DEF Own, FirstSeenIsOwn
  <1>3. QED
    BY <1>1, <1>2, OwnNext, TypeCorrect, PTL DEF Spec

\* Without a failed operation the record on disk is that of the plan that was
\* last started, with the time it was first started at.
LEMMA RecordedNext == TypeOK /\ Recorded /\ [Next]_vars => Recorded'
  <1> SUFFICES ASSUME TypeOK, Recorded, [Next]_vars, faults' = 0
               PROVE  /\ store' = disk'
                      /\ store'["plan"] = None <=> origin' = None
                      /\ origin' # None => /\ store'["firstSeen"] = origin'
                                           /\ origin'.of = store'["plan"]
                      /\ pc' = "installing" => firstSeen' = origin'
    BY DEF Recorded
  <1>0. faults \in Nat
    BY DEF TypeOK
  <1>1. CASE StartInstall
    <2>1. PICK p \in Plans :
            /\ KeepFirstSeen(p) \/ RecordFirstSeen(p)
            /\ origin' = IF origin # None /\ origin.of = p THEN origin ELSE Reading(p)
      BY <1>1 DEF StartInstall
    <2>2. Reading(p).of = p /\ p # None /\ Reading(p) # None
      BY ReadingTyped, NoneAssumption
    <2>3. CASE KeepFirstSeen(p)
      <3>1. UNCHANGED <<store, disk, faults>> /\ store["plan"] = p
        BY <2>3 DEF KeepFirstSeen, disks
      <3>2. /\ store = disk /\ origin # None
            /\ store["firstSeen"] = origin /\ origin.of = p
        BY <2>2, <3>1 DEF Recorded
      <3>3. origin' = origin /\ firstSeen' = origin
        BY <2>1, <2>3, <3>2 DEF KeepFirstSeen
      <3>4. QED
        BY <2>2, <3>1, <3>2, <3>3
    <2>4. CASE RecordFirstSeen(p)
      <3>1. PICK failing \in SUBSET {"plan", "firstSeen", "undo", "commit"} :
              /\ CountFaults(failing)
              /\ failing # {} \/ (store'["plan"] = p /\ store'["firstSeen"] = Reading(p))
              /\ failing = {} => disk' = store'
        BY <2>4, FirstSeenRecorded
      <3>2. faults = 0 /\ failing = {}
        BY <1>0, <3>1, FailingFinite, FaultsCounted
      <3>3. origin = None \/ origin.of # p
        BY <2>4, <3>2 DEF Recorded, RecordFirstSeen
      <3>4. origin' = Reading(p) /\ firstSeen' = Reading(p)
        BY <2>1, <2>4, <3>3 DEF RecordFirstSeen
      <3>5. QED
        BY <2>2, <3>1, <3>2, <3>4
    <2>5. QED
      BY <2>1, <2>3, <2>4
  <1>2. CASE ~StartInstall
    <2>1. /\ faults = 0
          /\ SameRecord(store')
          /\ pc' = "installing" => pc = "installing" /\ UNCHANGED <<plan, firstSeen>>
          /\ origin' = origin
          /\ store = disk => store' = disk'
      BY <1>0, <1>2, RecordMoves
    <2>2. QED
      BY <2>1 DEF Recorded, SameRecord
  <1>3. QED
    BY <1>1, <1>2

\* As long as no storage operation fails, the time from which an update is
\* measured is when its plan was first started, across any number of crashes,
\* failed installs and changes of the clock.
THEOREM FirstSeenTimeSurvives == Spec => []FirstSeenSurvives
  <1>1. Init => Recorded
    BY DEF Init, Recorded, Keys
  <1>2. Recorded => FirstSeenSurvives
    BY DEF Recorded, FirstSeenSurvives
  <1>3. QED
    BY <1>1, <1>2, RecordedNext, TypeCorrect, PTL DEF Spec

-----------------------------------------------------------------------------
(***************************************************************************)
(* The report of the wait                                                  *)
(***************************************************************************)

\* The wait that run() reports is the time from the end of the update to the
\* start of the machine, whatever the clock showed at that start and however
\* long after it the report is made, if the clock is now as wrong as it was
\* when the update ended.
THEOREM WaitReportedIsReal == Spec => []ReportedWaitIsReal
  <1>1. TypeOK => ReportedWaitIsReal
    <2> SUFFICES ASSUME TypeOK, report, offset = finish.wall - finish.real
                 PROVE  Waited = started - finish.real
      BY DEF ReportedWaitIsReal
    <2>1. finish.wall \in Int /\ finish.real \in Int
      BY DEF TypeOK, Readings
    <2>2. real \in Int /\ started \in Int
      BY DEF TypeOK
    <2>3. QED
      BY <2>1, <2>2 DEF Waited, SinceFinish, SinceStart, Wall
  <1>2. QED
    BY <1>1, TypeCorrect, PTL

\* The steps that neither end an install nor follow a report.
Elsewhere ==
    \/ Start \/ Report \/ NoReport \/ Turn
    \/ StartInstall \/ InstallFails
    \/ RebootFails \/ Restart
    \/ Tick \/ SetClock \/ UNCHANGED vars

\* The finish time is written by the end of an install and removed after a
\* report; every other step leaves it, commits it, or goes back to what was
\* committed, and the target with it.
LEMMA FinishMoves ==
  ASSUME TypeOK, Elsewhere
  PROVE  /\ faults <= faults'
         /\ \E b \in {store, disk} :
              store'["finish"] = b["finish"] /\ store'["target"] = b["target"]
         /\ \E b \in {store, disk} :
              disk'["finish"] = b["finish"] /\ disk'["target"] = b["target"]
  <1>0. faults \in Nat
    BY DEF TypeOK
  <1>1. CASE Start \/ Report \/ NoReport \/ RebootFails \/ Tick \/ SetClock \/ UNCHANGED vars
    <2>1. UNCHANGED <<store, disk, faults>>
      BY <1>1 DEF Start, Report, NoReport, RebootFails, Tick, SetClock, vars, disks
    <2>2. QED
      BY <1>0, <2>1
  <1>2. CASE Turn \/ InstallFails
    <2>1. faults <= faults' /\ (disk' = disk \/ disk' = store) /\ store' = store
      BY <1>0, <1>2, Persisted DEF Turn, InstallFails
    <2>2. QED
      BY <2>1
  <1>3. CASE StartInstall
    <2>1. PICK p \in Plans : KeepFirstSeen(p) \/ RecordFirstSeen(p)
      BY <1>3 DEF StartInstall
    <2>2. CASE KeepFirstSeen(p)
      BY <1>0, <2>2 DEF KeepFirstSeen, disks
    <2>3. CASE RecordFirstSeen(p)
      <3>1. PICK failing \in SUBSET {"plan", "firstSeen", "undo", "commit"} :
              /\ CountFaults(failing)
              /\ store'["finish"] = store["finish"]
              /\ store'["target"] = store["target"]
              /\ disk' = disk \/ disk' = store'
        BY <2>3, FirstSeenRecorded
      <3>2. faults <= faults'
        BY <3>1, FailingFinite, FaultsCounted
      <3>3. QED
        BY <3>1, <3>2
    <2>4. QED
      BY <2>1, <2>2, <2>3
  <1>4. CASE Restart
    BY <1>0, <1>4 DEF Restart
  <1>5. QED
    BY <1>1, <1>2, <1>3, <1>4 DEF Elsewhere

\* Real time never goes back.
LEMMA TimePasses == TypeOK /\ [Next]_vars => real' \in Nat /\ real <= real'
  <1> SUFFICES ASSUME TypeOK, [Next]_vars
               PROVE  real' \in Nat /\ real <= real'
    OBVIOUS
  <1>1. real \in Nat
    BY DEF TypeOK
  <1>2. CASE Tick
    BY <1>1, <1>2 DEF Tick
  <1>3. CASE ~Tick
    <2>1. real' = real
      BY <1>3 DEF Next, Start, Report, NoReport, ClearRecord, Turn, StartInstall,
                  InstallFails, InstallEnds, RebootFails, Restart, SetClock, vars, clock
    <2>2. QED
      BY <1>1, <2>1
  <1>4. QED
    BY <1>2, <1>3

\* What is remembered and what was reported lies in the past; while an update
\* is installed, before its start.
LEMMA ChronicleNext == TypeOK /\ Chronicle /\ [Next]_vars => Chronicle'
  <1> SUFFICES ASSUME TypeOK, Chronicle, [Next]_vars
               PROVE  Chronicle'
    OBVIOUS
  <1>1. real \in Nat /\ real' \in Nat /\ real <= real'
    BY TimePasses DEF TypeOK
  <1>2. TypeOK'
    BY TypeNext
  <1>3. /\ \A r \in Readings : r.real \in Nat
        /\ store["finish"] \in Readings \cup {None}
        /\ disk["finish"] \in Readings \cup {None}
        /\ finish \in Readings \cup {None}
        /\ \A t \in reported : t \in Nat
    BY DEF TypeOK, Stored, Readings
  <1> DEFINE Earlier(r) == r # None => r.real <= real'
  <1>4. Earlier(store["finish"]) /\ Earlier(disk["finish"]) /\ Earlier(finish)
    BY <1>1, <1>3 DEF Chronicle, Past
  <1>5. Earlier(store'["finish"]) /\ Earlier(disk'["finish"])
    <2>1. CASE ClearRecord
      <3>1. /\ store'["finish"] \in {store["finish"], None}
            /\ disk' = disk \/ disk' = store'
        BY <2>1, Cleared
      <3>2. QED
        BY <1>4, <3>1
    <2>2. ASSUME NEW outcome \in {"installed", "deferred"}, InstallEnds(outcome)
          PROVE  Earlier(store'["finish"]) /\ Earlier(disk'["finish"])
      <3>1. /\ store'["finish"] \in {store["finish"], Reading(plan)}
            /\ disk' = disk \/ disk' = store'
        BY <2>2, Finished
      <3>2. Reading(plan).real = real
        BY <2>2, ReadingTyped DEF InstallEnds, TypeOK
      <3>3. QED
        BY <1>1, <1>4, <3>1, <3>2
    <2>3. CASE Elsewhere
      BY <1>4, <2>3, FinishMoves
    <2>4. QED
      BY <2>1, <2>2, <2>3 DEF Next, Elsewhere
  <1>6. Earlier(finish')
    <2>1. finish' \in {finish, store["finish"], None}
      BY DEF Next, Start, Report, NoReport, ClearRecord, Turn, StartInstall, InstallFails,
             InstallEnds, RebootFails, Restart, Tick, SetClock, vars, boot
    <2>2. QED
      BY <1>4, <2>1
  <1>7. reported' = reported \/ (Report /\ reported' = reported \cup {finish.real})
    BY DEF Next, Start, Report, NoReport, ClearRecord, Turn, StartInstall, InstallFails,
           InstallEnds, RebootFails, Restart, Tick, SetClock, vars, history
  <1>8. \A t \in reported' : t <= real'
    <2>1. \A t \in reported : t <= real'
      BY <1>1, <1>3 DEF Chronicle
    <2>2. Report => finish.real <= real'
      BY <1>4 DEF Report, TypeOK
    <2>3. QED
      BY <1>7, <2>1, <2>2
  <1>9. ASSUME pc' = "installing"
        PROVE  begun'.real <= real' /\ \A t \in reported' : t <= begun'.real
    <2>1. reported' = reported
      BY <1>7, <1>9 DEF Report
    <2>2. CASE StartInstall
      <3>1. PICK p \in Plans : begun' = Reading(p)
        BY <2>2 DEF StartInstall
      <3>2. begun'.real = real
        BY <3>1, ReadingTyped
      <3>3. QED
        BY <1>1, <2>1, <3>2 DEF Chronicle
    <2>3. CASE ~StartInstall
      <3>1. pc = "installing" /\ begun' = begun
        BY <1>9, <2>3 DEF Next, Start, Report, NoReport, ClearRecord, Turn, InstallFails,
             InstallEnds, RebootFails, Restart, Tick, SetClock, vars, install
      <3>2. begun.real \in Nat
        BY <3>1 DEF TypeOK, Readings
      <3>3. QED
        BY <1>1, <2>1, <3>1, <3>2 DEF Chronicle
    <2>4. QED
      BY <2>2, <2>3
  <1>10. QED
    BY <1>4, <1>5, <1>6, <1>8, <1>9 DEF Chronicle, Past

\* Neither a fault nor a crash nor a later update brings a report back.
LEMMA ForgottenNext ==
  TypeOK /\ Chronicle /\ Forgotten /\ [Next]_vars => Forgotten'
  <1> SUFFICES ASSUME TypeOK, Chronicle, Forgotten, [Next]_vars
               PROVE  Forgotten'
    OBVIOUS
  <1>0. faults \in Nat /\ faults' \in Nat
    BY TypeNext DEF TypeOK
  <1>1. ASSUME Elsewhere, Tolerated => Tolerated', reported' = reported,
               report' /\ finish'.real \in reported /\ faults <= 1 => excused'
        PROVE  Forgotten'
    <2>1. /\ faults <= faults'
          /\ \E b \in {store, disk} :
               store'["finish"] = b["finish"] /\ store'["target"] = b["target"]
          /\ \E b \in {store, disk} :
               disk'["finish"] = b["finish"] /\ disk'["target"] = b["target"]
      BY <1>1, FinishMoves
    <2>2. faults' = 0 => (Lingers(store)' => Tolerated') /\ (Lingers(disk)' => Tolerated')
      BY <1>0, <1>1, <2>1 DEF Forgotten, Lingers
    <2>3. faults' <= 1 => /\ Lingers(store)' /\ store'["target"] # None => Tolerated'
                          /\ Lingers(disk)' /\ disk'["target"] # None => Tolerated'
      BY <1>0, <1>1, <2>1 DEF Forgotten, Lingers
    <2>4. QED
      BY <1>0, <1>1, <2>1, <2>2, <2>3 DEF Forgotten
  <1>2. CASE Start
    <2>1. Elsewhere
      BY <1>2 DEF Elsewhere
    <2>2. UNCHANGED <<reported, excused, faults>> /\ pc = "off"
      BY <1>2 DEF Start, history, disks
    <2>3. report' /\ finish'.real \in reported /\ faults <= 1 => excused'
      BY <1>2, <2>2 DEF Start, Forgotten, Lingers, Tolerated
    <2>4. QED
      BY <1>1, <2>1, <2>2, <2>3 DEF Tolerated
  <1>3. CASE Report
    <2>1. pc' = "clearing" /\ ~report'
      BY <1>3, Zenon DEF Report
    <2>2. QED
      BY <2>1 DEF Forgotten, Tolerated
  <1>4. CASE NoReport \/ Turn \/ StartInstall \/ InstallFails \/ RebootFails
    <2>1. Elsewhere
      BY <1>4 DEF Elsewhere
    <2>2. UNCHANGED <<reported, excused, report, finish>> /\ pc # "clearing"
      BY <1>4 DEF NoReport, Turn, StartInstall, InstallFails, RebootFails, history, boot
    <2>3. QED
      BY <1>1, <2>1, <2>2 DEF Forgotten, Tolerated
  <1>5. CASE Tick \/ SetClock \/ UNCHANGED vars
    <2>1. UNCHANGED <<pc, store, disk, faults, reported, excused, report, finish>>
      BY <1>5 DEF Tick, SetClock, vars, disks, boot, history
    <2>2. QED
      BY <2>1 DEF Forgotten, Lingers, Tolerated
  <1>6. CASE Restart
    <2>1. Elsewhere
      BY <1>6 DEF Elsewhere
    <2>2. reported' = reported /\ ~report' /\ (excused' <=> excused \/ pc = "clearing")
      BY <1>6, Zenon DEF Restart
    <2>3. QED
      BY <1>1, <2>1, <2>2 DEF Tolerated
  <1>7. CASE ClearRecord
    <2>1. PICK failing \in SUBSET {"finish", "target", "commit"} :
            /\ CountFaults(failing)
            /\ store'["finish"] = IF "finish" \in failing THEN store["finish"] ELSE None
            /\ store'["target"] = IF "target" \in failing THEN store["target"] ELSE None
            /\ disk' = IF "commit" \in failing THEN disk ELSE store'
            /\ excused' = (excused \/ "commit" \in failing)
      BY <1>7, Cleared
    <2>2. /\ faults <= faults'
          /\ faults' = 0 => failing = {}
          /\ faults' <= 1 => \A x, y \in failing : x = y
      BY <2>1, FailingFinite, FaultsCounted
    <2>3. excused => excused'
      BY <2>1, Zenon
    <2>4. UNCHANGED <<report, finish, reported>>
      BY <1>7 DEF ClearRecord, boot
    <2>5. faults' <= 1 /\ report' /\ finish'.real \in reported' => excused'
      BY <1>0, <2>2, <2>3, <2>4 DEF Forgotten
    <2>6. CASE "commit" \in failing
      <3>1. excused'
        BY <2>1, <2>6, Zenon
      <3>2. QED
        BY <2>5, <3>1 DEF Forgotten, Tolerated
    <2>7. CASE "commit" \notin failing
      <3>1. disk' = store'
        BY <2>1, <2>7
      <3>2. faults' = 0 => store'["finish"] = None
        BY <2>1, <2>2
      <3>3. faults' <= 1 => store'["finish"] = None \/ store'["target"] = None
        BY <2>1, <2>2
      <3>4. QED
        BY <2>5, <3>1, <3>2, <3>3 DEF Forgotten, Lingers
    <2>8. QED
      BY <2>6, <2>7
  <1>8. ASSUME NEW outcome \in {"installed", "deferred"}, InstallEnds(outcome)
        PROVE  Forgotten'
    <2>1. PICK failing \in SUBSET {"finish", "target", "commit", "persist"} :
            /\ CountFaults(failing)
            /\ store'["finish"] = IF "finish" \in failing THEN store["finish"] ELSE Reading(plan)
            /\ disk' = disk \/ disk' = store'
            /\ failing = {} => disk' = store'
      BY <1>8, Finished
    <2>2. /\ faults <= faults'
          /\ faults' = 0 => failing = {}
          /\ faults' <= 1 => faults = 0 \/ failing = {}
      BY <2>1, FailingFinite, FaultsCounted
    <2>3. UNCHANGED <<report, finish, reported, excused>> /\ pc = "installing"
      BY <1>8 DEF InstallEnds
    <2>4. Reading(plan).real \notin reported
      <3>1. Reading(plan).real = real
        BY <2>3, ReadingTyped DEF TypeOK
      <3>2. begun.real \in Nat /\ real \in Nat
        BY <2>3 DEF TypeOK, Readings
      <3>3. begun.real < real /\ \A t \in reported : t <= begun.real
        BY <1>8, <2>3, <3>2 DEF InstallEnds, Chronicle
      <3>4. QED
        BY <3>1, <3>2, <3>3
    <2>5. Tolerated => Tolerated'
      BY <2>3 DEF Tolerated
    <2>6. faults' = 0 => ~Lingers(store)' /\ ~Lingers(disk)'
      BY <2>1, <2>2, <2>3, <2>4 DEF Lingers
    <2>7. faults' <= 1 => (Lingers(store)' => Tolerated')
      <3>1. Lingers(store)' => "finish" \in failing /\ Lingers(store)
        BY <2>1, <2>3, <2>4 DEF Lingers
      <3>2. faults' <= 1 /\ Lingers(store)' => faults = 0 /\ Lingers(store)
        BY <2>2, <3>1
      <3>3. QED
        BY <2>5, <3>2 DEF Forgotten
    <2>8. faults' <= 1 => (Lingers(disk)' /\ disk'["target"] # None => Tolerated')
      <3>1. CASE disk' = store'
        BY <2>7, <3>1 DEF Lingers
      <3>2. CASE disk' = disk
        BY <1>0, <2>2, <2>3, <2>5, <3>2 DEF Forgotten, Lingers
      <3>3. QED
        BY <2>1, <3>1, <3>2
    <2>9. faults' <= 1 /\ report' /\ finish'.real \in reported' => excused'
      BY <1>0, <2>2, <2>3 DEF Forgotten
    <2>10. QED
      BY <2>6, <2>7, <2>8, <2>9 DEF Forgotten
  <1>9. QED
    BY <1>2, <1>3, <1>4, <1>5, <1>6, <1>7, <1>8 DEF Next

\* The wait for one reboot is reported once, unless power is lost between the
\* report and the commit that forgets it, or that commit fails; one failed
\* storage operation of any other kind does not repeat it.
THEOREM WaitReportedOnce == Spec => []ReportedOnce
  <1>1. Init => Chronicle /\ Forgotten
    BY DEF Init, Chronicle, Past, Forgotten, Lingers, Keys
  <1>2. Forgotten => ReportedOnce
    BY DEF Forgotten, ReportedOnce
  <1>3. QED
    BY <1>1, <1>2, ChronicleNext, ForgottenNext, TypeCorrect, PTL DEF Spec

=============================================================================
