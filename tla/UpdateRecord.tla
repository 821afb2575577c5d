---------------------------- MODULE UpdateRecord ----------------------------
(***************************************************************************)
(* What the state machine remembers of an update across boots, for its     *)
(* metrics: when a plan was first seen, and when and to which version an   *)
(* update was finished (record_update_first_seen_time, the end of          *)
(* perform_update_check, and the top of run()'s loop).                     *)
(*                                                                         *)
(* The wall clock may be wrong and may be set; storage operations may      *)
(* fail; the device may lose power at any step. Recorded clock readings    *)
(* carry, as history, the real time they were taken at and the plan they   *)
(* are about.                                                              *)
(***************************************************************************)
EXTENDS Integers, FiniteSets

CONSTANTS
    Plans,          \* what Omaha may offer: [system, version, announced], where
                    \* system: the system app is updated, to version;
                    \* announced: the version in the manifest, or "UNKNOWN"
    Offsets,        \* how wrong the wall clock may be
    FirstVersion,   \* the version of the OS the device comes with
    None,           \* a key that is not set
    MaxTime,        \* bound on real time
    MaxFaults       \* bound on failed storage operations

ASSUME OffsetsAssumption == Offsets \subseteq Int /\ 0 \in Offsets
ASSUME BoundsAssumption == MaxTime \in Nat /\ MaxFaults \in Nat

VARIABLES
    pc,             \* where run() is
    real,           \* real time
    offset,         \* the wall clock shows real + offset
    os,             \* config.os.version
    slot,           \* the version the next boot starts
    store,          \* storage as get() sees it
    disk,           \* storage as last committed
    finish,         \* run()'s update_finish_time, read once
    report,         \* run()'s should_report_waited_for_reboot_duration
    started,        \* state_machine_start_monotonic_time
    plan,           \* the plan being installed
    firstSeen,      \* update_first_seen_time of that install
    begun,          \* update_start_time of that install
    faults,         \* storage operations that have failed
    origin,         \* history: when the plan of the record was first started
    reported,       \* history: the updates (by the real time they were
                    \* finished at) whose wait was reported
    excused         \* history: forgetting a reported record was cut short

clock == <<real, offset>>
disks == <<store, disk, faults>>
boot == <<os, slot, finish, report, started>>
install == <<plan, firstSeen, begun>>
history == <<origin, reported, excused>>
vars == <<pc, clock, disks, boot, install, history>>

Keys == {"plan", "firstSeen", "finish", "target"}

\* time_source.now_in_walltime(); a reading of it about plan p.
Wall == real + offset
Reading(p) == [wall |-> Wall, real |-> real, of |-> p]

Readings == [wall : Int, real : 0..MaxTime, of : Plans]

ASSUME NoneAssumption == None \notin Plans \cup Readings

\* The plan's id, and times of which each is about a plan; the target version
\* is a string like any other.
Stored(s) ==
    /\ DOMAIN s = Keys
    /\ s["plan"] \in Plans \cup {None}
    /\ s["firstSeen"] \in Readings \cup {None}
    /\ s["finish"] \in Readings \cup {None}

TypeOK ==
    /\ pc \in {"off", "top", "clearing", "waiting", "installing", "reboot"}
    /\ real \in 0..MaxTime
    /\ offset \in Offsets
    /\ Stored(store) /\ Stored(disk)
    /\ finish \in Readings \cup {None}
    /\ report \in BOOLEAN
    /\ report => finish # None
    /\ started \in 0..MaxTime
    /\ plan \in Plans \cup {None}
    /\ firstSeen \in Readings \cup {None}
    /\ begun \in Readings \cup {None}
    /\ pc = "installing" => plan # None /\ firstSeen # None /\ begun # None
    /\ faults \in 0..MaxFaults
    /\ origin \in Readings \cup {None}
    /\ reported \subseteq 0..MaxTime
    /\ excused \in BOOLEAN

Init ==
    /\ pc = "off"
    /\ real = 0
    /\ offset \in Offsets
    /\ os = FirstVersion
    /\ slot = FirstVersion
    /\ store = [k \in Keys |-> None]
    /\ disk = store
    /\ finish = None
    /\ report = FALSE
    /\ started = 0
    /\ plan = None
    /\ firstSeen = None
    /\ begun = None
    /\ faults = 0
    /\ origin = None
    /\ reported = {}
    /\ excused = FALSE

-----------------------------------------------------------------------------
(***************************************************************************)
(* Storage: an operation takes effect or, at the cost of a fault, does not *)
(***************************************************************************)

Set(s, k, v, failing) == IF k \in failing THEN s ELSE [s EXCEPT ![k] = v]
Remove(s, k, failing) == Set(s, k, None, failing)
Commit(s, failing) == IF "commit" \in failing THEN disk ELSE s

CountFaults(failing) ==
    /\ faults + Cardinality(failing) <= MaxFaults
    /\ faults' = faults + Cardinality(failing)

-----------------------------------------------------------------------------
(***************************************************************************)
(* run(): the report of the wait for the reboot                            *)
(***************************************************************************)

\* A new machine reads the finish time of the last update, and whether it is
\* now running what that update installed.
Start ==
    /\ pc = "off"
    /\ pc' = "top"
    /\ started' = real
    /\ finish' = store["finish"]
    /\ report' = /\ store["finish"] # None
                 /\ store["target"] # None
                 /\ store["target"] = os
    /\ UNCHANGED <<clock, disks, os, slot, install, history>>

\* Mutant: the time since the machine started is not taken off.
SinceStartIgnored == 0

\* report_waited_for_reboot_duration: none if the clock makes no sense.
SinceFinish == Wall - finish.wall
SinceStart == real - started
Waited == SinceFinish - SinceStart
CanReport == SinceFinish >= 0 /\ Waited >= 0

Report ==
    /\ pc = "top"
    /\ report
    /\ CanReport
    /\ reported' = reported \cup {finish.real}
    /\ report' = FALSE
    /\ pc' = "clearing"
    /\ UNCHANGED <<clock, disks, os, slot, finish, started, install, origin,
                   excused>>

\* Nothing to report, or nothing sensible: the loop goes on, to try again.
NoReport ==
    /\ pc = "top"
    /\ report => ~CanReport
    /\ pc' = "waiting"
    /\ UNCHANGED <<clock, disks, boot, install, history>>

\* Mutant: the removal of the record is not committed.
ClearRecordUncommitted ==
    /\ pc = "clearing"
    /\ pc' = "waiting"
    /\ store' = Remove(Remove(store, "finish", {}), "target", {})
    /\ UNCHANGED <<clock, disk, faults, boot, install, history>>

ClearRecord ==
    /\ pc = "clearing"
    /\ pc' = "waiting"
    /\ \E failing \in SUBSET {"finish", "target", "commit"} :
         /\ store' = Remove(Remove(store, "finish", failing), "target", failing)
         /\ disk' = Commit(store', failing)
         /\ CountFaults(failing)
         /\ excused' = (excused \/ "commit" \in failing)
    /\ UNCHANGED <<clock, boot, install, origin, reported>>

\* A turn of the loop without an update: the policy refuses the check, or it
\* ends with persist_data and its commit.
Turn ==
    /\ pc = "waiting"
    /\ pc' = "top"
    /\ \/ UNCHANGED <<disk, faults>>
       \/ \E failing \in SUBSET {"commit"} :
            /\ disk' = Commit(store, failing)
            /\ CountFaults(failing)
    /\ UNCHANGED <<clock, store, boot, install, history>>

-----------------------------------------------------------------------------
(***************************************************************************)
(* perform_update_check: an update                                         *)
(***************************************************************************)

\* record_update_first_seen_time: a plan that is already recorded keeps its
\* time; else id and time are set and committed, or the id is taken back.
KeepFirstSeen(p) ==
    /\ store["plan"] = p
    /\ firstSeen' = IF store["firstSeen"] = None THEN Reading(p) ELSE store["firstSeen"]
    /\ UNCHANGED disks

\* Mutants: the record is not committed; half a record is not taken back.
RecordFirstSeenUncommitted(p) ==
    /\ store["plan"] # p
    /\ firstSeen' = Reading(p)
    /\ store' = [store EXCEPT !["plan"] = p, !["firstSeen"] = Reading(p)]
    /\ UNCHANGED <<disk, faults>>

RecordFirstSeenHalf(p) ==
    /\ store["plan"] # p
    /\ firstSeen' = Reading(p)
    /\ \E failing \in {{}, {"firstSeen"}} :
         /\ store' = Set([store EXCEPT !["plan"] = p], "firstSeen", Reading(p), failing)
         /\ disk' = IF failing = {} THEN store' ELSE disk
         /\ CountFaults(failing)

RecordFirstSeen(p) ==
    /\ store["plan"] # p
    /\ firstSeen' = Reading(p)
    /\ \E failing \in {{}, {"plan"}, {"firstSeen"}, {"firstSeen", "undo"}, {"commit"}} :
         /\ store' = CASE "plan" \in failing -> store
                       [] "firstSeen" \in failing ->
                            [store EXCEPT !["plan"] = IF "undo" \in failing THEN p ELSE None]
                       [] OTHER -> [store EXCEPT !["plan"] = p, !["firstSeen"] = Reading(p)]
         /\ disk' = IF failing \subseteq {"commit"} THEN Commit(store', failing) ELSE disk
         /\ CountFaults(failing)

StartInstall ==
    /\ pc = "waiting"
    /\ pc' = "installing"
    /\ \E p \in Plans :
         /\ plan' = p
         /\ begun' = Reading(p)
         /\ KeepFirstSeen(p) \/ RecordFirstSeen(p)
         /\ origin' = IF origin # None /\ origin.of = p THEN origin ELSE Reading(p)
    /\ UNCHANGED <<clock, boot, reported, excused>>

\* perform_update_check returns, and its locals go.
InstallOver == plan' = None /\ firstSeen' = None /\ begun' = None

\* An app fails to install: no record, and no reboot; persist_data commits.
InstallFails ==
    /\ pc = "installing"
    /\ real > begun.real
    /\ pc' = "top"
    /\ \E failing \in SUBSET {"commit"} :
         /\ disk' = Commit(store, failing)
         /\ CountFaults(failing)
    /\ InstallOver
    /\ UNCHANGED <<clock, store, boot, history>>

\* No app fails, though the installer may have deferred them all: the finish
\* time and, for a system update, the version are recorded; the record is
\* committed here and again by persist_data.
InstallEnds(outcome) ==
    /\ pc = "installing"
    /\ real > begun.real
    /\ slot' = IF outcome = "installed" /\ plan.system THEN plan.version ELSE slot
    /\ \E failing \in SUBSET {"finish", "target", "commit", "persist"} :
         LET timed == Set(store, "finish", Reading(plan), failing) IN
         /\ store' = IF plan.system
                       THEN Set(timed, "target", plan.announced, failing) ELSE timed
         /\ disk' = IF "persist" \in failing THEN Commit(store', failing) ELSE store'
         /\ CountFaults(failing)
    /\ pc' \in {"top", "reboot"}
    /\ InstallOver
    /\ UNCHANGED <<clock, os, finish, report, started, origin, reported, excused>>

-----------------------------------------------------------------------------

\* perform_reboot returns.
RebootFails ==
    /\ pc = "reboot"
    /\ pc' = "top"
    /\ UNCHANGED <<clock, disks, boot, install, history>>

\* A reboot, or a loss of power: what was not committed is gone.
Restart ==
    /\ pc # "off"
    /\ pc' = "off"
    /\ os' = slot
    /\ store' = disk
    /\ excused' = (excused \/ pc = "clearing")
    /\ finish' = None
    /\ report' = FALSE
    /\ started' = 0
    /\ InstallOver
    /\ UNCHANGED <<clock, disk, faults, slot, origin, reported>>

Tick ==
    /\ real < MaxTime
    /\ real' = real + 1
    /\ UNCHANGED <<pc, offset, disks, boot, install, history>>

SetClock ==
    /\ offset' \in Offsets \ {offset}
    /\ UNCHANGED <<pc, real, disks, boot, install, history>>

Next ==
    \/ Start \/ Report \/ NoReport \/ ClearRecord \/ Turn
    \/ StartInstall \/ InstallFails
    \/ \E outcome \in {"installed", "deferred"} : InstallEnds(outcome)
    \/ RebootFails \/ Restart
    \/ Tick \/ SetClock

Spec == Init /\ [][Next]_vars

-----------------------------------------------------------------------------
(***************************************************************************)
(* Properties                                                              *)
(***************************************************************************)

\* The time of SuccessfulUpdateFromFirstSeen is that of the plan being
\* installed, and survives crashes, failed installs and clock changes: as
\* long as no storage operation has failed, it is when the plan was first
\* started since another plan was.
FirstSeenSurvives ==
    pc = "installing" /\ faults = 0 => firstSeen = origin

\* No single failure of storage makes a plan inherit the first-seen time of
\* another: an id that is set without its time is taken back, and nothing of
\* it is committed. (Two failures in a row, of the time and of taking back
\* the id, do; the code knows no remedy.)
FirstSeenIsOwn ==
    pc = "installing" /\ faults <= 1 => firstSeen.of = plan

\* The wait reported is the real one, from the end of the update to the start
\* of the machine after the reboot, even when the clock is put right long
\* after the machine started and the report is only then possible: it is
\* wrong only if the clock was wrong by another amount when the update ended.
ReportedWaitIsReal ==
    pc = "top" /\ report /\ CanReport /\ offset = finish.wall - finish.real
      => Waited = started - finish.real

\* The wait for one reboot is reported once, unless power is lost between the
\* report and the commit that forgets it, or that commit fails: a single
\* failure to remove either of the two keys does not repeat the report.
ReportedOnce ==
    pc = "top" /\ report /\ CanReport /\ finish.real \in reported /\ faults <= 1 => excused

-----------------------------------------------------------------------------
(***************************************************************************)
(* What comments in the source say and the code does not do                *)
(***************************************************************************)

\* WaitedForRebootDuration: "from having finished applying the update to when
\* finally running that software": the update whose finish time is reported is
\* the one that installed the version now running.
ReportIsOfRunningSoftware ==
    pc = "clearing" => finish.of.system /\ finish.of.version = os
=============================================================================
