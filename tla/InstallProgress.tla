-------------------------- MODULE InstallProgress --------------------------
(***************************************************************************)
(* The progress of an installation: while perform_update_check installs,   *)
(* it joins the installer, which reports progress to a                     *)
(* StateMachineProgressObserver, with a loop that takes the reports from a *)
(* channel and yields them. Both are polled by the one task that           *)
(* AsyncGenerator turns into the stream of the machine's events; what the  *)
(* task does before and after the installation is any task's.              *)
(***************************************************************************)
EXTENDS AsyncGenerator

CONSTANTS
    MaxReports,     \* bound on the reports of an installer
    MaxBurst        \* bound on its reports in one poll

ASSUME ReportsAssumption == MaxReports \in Nat /\ MaxBurst \in Nat

VARIABLES
    phase,          \* "before" the installation, "installing" or "after" it
    installer,      \* perform_install: "ready" to run, "awaiting" something,
                    \* "reporting" (it awaits receive_progress), or "returned"
    reports,        \* the channel of capacity 0 behind the observer: every
                    \* receive_progress has a Sender, and so a place, of its own
    reported,       \* history: the number of reports made
    progress        \* history: the reports yielded as InstallProgressChange

installation == <<phase, installer, reports, reported, progress>>
installVars == <<vars, installation>>

InstallInit ==
    /\ Init
    /\ phase = "before"
    /\ installer = "ready"
    /\ reports = <<>>
    /\ reported = 0
    /\ progress = <<>>

-----------------------------------------------------------------------------

\* receive_progress is over once its report has been taken from the channel.
InstallerRuns == installer = "ready" \/ (installer = "reporting" /\ reports = <<>>)

\* Where one poll may leave the installer, and how many reports it has made: it
\* may await a report, make several at once, or give one up.
InstallerPolls ==
    IF InstallerRuns
      THEN {i \in [state : {"awaiting", "reporting", "returned"}, made : 0..MaxBurst] :
              /\ reported + i.made <= MaxReports
              /\ sent + Len(reports) + i.made <= MaxItems
              /\ i.state = "reporting" => i.made > 0}
      ELSE {[state |-> installer, made |-> 0]}

\* Mutant: the join is over with the installer.
JoinOverWithInstaller(i, queue) == i.state = "returned"

\* Mutant: the observer outlives the installation, and so does the channel.
JoinNeverOver(i, queue) == FALSE

\* The installer has returned, and the channel, which is closed with its
\* observer, has been emptied.
JoinOver(i, queue) == i.state = "returned" /\ queue = <<>>

\* Mutant: the installation starts although a yield_ waits for room.
StartsTooSoon == phase = "before" /\ Runs /\ ~closed

\* The task comes to the join in a poll in which it has not yielded yet.
Starts == phase = "before" /\ Runs /\ task # "blocked" /\ ~closed

\* One poll of the join: the installer, then the loop over its reports. A
\* finished join is left in the same poll.
PollInstall(i) ==
    LET queue == reports \o [n \in 1..i.made |-> reported + n]
    IN /\ phase = "installing" \/ Starts
       /\ installer' = i.state
       /\ reported' = reported + i.made
       /\ \/ /\ JoinOver(i, queue)
             /\ \E o \in Outcomes : PollNext(o)
             /\ phase' = "after"
             /\ UNCHANGED <<reports, progress>>
          \/ /\ ~JoinOver(i, queue)
             /\ queue # <<>>
             /\ PollNext([task |-> "sending", yields |-> TRUE, closed |-> FALSE])
             /\ phase' = "installing"
             /\ reports' = Tail(queue)
             /\ progress' = Append(progress, Head(queue))
          \/ /\ ~JoinOver(i, queue)
             /\ queue = <<>>
             /\ PollNext([task |-> "waiting", yields |-> FALSE, closed |-> FALSE])
             /\ phase' = "installing"
             /\ reports' = queue
             /\ UNCHANGED progress

\* Any other poll of the task.
PollOther == phase # "installing" /\ Poll /\ UNCHANGED installation

InstallPoll == PollOther \/ \E i \in InstallerPolls : PollInstall(i)

\* What the installer awaits happens, and wakes the task it is part of.
InstallerEvent ==
    /\ phase = "installing"
    /\ installer = "awaiting"
    /\ installer' = "ready"
    /\ IF task = "waiting" THEN EventHappens ELSE UNCHANGED vars
    /\ UNCHANGED <<phase, reports, reported, progress>>

OtherEvent == phase # "installing" /\ EventHappens /\ UNCHANGED installation

InstallNext ==
    \/ InstallPoll
    \/ InstallerEvent \/ OtherEvent
    \/ PolledAnyway /\ UNCHANGED installation
    \/ Finished /\ UNCHANGED installation

\* A consumer that is awake polls, and what is awaited happens; nothing says
\* that a stream is polled unless its task was woken.
InstallSpec ==
    /\ InstallInit /\ [][InstallNext]_installVars
    /\ WF_installVars(InstallPoll)
    /\ WF_installVars(InstallerEvent) /\ WF_installVars(OtherEvent)

-----------------------------------------------------------------------------
(***************************************************************************)
(* Properties                                                              *)
(***************************************************************************)

\* Observers see what the installer reported: in order, each report once, and
\* every report, also one whose future was dropped or that was made in the
\* poll in which the installer returned, before whatever the machine yields
\* after the installation.
ProgressComplete ==
    /\ \A n \in 1..Len(progress) : progress[n] = n
    /\ phase = "after" => Len(progress) = reported

\* "Drop observer so that we can stop waiting for the next progress": once the
\* installer has returned the check goes on, and no installer waits for ever
\* for its report to be received, although the one who yields the reports is
\* polled by the same task, and only after the installer.
InstallationEnds ==
    /\ (installer = "returned") ~> (phase = "after")
    /\ (installer = "reporting") ~> (installer # "reporting" \/ InstallerRuns)

\* The machine's task, with two futures in it that wait for each other, is
\* still a task as generate() expects it: it has at most one item under way,
\* and does not run on while its yield_ waits.
IsGeneratorTask == Spec
=============================================================================
