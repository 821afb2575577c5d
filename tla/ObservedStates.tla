--------------------------- MODULE ObservedStates ---------------------------
(***************************************************************************)
(* The promise an observer of the event stream can rely on: which State    *)
(* may follow which in the StateChange events of one state machine, that a *)
(* reboot is only ever announced out of an installation, that the machine  *)
(* comes back to Idle before it checks again, and that a check that was    *)
(* started is finished.                                                    *)
(*                                                                         *)
(* ControlLoop (run and wait_for_reboot) and UpdateCheck                   *)
(* (start_update_check and perform_update_check) both implement it, and    *)
(* ControlLoop is built on its actions for the update check it drives.     *)
(***************************************************************************)

VARIABLES
    observed,   \* the last State yielded; "Idle" also before the first one,
                \* "Ended" once the stream is over
    check,      \* the update check: "none", "running" or "over" (it has
                \* returned and the loop has not gone back to Idle yet)
    reboot      \* it returned RebootAfterUpdate::Needed

vars == <<observed, check, reboot>>

\* enum State, and the end of the stream.
State == {"Idle", "CheckingForUpdates", "ErrorCheckingForUpdate",
          "NoUpdateAvailable", "InstallationDeferredByPolicy",
          "InstallingUpdate", "WaitingForReboot", "InstallationError"}

ObservedState == State \cup {"Ended"}

CheckStatus == {"none", "running", "over"}

\* The States perform_update_check may yield after it has yielded s.
Successors(s) ==
    CASE s = "CheckingForUpdates" ->
           {"ErrorCheckingForUpdate", "NoUpdateAvailable",
            "InstallationDeferredByPolicy", "InstallingUpdate"}
      [] s = "InstallingUpdate" -> {"InstallationError"}
      [] OTHER -> {}

Init ==
    /\ observed = "Idle"
    /\ check = "none"
    /\ reboot = FALSE

-----------------------------------------------------------------------------

Begin ==
    /\ check = "none"
    /\ observed = "Idle"
    /\ observed' = "CheckingForUpdates"
    /\ check' = "running"
    /\ UNCHANGED reboot

Announce ==
    /\ check = "running"
    /\ observed' \in Successors(observed)
    /\ UNCHANGED <<check, reboot>>

\* Only an installation that has not ended in an error can ask for a reboot.
Finish ==
    /\ check = "running"
    /\ check' = "over"
    /\ reboot' \in (IF observed = "InstallingUpdate" THEN BOOLEAN ELSE {FALSE})
    /\ UNCHANGED observed

AwaitReboot ==
    /\ check = "over"
    /\ reboot
    /\ observed # "WaitingForReboot"
    /\ observed' = "WaitingForReboot"
    /\ UNCHANGED <<check, reboot>>

Rest ==
    /\ check = "over"
    /\ reboot => observed = "WaitingForReboot"
    /\ observed' = "Idle"
    /\ check' = "none"
    /\ reboot' = FALSE

\* The machine is gone: it returned at once, its stream was dropped, or the
\* device lost power or was rebooted.
End ==
    /\ observed # "Ended"
    /\ observed' = "Ended"
    /\ check' = "none"
    /\ reboot' = FALSE

\* A new machine is built and started.
Boot ==
    /\ observed = "Ended"
    /\ observed' = "Idle"
    /\ UNCHANGED <<check, reboot>>

Next == Begin \/ Announce \/ Finish \/ AwaitReboot \/ Rest \/ End \/ Boot

Spec == Init /\ [][Next]_vars /\ WF_vars(Announce \/ Finish)

Safety == Init /\ [][Next]_vars
=============================================================================
