------------------------- MODULE MCInstallProgress -------------------------
(* InstallProgress with a few items and reports. *)
EXTENDS InstallProgress
=============================================================================
