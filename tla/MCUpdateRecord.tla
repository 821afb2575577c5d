-------------------------- MODULE MCUpdateRecord --------------------------
(* UpdateRecord with a system update, one whose manifest has no version, *)
(* and an update of another app.                                         *)
EXTENDS UpdateRecord

SmallPlans ==
    { [system |-> TRUE, version |-> "v2", announced |-> "v2"],
      [system |-> TRUE, version |-> "v3", announced |-> "UNKNOWN"],
      [system |-> FALSE, version |-> "none", announced |-> "none"] }

SmallOffsets == {0, 2}
=============================================================================
