------------------------------ MODULE MCLanes ------------------------------
(* Instances of Lanes; the configurations give its constants their values. *)
EXTENDS Lanes
=============================================================================
