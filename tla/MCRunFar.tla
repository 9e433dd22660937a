------------------------------ MODULE MCRunFar ------------------------------
(* Instances of RunFar; the configurations give its constants their values. *)
EXTENDS RunFar
=============================================================================
