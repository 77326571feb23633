----------------------------- MODULE MCNetScene -----------------------------
(* NetScene on small instances, with peers that are model values.  Nothing *)
(* in NetScene tells one peer from another, but the runs with liveness     *)
(* properties cannot use that symmetry, so none does.                      *)
EXTENDS NetScene, TLC

=============================================================================
