---------------------------- MODULE MCSelectView ----------------------------
(* SelectView on small instances.                                          *)
EXTENDS SelectView, TLC

=============================================================================
