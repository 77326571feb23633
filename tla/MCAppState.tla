----------------------------- MODULE MCAppState -----------------------------
(* AppState on small instances.                                            *)
EXTENDS AppState, TLC

\* Nothing tells one address from another.
AddrSymmetry == Permutations(Addr)

=============================================================================
