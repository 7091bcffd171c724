----------------------------- MODULE MCSession -----------------------------
(***************************************************************************)
(* Instances of Session for TLC.                                           *)
(***************************************************************************)
EXTENDS Session, TLC

Symmetry == Permutations(Threads) \cup Permutations(Terms)
=============================================================================
