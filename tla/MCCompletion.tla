---------------------------- MODULE MCCompletion ----------------------------
(***************************************************************************)
(* Instances of Completion for TLC.                                        *)
(***************************************************************************)
EXTENDS Completion

MCDrops1 == {1}
MCDrops2 == {1, 2}

\* A pair holds the main roles.
MCBoth == {"builder", "reviewer"}

\* The one report that can bring a gate to acceptance.
MCOneReport == {[status |-> "pass", cites |-> TRUE, signs |-> TRUE]}
MCNothing   == {}

MCAccept  == {"pass"}
MCRosters == {MainGates}
=============================================================================
