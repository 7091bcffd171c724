---------------------------- MODULE MCWorkspaces ----------------------------
EXTENDS Workspaces, TLC

\* Any session may ask for anything: they are interchangeable.
SessionSymmetry == Permutations(Sessions)
=============================================================================
