-------------------------- MODULE MCWorkspaceFiles --------------------------
(* Two sessions and two names.  Symmetry is sound: every property is an    *)
(* invariant or an action property.                                        *)
EXTENDS WorkspaceFiles, TLC

CONSTANTS s1, s2, x, y

Symmetry == Permutations({s1, s2}) \cup Permutations({x, y})
=============================================================================
