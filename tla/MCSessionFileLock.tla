--------------------------- MODULE MCSessionFileLock ---------------------------
(***************************************************************************)
(* Instances of SessionFileLock for TLC.                                   *)
(***************************************************************************)
EXTENDS SessionFileLock, TLC

CONSTANTS p1, p2, p3, here, there

(* Every process on one machine, the case the reclaim code is about.       *)
OneHost == [p \in Proc |-> here]

(* p3 shares the directory from another machine.                           *)
TwoHosts == [p \in Proc |-> IF p = p3 THEN there ELSE here]

Symmetry == Permutations(Proc)
===============================================================================
