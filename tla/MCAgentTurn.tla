----------------------------- MODULE MCAgentTurn -----------------------------
(***************************************************************************)
(* Instances of AgentTurn for TLC.                                         *)
(***************************************************************************)
EXTENDS AgentTurn

NewSession == {<< >>}

(* A batch in which a consequential call waits behind a harmless one, and  *)
(* one whose first call is not registered.                                 *)
TwoBatches == {<<"local", "guarded">>, <<"unknown">>}

OneBatch == {<<"guarded">>}
===============================================================================
