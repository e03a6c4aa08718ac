--------------------------- MODULE MCHarnessSession ---------------------------
(***************************************************************************)
(* Instances of HarnessSession for TLC.                                    *)
(***************************************************************************)
EXTENDS HarnessSession

Call == [id |-> <<1, 1>>, kind |-> "local"]

(* A turn that called a tool, and one that did not.                        *)
ToolTurn(t) ==
    <<TurnStart(t), UserMessage(t), StepStart(t, 1), ToolCalls(t, <<Call>>),
      ToolCall(t, Call), ToolResult(t, Call, "ok"), StepEnd(t, 1, "tool_calls"),
      StepStart(t, 2), AssistantMessage(t), StepEnd(t, 2, "completed"),
      TurnEnd(t, "completed")>>

MessageTurn(t) ==
    <<TurnStart(t), UserMessage(t), StepStart(t, 1), AssistantMessage(t),
      StepEnd(t, 1, "completed"), TurnEnd(t, "completed")>>

(* A session with two closed turns: enough for a compaction that retains   *)
(* one of them.                                                            *)
TwoTurns == {ToolTurn(1) \o MessageTurn(2)}

(* With the batch of the first turn, one more per session is possible.      *)
OneCall == {<<"local">>}
===============================================================================
