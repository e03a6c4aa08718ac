------------------------------ MODULE SessionLog ------------------------------
(***************************************************************************)
(* The append-only event log of a session and the two functions derived    *)
(* from it: the surface a model request is built from                      *)
(* (src/harness/session/src/index.ts) and the closing events a store adds  *)
(* when it loads a log that was cut short                                  *)
(* (src/harness/session-file/src/index.ts).                                *)
(*                                                                         *)
(* An event keeps what these functions read: its type, its turn and the    *)
(* step, call, outcome or sequences it names.  Text, usage and model names *)
(* are left out.  Turn and command numbers stand for the ids made of them; *)
(* 0 is "none".  Both functions are scans of the log, as in the code.      *)
(***************************************************************************)
EXTENDS Naturals, Sequences, FiniteSets, SequencesExt

(* protocol: SessionEvent.                                                 *)
TurnStart(t) == [type |-> "turn/start", turn |-> t]
UserMessage(t) == [type |-> "user/message", turn |-> t]
StepStart(t, s) == [type |-> "step/start", turn |-> t, step |-> s]
AssistantMessage(t) == [type |-> "assistant/message", turn |-> t]
ToolCalls(t, calls) == [type |-> "assistant/tool-calls", turn |-> t, calls |-> calls]
ToolCall(t, c) == [type |-> "tool/call", turn |-> t, call |-> c]
ApprovalAsked(t, c) == [type |-> "approval/asked", turn |-> t, call |-> c]
ApprovalDecided(t, c, o) ==
    [type |-> "approval/decided", turn |-> t, call |-> c, outcome |-> o]
SandboxPrepared(t, c) == [type |-> "sandbox/prepared", turn |-> t, call |-> c]
ToolResult(t, c, o) == [type |-> "tool/result", turn |-> t, call |-> c, outcome |-> o]
StepEnd(t, s, o) == [type |-> "step/end", turn |-> t, step |-> s, outcome |-> o]
TurnError(t) == [type |-> "turn/error", turn |-> t]
TurnEnd(t, o) == [type |-> "turn/end", turn |-> t, status |-> o]
Summary(t, shadowed) ==
    [type |-> "compaction/summary", turn |-> t, shadowed |-> shadowed]
Decision(t, o, sequence) ==
    [type |-> "context-budget/decision", turn |-> t, outcome |-> o, summary |-> sequence]
CommandRun(k) == [type |-> "command/run", turn |-> 0, command |-> k]
CommandDone(k) == [type |-> "command/done", turn |-> 0, command |-> k]

(* The events there are.  A call is known by its step and its place in the *)
(* batch.                                                                  *)
Numbers == Nat \ {0}
Calls == [id : Numbers \X Numbers, kind : {"local", "guarded", "unknown"}]
Events ==
    [type : {"turn/start", "user/message", "assistant/message", "turn/error"}, turn : Numbers]
    \cup [type : {"step/start"}, turn : Numbers, step : Numbers]
    \cup [type : {"step/end"}, turn : Numbers, step : Numbers,
          outcome : {"tool_calls", "completed", "failed", "aborted", "interrupted"}]
    \cup [type : {"assistant/tool-calls"}, turn : Numbers, calls : Seq(Calls)]
    \cup [type : {"tool/call", "approval/asked", "sandbox/prepared"}, turn : Numbers, call : Calls]
    \cup [type : {"approval/decided"}, turn : Numbers, call : Calls,
          outcome : {"allowed-once", "rejected"}]
    \cup [type : {"tool/result"}, turn : Numbers, call : Calls,
          outcome : {"ok", "error", "not-started", "outcome-unknown",
                     "cancelled-before-start", "cancelled-outcome-unknown",
                     "failed-before-start", "failed-outcome-unknown"}]
    \cup [type : {"turn/end"}, turn : Numbers,
          status : {"completed", "failed", "aborted", "interrupted"}]
    \cup [type : {"compaction/summary"}, turn : Numbers, shadowed : Seq(Numbers)]
    \cup [type : {"context-budget/decision"}, turn : Numbers,
          outcome : {"compacted", "no_progress", "failed"}, summary : Nat]
    \cup [type : {"command/run", "command/done"}, turn : {0}, command : Numbers]

(* A scan of the log from its first event to its last.                     *)
Scan(op(_, _), base, log) ==
    LET upTo[i \in 0 .. Len(log)] == IF i = 0 THEN base ELSE op(upTo[i - 1], log[i])
    IN  upTo[Len(log)]

Count(log, type) == Cardinality({i \in DOMAIN log : log[i].type = type})
-------------------------------------------------------------------------------
(* deriveSessionSurface: the messages a request is built from, each with   *)
(* its sequence number.  "ok" turns FALSE where the code throws.           *)
EmptySurface == [ok |-> TRUE, nodes |-> << >>, at |-> 0, summaries |-> {},
                 closed |-> {}, openTurn |-> 0, openStep |-> 0]

Sequences(nodes) == [i \in DOMAIN nodes |-> nodes[i].sequence]

IsMessage(e) ==
    e.type \in {"user/message", "assistant/message", "assistant/tool-calls", "tool/result"}

SummaryFits(surface, e) ==
    LET n == Len(e.shadowed)
    IN  /\ surface.openStep = 0
        /\ e.turn \in surface.closed
        /\ n \in 1 .. Len(surface.nodes)
        /\ Sequences(SubSeq(surface.nodes, 1, n)) = e.shadowed
        /\ surface.nodes[n].turn = e.turn

Node(sequence, e) == [sequence |-> sequence, turn |-> e.turn, event |-> e]

(* A summary takes the place of the messages it shadows, and of no other.  *)
ShadowAll(s, e) == <<Node(s.at, e)>>                                \* mutant
Shadow(s, e) == <<Node(s.at, e)>> \o SubSeq(s.nodes, Len(e.shadowed) + 1, Len(s.nodes))

AddToSurface(surface, e) ==
    LET s == [surface EXCEPT !.at = @ + 1]
    IN  CASE IsMessage(e) -> [s EXCEPT !.nodes = Append(@, Node(s.at, e))]
          [] e.type = "turn/start" -> [s EXCEPT !.openTurn = e.turn]
          [] e.type = "turn/end" ->
               [s EXCEPT !.closed = @ \cup {e.turn},
                         !.openTurn = IF @ = e.turn THEN 0 ELSE @]
          [] e.type = "step/start" -> [s EXCEPT !.openStep = e.step]
          [] e.type = "step/end" -> [s EXCEPT !.openStep = IF @ = e.step THEN 0 ELSE @]
          [] e.type = "compaction/summary" ->
               IF SummaryFits(surface, e)
                 THEN [s EXCEPT !.nodes = Shadow(s, e), !.summaries = @ \cup {s.at}]
                 ELSE [s EXCEPT !.ok = FALSE]
          [] e.type = "context-budget/decision" /\ e.outcome = "compacted" ->
               [s EXCEPT !.ok = @ /\ e.summary \in s.summaries]
          [] OTHER -> s

Surface(log) == Scan(AddToSurface, EmptySurface, log)
-------------------------------------------------------------------------------
(* interruptedTurnClosers, first scan: commands are well bracketed and     *)
(* never overlap a turn.                                                   *)
NoCommands == [ok |-> TRUE, turn |-> 0, open |-> 0]

ScanCommand(scan, e) ==
    CASE e.type = "turn/start" ->
           [scan EXCEPT !.ok = @ /\ scan.open = 0, !.turn = e.turn]
      [] e.type = "turn/end" -> [scan EXCEPT !.turn = IF @ = e.turn THEN 0 ELSE @]
      [] e.type = "command/run" ->
           [scan EXCEPT !.ok = @ /\ scan.turn = 0 /\ scan.open = 0, !.open = e.command]
      [] e.type = "command/done" ->
           [scan EXCEPT !.ok = @ /\ scan.turn = 0 /\ scan.open = e.command, !.open = 0]
      [] OTHER -> scan

CommandScan(log) == Scan(ScanCommand, NoCommands, log)

(* Second scan: the turn that is still open at the end of the log.  Each   *)
(* call it has not answered is pending with what was recorded of it.       *)
NewTail == [ok |-> TRUE, step |-> 0, pending |-> << >>]
NewPending(c) == [call |-> c, started |-> FALSE, approval |-> "none", prepared |-> FALSE]

Is(tail, c, Test(_)) ==
    \E i \in DOMAIN tail.pending : tail.pending[i].call = c /\ Test(tail.pending[i])
Set(tail, c, New(_)) ==
    [i \in DOMAIN tail.pending |->
        IF tail.pending[i].call = c THEN New(tail.pending[i]) ELSE tail.pending[i]]
Answer(tail, c) == RemoveFirstMatch(tail.pending, LAMBDA p : p.call = c)

Refuse(tail) == [tail EXCEPT !.ok = FALSE]

(* Events of another turn, and those that cannot follow a turn's start.     *)
Foreign(turn, e) ==
    \/ e.type \in {"turn/start", "turn/end", "command/run", "command/done"}
    \/ e.type \notin {"compaction/summary", "context-budget/decision"} /\ e.turn # turn

ScanTail(turn, tail, e) ==
    IF Foreign(turn, e) THEN Refuse(tail) ELSE
    CASE e.type = "step/start" ->
           IF tail.step = 0 THEN [tail EXCEPT !.step = e.step] ELSE Refuse(tail)
      [] e.type = "assistant/tool-calls" ->
           IF tail.step # 0 /\ tail.pending = << >> /\ IsInjective(e.calls)
             THEN [tail EXCEPT !.pending = [i \in DOMAIN e.calls |-> NewPending(e.calls[i])]]
             ELSE Refuse(tail)
      [] e.type = "tool/call" ->
           IF tail.step # 0 /\ Is(tail, e.call, LAMBDA p : ~p.started)
             THEN [tail EXCEPT !.pending =
                     Set(tail, e.call, LAMBDA p : [p EXCEPT !.started = TRUE])]
             ELSE Refuse(tail)
      [] e.type = "approval/asked" ->
           IF tail.step # 0 /\ Is(tail, e.call, LAMBDA p : p.started /\ p.approval = "none")
             THEN [tail EXCEPT !.pending =
                     Set(tail, e.call,
                         LAMBDA p : [p EXCEPT !.approval = "asked", !.started = FALSE])]
             ELSE Refuse(tail)
      [] e.type = "approval/decided" ->
           IF tail.step # 0 /\ Is(tail, e.call, LAMBDA p : p.approval = "asked")
             THEN [tail EXCEPT !.pending =
                     Set(tail, e.call, LAMBDA p : [p EXCEPT !.approval = e.outcome])]
             ELSE Refuse(tail)
      [] e.type = "sandbox/prepared" ->
           IF /\ tail.step # 0
              /\ Is(tail, e.call, LAMBDA p : p.approval = "allowed-once" /\ ~p.prepared)
             THEN [tail EXCEPT !.pending =
                     Set(tail, e.call,
                         LAMBDA p : [p EXCEPT !.prepared = TRUE, !.started = TRUE])]
             ELSE Refuse(tail)
      [] e.type = "tool/result" ->
           IF tail.step # 0 /\ Is(tail, e.call, LAMBDA p : TRUE)
             THEN [tail EXCEPT !.pending = Answer(tail, e.call)]
             ELSE Refuse(tail)
      [] e.type = "step/end" ->
           IF tail.step = e.step /\ tail.pending = << >>
             THEN [tail EXCEPT !.step = 0] ELSE Refuse(tail)
      [] e.type = "assistant/message" -> IF tail.step # 0 THEN tail ELSE Refuse(tail)
      [] e.type \in {"compaction/summary", "context-budget/decision"} ->
           IF tail.step = 0 THEN tail ELSE Refuse(tail)
      [] OTHER -> tail

TurnScan(turn, log) == Scan(LAMBDA tail, e : ScanTail(turn, tail, e), NewTail, log)

IsMaintenance(e) ==
    e.type \in {"compaction/summary", "context-budget/decision", "command/run", "command/done"}

(* The events after the last turn/end, and after the turn/start in them.   *)
Suffix(log) == SubSeq(log, SelectLastInSeq(log, LAMBDA e : e.type = "turn/end") + 1, Len(log))

TailScan(log) ==
    LET suffix == Suffix(log)
        start == SelectInSeq(suffix, LAMBDA e : e.type = "turn/start")
        turn == suffix[start].turn
    IN  CASE start = 0 ->
               [turn |-> 0,
                scan |-> IF \A i \in DOMAIN suffix : IsMaintenance(suffix[i])
                           THEN NewTail ELSE Refuse(NewTail)]
          [] start # 0 /\ \E i \in 1 .. start - 1 : ~IsMaintenance(suffix[i]) ->
               [turn |-> turn, scan |-> Refuse(NewTail)]
          [] OTHER ->
               [turn |-> turn,
                scan |-> TurnScan(turn, SubSeq(suffix, start + 1, Len(suffix)))]

(* A store that finds a log it can derive no surface from, or one it       *)
(* cannot close, refuses to load.                                          *)
Loadable(log) == Surface(log).ok /\ CommandScan(log).ok /\ TailScan(log).scan.ok

Closers(log) ==
    LET command == CommandScan(log).open
        turn == TailScan(log).turn
        tail == TailScan(log).scan
        results == [i \in DOMAIN tail.pending |->
            ToolResult(turn, tail.pending[i].call,
                IF tail.pending[i].started THEN "outcome-unknown" ELSE "not-started")]
    IN  (IF command = 0 THEN << >> ELSE <<CommandDone(command)>>)
        \o IF turn = 0 THEN << >>
           ELSE results
                \o (IF tail.step = 0 THEN << >>
                    ELSE <<StepEnd(turn, tail.step, "interrupted")>>)
                \o <<TurnEnd(turn, "interrupted")>>
===============================================================================
