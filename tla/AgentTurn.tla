------------------------------- MODULE AgentTurn -------------------------------
(***************************************************************************)
(* One session of a host process: AgentLoop.run drives a turn              *)
(* (src/harness/agent-loop/src/index.ts), the tool registry executes its   *)
(* calls behind approval and sandbox (src/harness/tools/src/index.ts), and *)
(* every event goes to the session file before the next thing happens.     *)
(* The process can die between any two appends; a new process loads the    *)
(* file and closes what was left open.                                     *)
(*                                                                         *)
(* A step of the model is one append, or one await that returns.  The code *)
(* between two awaits runs without interruption, so the labels in Awaiting *)
(* are the only ones at which somebody else may act; death is not so       *)
(* polite.  A label names what the loop does next or waits for:            *)
(*    user      append the user message       approve   approval.request   *)
(*    prepare   policy and prompt             sandbox   sandbox.prepare    *)
(*    model     the model's answer            effect    the tool runs      *)
(*    recover   policy after a model error    settle    execute returned   *)
(*    call      next call of the batch        finish, close  end the turn  *)
(*    catch, end   the catch block            down      no process         *)
(*                                                                         *)
(* Abstractions.  A call's kind stands for what the registry knows of its  *)
(* name: "local" (no risk), "guarded" (consequential) or "unknown" (not    *)
(* registered).  Call ids are unique within a turn.  "rejected" stands for *)
(* every approval outcome but allowed-once.  An append either reaches the  *)
(* file and memory or throws and reaches neither, which is what            *)
(* SessionFileLock shows of it.                                            *)
(***************************************************************************)
EXTENDS SessionLog

CONSTANTS
    InitialLogs,     \* the logs the session may have when the host starts
    Batches,         \* the batches of calls a model may answer with
    MaxSteps,        \* options.maxSteps
    MaxTurns,        \* bound: turns
    MaxBatches,      \* bound: batches of calls in one log
    MaxCrashes,      \* bound: process deaths
    MaxTransient,    \* bound: appends that fail and would succeed if retried
    StorageBreaks    \* may the file start refusing every append (a stale
                     \* writer, a full disk) until the process is replaced?

(* Each batch of calls is followed by exactly its results, in order,       *)
(* before anything else.                                                   *)
PairedSurface(nodes) ==
    /\ \A i \in DOMAIN nodes : nodes[i].event.type = "assistant/tool-calls" =>
         LET calls == nodes[i].event.calls
         IN  /\ i + Len(calls) <= Len(nodes)
             /\ \A k \in DOMAIN calls :
                  /\ nodes[i + k].event.type = "tool/result"
                  /\ nodes[i + k].event.call = calls[k]
                  /\ nodes[i + k].turn = nodes[i].turn
    /\ \A i \in DOMAIN nodes : nodes[i].event.type = "tool/result" =>
         \E j \in 1 .. i - 1 :
            /\ nodes[j].event.type = "assistant/tool-calls"
            /\ \E k \in DOMAIN nodes[j].event.calls :
                 j + k = i /\ nodes[j].event.calls[k] = nodes[i].event.call

(* Everything that was opened is closed, and every call is answered.       *)
Settled(l) ==
    /\ Count(l, "turn/start") = Count(l, "turn/end")
    /\ Count(l, "step/start") = Count(l, "step/end")
    /\ Surface(l).openTurn = 0 /\ Surface(l).openStep = 0
    /\ PairedSurface(Surface(l).nodes)

(* A session starts with what earlier runs left whose appends failed, if   *)
(* at all, for good: nothing open, the turns numbered in order.  What      *)
(* other failures leave is in storage.transient.                           *)
ASSUME LogAssumption ==
    \A l \in InitialLogs :
        /\ l \in Seq(Events) /\ Loadable(l)
        /\ CommandScan(l).open = 0 /\ TailScan(l).turn = 0
        /\ Settled(l)
        /\ \A i \in DOMAIN l : l[i].turn <= Count(l, "turn/start")
ASSUME BatchAssumption ==
    \A b \in Batches : b # << >> /\ b \in Seq({"local", "guarded", "unknown"})
ASSUME BoundAssumption ==
    /\ MaxSteps \in Nat \ {0} /\ MaxTurns \in Nat
    /\ MaxBatches \in Nat /\ MaxCrashes \in Nat /\ MaxTransient \in Nat
ASSUME StorageAssumption == StorageBreaks \in BOOLEAN

VARIABLES
    log,        \* the session's events, in the file and in memory
    loop,       \* the local state of AgentLoop.run
    running,    \* is the session in AgentLoop.#running?
    effects,    \* the calls whose tool has had an effect
    storage     \* what has gone wrong so far

vars == <<log, loop, running, effects, storage>>

Idle == [pc |-> "idle", turn |-> 0, step |-> 0, open |-> 0, pending |-> << >>,
         cancelled |-> FALSE, cause |-> "none", result |-> "none"]

Init ==
    /\ log \in InitialLogs
    /\ loop = Idle
    /\ running = FALSE
    /\ effects = {}
    /\ storage = [broken |-> FALSE, transient |-> 0, crashes |-> 0]

Awaiting ==
    {"idle", "down", "prepare", "model", "recover", "approve", "sandbox", "effect", "settle"}

At(label) == loop.pc = label
Goto(label) == [loop EXCEPT !.pc = label]

(* session.append(e), then the loop goes on as ok; or the append throws    *)
(* and the loop goes on as failed.                                         *)
AppendOr(e, ok, failed) ==
    \/ /\ ~storage.broken
       /\ log' = Append(log, e)
       /\ loop' = ok
       /\ UNCHANGED storage
    \/ /\ loop' = failed
       /\ \/ storage.broken /\ UNCHANGED storage
          \/ /\ ~storage.broken
             /\ storage.transient < MaxTransient
             /\ storage' = [storage EXCEPT !.transient = @ + 1]
          \/ /\ ~storage.broken
             /\ StorageBreaks
             /\ storage' = [storage EXCEPT !.broken = TRUE]
       /\ UNCHANGED log

(* Throwing inside the try block of run; a cancelled run says so.          *)
Caught == [loop EXCEPT !.pc = "catch",
                       !.cause = IF loop.cancelled THEN "aborted" ELSE "failed"]

-------------------------------------------------------------------------------
(* run(): admission and the two appends before the try block.              *)
Run ==
    LET turn == Count(log, "turn/start") + 1
    IN  /\ At("idle")
        /\ ~running
        /\ turn <= MaxTurns
        /\ running' = TRUE
        /\ AppendOr(TurnStart(turn),
                    [Idle EXCEPT !.pc = "user", !.turn = turn, !.step = 1],
                    Idle)
        /\ UNCHANGED effects

RunUser ==
    /\ At("user")
    /\ AppendOr(UserMessage(loop.turn), Goto("prepare"), Idle)
    /\ UNCHANGED <<running, effects>>

(* The caller aborts the run's signal.                                     *)
Cancel ==
    /\ loop.pc \in Awaiting \ {"idle", "down"}
    /\ ~loop.cancelled
    /\ loop' = [loop EXCEPT !.cancelled = TRUE]
    /\ UNCHANGED <<log, running, effects, storage>>

(* beforeStep and assemblePrompt returned: open the step.                  *)
BeginStep ==
    /\ At("prepare")
    /\ ~loop.cancelled
    /\ AppendOr(StepStart(loop.turn, loop.step),
                [loop EXCEPT !.pc = "model", !.open = loop.step], Caught)
    /\ UNCHANGED <<running, effects>>

(* They threw, or the run was cancelled meanwhile.                         *)
PrepareFails ==
    /\ At("prepare")
    /\ loop' = Caught
    /\ UNCHANGED <<log, running, effects, storage>>

NextStep(state) ==
    IF loop.step < MaxSteps
      THEN [state EXCEPT !.pc = "prepare", !.step = @ + 1]
      ELSE [state EXCEPT !.pc = "catch", !.cause = Caught.cause]   \* StepLimitError
-------------------------------------------------------------------------------
(* The model answers with a message: three appends end the turn.           *)
ModelMessage ==
    /\ At("model")
    /\ ~loop.cancelled
    /\ AppendOr(AssistantMessage(loop.turn), Goto("finish"), Caught)
    /\ UNCHANGED <<running, effects>>

FinishStep ==
    /\ At("finish")
    /\ AppendOr(StepEnd(loop.turn, loop.step, "completed"),
                [loop EXCEPT !.pc = "close", !.open = 0], Caught)
    /\ UNCHANGED <<running, effects>>

FinishTurn ==
    /\ At("close")
    /\ AppendOr(TurnEnd(loop.turn, "completed"), Idle, Caught)
    /\ running' = (loop'.pc # "idle")
    /\ UNCHANGED effects

(* The model answers with a batch of calls.                                *)
BatchCalls(batch) == [k \in DOMAIN batch |-> [id |-> <<loop.step, k>>, kind |-> batch[k]]]

ModelCalls ==
    /\ At("model")
    /\ ~loop.cancelled
    /\ Count(log, "assistant/tool-calls") < MaxBatches
    /\ \E batch \in Batches :
         LET calls == BatchCalls(batch)
         IN  AppendOr(ToolCalls(loop.turn, calls),
                      [loop EXCEPT !.pc = "call",
                          !.pending = [k \in DOMAIN calls |->
                                         [call |-> calls[k], started |-> FALSE]]],
                      Caught)
    /\ UNCHANGED <<running, effects>>

(* The request fails: unless it was aborted the step ends as failed and    *)
(* the policy may have the step tried again.                               *)
ModelFails ==
    /\ At("model")
    /\ ~loop.cancelled
    /\ AppendOr(StepEnd(loop.turn, loop.step, "failed"),
                [loop EXCEPT !.pc = "recover", !.open = 0], Caught)
    /\ UNCHANGED <<running, effects>>

(* The answer of a cancelled run is dropped; a stream can also report an   *)
(* abort of its own (ModelStreamAbortedError).                             *)
ModelAborts ==
    /\ At("model")
    /\ loop' = [loop EXCEPT !.pc = "catch", !.cause = "aborted"]
    /\ UNCHANGED <<log, running, effects, storage>>

(* recoverModelError asks for a retry, whether or not the run has been     *)
(* cancelled meanwhile; the next step would notice.                        *)
Retry ==
    /\ At("recover")
    /\ loop' = NextStep(loop)
    /\ UNCHANGED <<log, running, effects, storage>>

GiveUp ==
    /\ At("recover")
    /\ loop' = Caught
    /\ UNCHANGED <<log, running, effects, storage>>
-------------------------------------------------------------------------------
(* The next call of the batch, or the end of the step.  No await lies      *)
(* between the last test of the signal and this one.                       *)
Current == Head(loop.pending).call
Settle(result) == [loop EXCEPT !.pc = "settle", !.result = result]
Started(state) == [state EXCEPT !.pending[1].started = TRUE]

BeginCallUnrecorded ==                                              \* mutant
    /\ At("call")
    /\ loop.pending # << >>
    /\ loop' = CASE Current.kind = "unknown" -> Started(Settle("error"))
                 [] Current.kind = "local" -> Started(Goto("effect"))
                 [] Current.kind = "guarded" -> Started(Goto("ask"))
    /\ UNCHANGED <<log, running, effects, storage>>

BeginCall ==
    /\ At("call")
    /\ loop.pending # << >>
    /\ AppendOr(ToolCall(loop.turn, Current),
                CASE Current.kind = "unknown" -> Started(Settle("error"))
                  [] Current.kind = "local" -> Started(Goto("effect"))
                  [] Current.kind = "guarded" -> Started(Goto("ask")),
                Caught)
    /\ UNCHANGED <<running, effects>>

EndStep ==
    /\ At("call")
    /\ loop.pending = << >>
    /\ AppendOr(StepEnd(loop.turn, loop.step, "tool_calls"),
                NextStep([loop EXCEPT !.open = 0]), Caught)
    /\ UNCHANGED <<running, effects>>

(* ToolRegistry.execute of a consequential tool.  An append that throws    *)
(* inside it is the tool's failure, not the turn's.                        *)
AskUnrecorded ==                                                    \* mutant
    /\ At("ask")
    /\ loop' = Goto("approve")
    /\ UNCHANGED <<log, running, effects, storage>>

Ask ==
    /\ At("ask")
    /\ AppendOr(ApprovalAsked(loop.turn, Current), Goto("approve"), Settle("error"))
    /\ UNCHANGED <<running, effects>>

Decide ==
    /\ At("approve")
    /\ ~loop.cancelled
    /\ \E outcome \in {"allowed-once", "rejected"} :
         AppendOr(ApprovalDecided(loop.turn, Current, outcome),
                  IF outcome = "allowed-once" THEN Goto("sandbox") ELSE Settle("error"),
                  Settle("error"))
    /\ UNCHANGED <<running, effects>>

(* The sandbox grants a lease with the enforcement the tool requires.      *)
Prepare ==
    /\ At("sandbox")
    /\ ~loop.cancelled
    /\ AppendOr(SandboxPrepared(loop.turn, Current), Goto("effect"), Settle("error"))
    /\ UNCHANGED <<running, effects>>

(* It refuses, throws, or grants too weak or malformed a lease.            *)
PrepareRefused ==
    /\ At("sandbox")
    /\ ~loop.cancelled
    /\ loop' = Settle("error")
    /\ UNCHANGED <<log, running, effects, storage>>

(* The tool itself: it may act at any time until it returns.               *)
Effect ==
    /\ At("effect")
    /\ effects' = effects \cup {[turn |-> loop.turn, call |-> Current]}
    /\ UNCHANGED <<log, loop, running, storage>>

EffectReturns ==
    /\ At("effect")
    /\ ~loop.cancelled
    /\ \E result \in {"ok", "error"} : loop' = Settle(result)
    /\ UNCHANGED <<log, running, effects, storage>>

(* A cancelled execution throws when whatever it awaits returns.           *)
ExecuteAborts ==
    /\ loop.pc \in {"approve", "sandbox", "effect", "settle"}
    /\ loop.cancelled
    /\ loop' = Caught
    /\ UNCHANGED <<log, running, effects, storage>>

EndCallDropsErrors ==                                               \* mutant
    /\ At("settle")
    /\ ~loop.cancelled
    /\ IF loop.result = "ok"
         THEN AppendOr(ToolResult(loop.turn, Current, "ok"),
                       [loop EXCEPT !.pc = "call", !.pending = Tail(@)], Caught)
         ELSE /\ loop' = [loop EXCEPT !.pc = "call", !.pending = Tail(@)]
              /\ UNCHANGED <<log, storage>>
    /\ UNCHANGED <<running, effects>>

EndCall ==
    /\ At("settle")
    /\ ~loop.cancelled
    /\ AppendOr(ToolResult(loop.turn, Current, loop.result),
                [loop EXCEPT !.pc = "call", !.pending = Tail(@)], Caught)
    /\ UNCHANGED <<running, effects>>
-------------------------------------------------------------------------------
(* The catch block: answer what is pending, close the step, note the       *)
(* error, close the turn.  An append that throws here ends the block; the  *)
(* finally block releases the session in any case.                         *)
CaughtResultSwapped(p) ==                                           \* mutant
    IF loop.cause = "aborted"
      THEN IF p.started THEN "cancelled-before-start" ELSE "cancelled-outcome-unknown"
      ELSE IF p.started THEN "failed-before-start" ELSE "failed-outcome-unknown"
CaughtResult(p) ==
    IF loop.cause = "aborted"
      THEN IF p.started THEN "cancelled-outcome-unknown" ELSE "cancelled-before-start"
      ELSE IF p.started THEN "failed-outcome-unknown" ELSE "failed-before-start"

CatchResultStartedOnly ==                                           \* mutant
    /\ At("catch")
    /\ loop.pending # << >>
    /\ IF Head(loop.pending).started
         THEN AppendOr(ToolResult(loop.turn, Current, CaughtResult(Head(loop.pending))),
                       [loop EXCEPT !.pending = Tail(@)], Idle)
         ELSE loop' = [loop EXCEPT !.pending = Tail(@)] /\ UNCHANGED <<log, storage>>
    /\ running' = (loop'.pc # "idle")
    /\ UNCHANGED effects

CatchResult ==
    /\ At("catch")
    /\ loop.pending # << >>
    /\ AppendOr(ToolResult(loop.turn, Current, CaughtResult(Head(loop.pending))),
                [loop EXCEPT !.pending = Tail(@)], Idle)
    /\ running' = (loop'.pc # "idle")
    /\ UNCHANGED effects

CatchStep ==
    /\ At("catch")
    /\ loop.pending = << >>
    /\ loop.open # 0
    /\ AppendOr(StepEnd(loop.turn, loop.open, loop.cause),
                [loop EXCEPT !.open = 0], Idle)
    /\ running' = (loop'.pc # "idle")
    /\ UNCHANGED effects

CatchError ==
    /\ At("catch")
    /\ loop.pending = << >>
    /\ loop.open = 0
    /\ loop.cause = "failed"
    /\ AppendOr(TurnError(loop.turn), Goto("end"), Idle)
    /\ running' = (loop'.pc # "idle")
    /\ UNCHANGED effects

CatchEndRetried ==                                                  \* mutant
    /\ \/ At("end")
       \/ /\ At("catch") /\ loop.pending = << >> /\ loop.open = 0
          /\ loop.cause = "aborted"
    /\ AppendOr(TurnEnd(loop.turn, loop.cause), Idle, loop)
    /\ running' = (loop'.pc # "idle")
    /\ UNCHANGED effects

CatchEndAsFailed ==                                                 \* mutant
    /\ \/ At("end")
       \/ /\ At("catch") /\ loop.pending = << >> /\ loop.open = 0
          /\ loop.cause = "aborted"
    /\ AppendOr(TurnEnd(loop.turn, "failed"), Idle, Idle)
    /\ running' = FALSE
    /\ UNCHANGED effects

CatchEnd ==
    /\ \/ At("end")
       \/ /\ At("catch")
          /\ loop.pending = << >>
          /\ loop.open = 0
          /\ loop.cause = "aborted"
    /\ AppendOr(TurnEnd(loop.turn, loop.cause), Idle, Idle)
    /\ running' = FALSE
    /\ UNCHANGED effects
-------------------------------------------------------------------------------
(* The process dies: everything but the file is gone.                      *)
Crash ==
    /\ ~At("down")
    /\ storage.crashes < MaxCrashes
    /\ storage' = [storage EXCEPT !.crashes = @ + 1, !.broken = FALSE]
    /\ loop' = [Idle EXCEPT !.pc = "down"]
    /\ running' = FALSE
    /\ UNCHANGED <<log, effects>>

(* A new process loads the store; it refuses a log it cannot close.        *)
Reload ==
    /\ At("down")
    /\ Loadable(log)
    /\ log' = log \o Closers(log)
    /\ loop' = Idle
    /\ UNCHANGED <<running, effects, storage>>

(* What the loop does by itself once its awaits return.                    *)
LoopStep ==
    \/ RunUser \/ BeginStep \/ PrepareFails
    \/ ModelMessage \/ FinishStep \/ FinishTurn \/ ModelCalls \/ ModelFails \/ ModelAborts
    \/ Retry \/ GiveUp
    \/ BeginCall \/ EndStep \/ Ask \/ Decide \/ Prepare \/ PrepareRefused
    \/ EffectReturns \/ ExecuteAborts \/ EndCall
    \/ CatchResult \/ CatchStep \/ CatchError \/ CatchEnd

Next == Run \/ LoopStep \/ Cancel \/ Effect \/ Crash \/ Reload

Spec == Init /\ [][Next]_vars

(* Whatever the loop awaits returns, and its own code runs on.             *)
FairSpec == Spec /\ WF_vars(LoopStep)
-------------------------------------------------------------------------------
(* Wherever the process dies, the log it leaves is one the next process    *)
(* can load: neither the surface nor interruptedTurnClosers refuses it.    *)
Recoverable == Loadable(log)

(* As long as the storage has not failed, a session without a running turn *)
(* has nothing open: every turn and step is closed once, and every call    *)
(* is answered, by the registry, the catch block or the next process.      *)
SettledLog ==
    At("idle") /\ ~storage.broken /\ storage.transient = 0 => Settled(log)

(* A result that says a call never started is true: the tool has had no    *)
(* effect, whoever wrote it (the loop, or the next process).               *)
NeverStarted == {"not-started", "cancelled-before-start", "failed-before-start"}

HonestResults ==
    \A i \in DOMAIN log :
        log[i].type = "tool/result" /\ log[i].outcome \in NeverStarted
          => [turn |-> log[i].turn, call |-> log[i].call] \notin effects

(* A consequential tool has an effect only after the file holds the call,  *)
(* its question, an allowed-once decision and the prepared sandbox, in     *)
(* this order.                                                             *)
ApprovedEffects ==
    \A x \in effects : x.call.kind = "guarded" =>
        \E i \in DOMAIN log :
            /\ log[i] = ToolCall(x.turn, x.call)
            /\ \E a \in i + 1 .. Len(log) :
                 /\ log[a] = ApprovalAsked(x.turn, x.call)
                 /\ \E j \in a + 1 .. Len(log) :
                      /\ log[j] = ApprovalDecided(x.turn, x.call, "allowed-once")
                      /\ \E k \in j + 1 .. Len(log) :
                           log[k] = SandboxPrepared(x.turn, x.call)

(* What the model is shown is well formed: each batch of calls is followed *)
(* by exactly its results, in order, before anything else.                 *)
RequestPaired == At("model") => PairedSurface(Surface(log).nodes)

(* Once the signal has aborted, the loop only closes what is open, up to   *)
(* and with the append that ends the turn: it records no new step and no   *)
(* call, answers what is pending as cancelled, and its step and the turn   *)
(* itself end as aborted, never as completed or failed.                    *)
CancelledResults == {"cancelled-outcome-unknown", "cancelled-before-start"}

CancelStopsWork ==
    [][loop.cancelled /\ log' # log =>
         \/ Last(log').type = "tool/result" /\ Last(log').outcome \in CancelledResults
         \/ Last(log') \in {StepEnd(loop.turn, loop.step, "aborted"),
                            TurnEnd(loop.turn, "aborted")}]_vars

(* A turn that has begun ends, or its process dies.                        *)
TurnEnds == ~(loop.pc \in {"idle", "down"}) ~> loop.pc \in {"idle", "down"}
===============================================================================
