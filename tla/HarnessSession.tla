---------------------------- MODULE HarnessSession ----------------------------
(***************************************************************************)
(* A session shared by everything that appends to it: the agent loop       *)
(* (AgentTurn), the command registry                                       *)
(* (src/harness/commands/src/index.ts), the compactor                      *)
(* (src/harness/compaction/src/index.ts) and the context budget policy     *)
(* (src/harness/context-budget/src/index.ts).  They run in one JavaScript  *)
(* thread and meet at awaits: each of them reads the log, waits for a      *)
(* model or a handler, and appends what it decided from what it had read.  *)
(*                                                                         *)
(* Abstractions.  A command's handler does anything another action of this *)
(* module does (the compact command is a compaction of the host) and then  *)
(* returns.  Token counts are left out: the policy may find the context    *)
(* too large before any step, and any model error may be an overflow.      *)
(***************************************************************************)
EXTENDS AgentTurn

CONSTANTS
    RetainTurns,         \* closed turns a compaction leaves alone
    MaxOverflowRetries,  \* ContextBudgetPolicy.#maxOverflowRetries
    MaxCommands,         \* bound: commands
    MaxSummaries,        \* bound: compactions that reach the summarizer
    HostSerialises       \* does the host await a command before it runs a turn?

(* The ends of turns in a log, in the order they were closed.              *)
ClosedTurns(l) == {i \in DOMAIN l : l[i].type = "turn/end"}
ClosedAfter(l, i) == {j \in ClosedTurns(l) : j > i}

(* A turn is closed once, and what it says comes after what earlier turns  *)
(* said.                                                                   *)
ClosedOnce(l) == \A i, j \in ClosedTurns(l) : l[i].turn = l[j].turn => i = j
InOrder(l) ==
    \A i, j \in DOMAIN l :
        i <= j /\ IsMessage(l[i]) /\ IsMessage(l[j]) => l[i].turn <= l[j].turn

(* A summary stands for messages before it, of closed turns only and never *)
(* of the last RetainTurns of them.                                        *)
Retained(l) ==
    \A i \in DOMAIN l : l[i].type = "compaction/summary" =>
        LET closed == {j \in ClosedTurns(l) : j < i}
        IN  \A q \in Range(l[i].shadowed) :
              /\ q < i
              /\ \E j \in closed : l[j].turn = l[q].turn
              /\ \A j \in closed : l[j].turn = l[q].turn =>
                   Cardinality({k \in closed : k > j}) >= RetainTurns

(* The steps of a turn that follow a failed one.                           *)
RetriedSteps(l, turn) ==
    {i \in DOMAIN l :
        /\ l[i].type = "step/start" /\ l[i].turn = turn
        /\ \E j \in 1 .. i - 1 : l[j] = StepEnd(turn, l[i].step - 1, "failed")}

(* Each has a summary between the failure and itself, and there are not    *)
(* too many.                                                               *)
Progressed(l) ==
    \A turn \in {l[i].turn : i \in DOMAIN l} :
        /\ Cardinality(RetriedSteps(l, turn)) <= MaxOverflowRetries
        /\ \A i \in RetriedSteps(l, turn) :
             \E k \in 1 .. i - 1 :
                /\ l[k].type = "compaction/summary"
                /\ \E j \in 1 .. k - 1 : l[j] = StepEnd(turn, l[i].step - 1, "failed")

ASSUME UpkeepAssumption ==
    /\ RetainTurns \in Nat \ {0} /\ MaxOverflowRetries \in Nat
    /\ MaxCommands \in Nat /\ MaxSummaries \in Nat
    /\ HostSerialises \in BOOLEAN

(* Earlier runs of the session kept it as this one does.                   *)
ASSUME HistoryAssumption ==
    \A l \in InitialLogs : ClosedOnce(l) /\ InOrder(l) /\ Retained(l) /\ Progressed(l)

VARIABLES
    command,     \* the command in #runningSessions, 0 for none
    compaction,  \* the call of SessionCompactor.compact in progress
    policy,      \* the call of the context budget policy in progress
    summaries    \* compactions that have reached the summarizer

hvars == <<log, loop, running, effects, storage, command, compaction, policy, summaries>>

NoCompaction == [by |-> "none", source |-> << >>, boundary |-> 0,
                 openTurn |-> 0, refused |-> FALSE]
NoPolicy == [pc |-> "none", outcome |-> "none", summary |-> 0, asked |-> FALSE,
             attempts |-> 0]

HInit ==
    /\ Init
    /\ command = 0
    /\ compaction = NoCompaction
    /\ policy = NoPolicy
    /\ summaries = 0

(* Nobody else is between two awaits, and there is a process.              *)
Free == loop.pc \in Awaiting \ {"down"}

(* session.append outside the loop: it succeeds or throws, like AppendOr,  *)
(* for good or this once (another process holds the lock).                 *)
AppendElse(e) ==
    \/ /\ ~storage.broken
       /\ log' = Append(log, e)
       /\ UNCHANGED storage
    \/ /\ \/ storage.broken /\ UNCHANGED storage
          \/ /\ ~storage.broken
             /\ storage.transient < MaxTransient
             /\ storage' = [storage EXCEPT !.transient = @ + 1]
          \/ /\ ~storage.broken
             /\ StorageBreaks
             /\ storage' = [storage EXCEPT !.broken = TRUE]
       /\ UNCHANGED log
-------------------------------------------------------------------------------
(* CommandRegistry.execute: admission, and the lifecycle around a handler. *)
TurnsClosedUnchecked == TRUE                                        \* mutant
TurnsClosed == Count(log, "turn/start") = Count(log, "turn/end")

RunCommand ==
    LET k == Count(log, "command/run") + 1
    IN  /\ Free
        /\ TurnsClosed
        /\ command = 0
        /\ k <= MaxCommands
        /\ AppendElse(CommandRun(k))
        /\ command' = IF log' = log THEN 0 ELSE k
        /\ UNCHANGED <<loop, running, effects, compaction, policy, summaries>>

(* The registry frees the session whether or not the end was recorded.     *)
EndCommand ==
    /\ Free
    /\ command # 0
    /\ AppendElse(CommandDone(command))
    /\ command' = 0
    /\ UNCHANGED <<loop, running, effects, compaction, policy, summaries>>
-------------------------------------------------------------------------------
(* SessionCompactor.compact, up to the summarizer.                         *)
CompactableOneMore ==                                               \* mutant
    {log[i].turn : i \in {j \in ClosedTurns(log) :
                            Cardinality(ClosedAfter(log, j)) + 1 >= RetainTurns}}
Compactable ==
    {log[i].turn : i \in {j \in ClosedTurns(log) :
                            Cardinality(ClosedAfter(log, j)) >= RetainTurns}}

(* The prefix of the surface that belongs to compactable turns.            *)
SelectedMidTurn ==                                 \* mutant: two messages less
    LET nodes == Surface(log).nodes
        retained == SelectInSeq(nodes, LAMBDA x : x.turn \notin Compactable)
    IN  SubSeq(nodes, 1, (IF retained = 0 THEN Len(nodes) ELSE retained - 1) - 2)
Selected ==
    LET nodes == Surface(log).nodes
        retained == SelectInSeq(nodes, LAMBDA x : x.turn \notin Compactable)
    IN  IF retained = 0 THEN nodes ELSE SubSeq(nodes, 1, retained - 1)

Busy(allowOpenTurn) ==
    \/ compaction.by # "none"
    \/ Surface(log).openStep # 0
    \/ Surface(log).openTurn # 0 /\ ~allowOpenTurn

NothingToCompact == Cardinality(ClosedTurns(log)) <= RetainTurns \/ Len(Selected) < 2

Summarize(owner) ==
    /\ summaries < MaxSummaries
    /\ summaries' = summaries + 1
    /\ compaction' = [compaction EXCEPT
         !.by = owner,
         !.source = Sequences(Selected),
         !.boundary = Selected[Len(Selected)].turn,
         !.openTurn = Surface(log).openTurn]

Compact ==
    /\ Free
    /\ ~Busy(FALSE)
    /\ ~NothingToCompact
    /\ Summarize("host")
    /\ UNCHANGED <<log, loop, running, effects, storage, command, policy>>

(* The summary arrived: what was read before the await is checked again,   *)
(* and the store checks the event once more before it takes it.            *)
UnchangedPrefixOnly ==                                              \* mutant
    Sequences(SubSeq(Surface(log).nodes, 1, Len(compaction.source))) = compaction.source
Unchanged ==
    LET now == Surface(log)
    IN  /\ now.openTurn = compaction.openTurn
        /\ now.openStep = 0
        /\ Sequences(SubSeq(now.nodes, 1, Len(compaction.source))) = compaction.source

Released == [NoCompaction EXCEPT !.refused = compaction.refused]

AppendSummary(summary) ==
    IF Surface(Append(log, summary)).ok
      THEN AppendElse(summary) /\ compaction' = Released
      ELSE UNCHANGED <<log, storage>> /\ compaction' = [Released EXCEPT !.refused = TRUE]

EndCompact ==
    /\ Free
    /\ compaction.by # "none"
    /\ \/ /\ Unchanged
          /\ compaction.by = "policy" => ~loop.cancelled
          /\ AppendSummary(Summary(compaction.boundary, compaction.source))
       \/ /\ UNCHANGED <<log, storage>>   \* changed, aborted, or no summary
          /\ compaction' = Released
    /\ policy' = IF compaction.by = "policy"
                   THEN [policy EXCEPT !.pc = "decide",
                          !.outcome = IF log' = log THEN "failed" ELSE "compacted",
                          !.summary = IF log' = log THEN 0 ELSE Len(log')]
                   ELSE policy
    /\ UNCHANGED <<loop, running, effects, command, summaries>>
-------------------------------------------------------------------------------
(* ContextBudgetPolicy: beforeStep finds pressure, recoverModelError an    *)
(* overflow it has not retried too often in this turn.                     *)
Attempt ==
    /\ Free
    /\ loop.pc \in {"prepare", "recover"}
    /\ ~loop.cancelled
    /\ ~policy.asked
    /\ At("recover") => policy.attempts < MaxOverflowRetries
    /\ LET asked == [policy EXCEPT !.asked = TRUE,
                        !.attempts = IF At("recover") THEN @ + 1 ELSE @]
       IN  \/ /\ ~Busy(TRUE) /\ ~NothingToCompact
              /\ Summarize("policy")
              /\ policy' = [asked EXCEPT !.pc = "compact"]
           \/ /\ Busy(TRUE)
              /\ policy' = [asked EXCEPT !.pc = "decide", !.outcome = "failed"]
              /\ UNCHANGED <<compaction, summaries>>
           \/ /\ ~Busy(TRUE) /\ NothingToCompact
              /\ policy' = [asked EXCEPT !.pc = "decide", !.outcome = "no_progress"]
              /\ UNCHANGED <<compaction, summaries>>
    /\ UNCHANGED <<log, loop, running, effects, storage, command>>

(* A cancelled run drops an attempt that failed.                           *)
AttemptAborted == policy.pc = "decide" /\ policy.outcome = "failed" /\ loop.cancelled

(* The attempts are counted by turn, all else belongs to one hook call.    *)
PolicyAfter ==
    CASE loop'.pc = loop.pc -> policy
      [] loop'.turn # loop.turn -> NoPolicy
      [] OTHER -> [NoPolicy EXCEPT !.attempts = policy.attempts]

(* The decision is recorded, unless the attempt failed and the run was     *)
(* cancelled.  If it cannot be recorded, the hook throws.                  *)
Decided ==
    /\ Free
    /\ policy.pc = "decide"
    /\ ~AttemptAborted
    /\ AppendElse(Decision(loop.turn, policy.outcome, policy.summary))
    /\ policy' = [policy EXCEPT !.pc = "none", !.summary = 0]
    /\ loop' = IF log' = log THEN Caught ELSE loop
    /\ UNCHANGED <<running, effects, command, compaction, summaries>>

(* The loop waits for the policy; it retries only after a compaction.      *)
PolicyReturned == policy.pc = "none" \/ AttemptAborted

RetryGrantedAnyway == policy.asked /\ policy.outcome # "failed"      \* mutant
RetryGranted == policy.asked /\ policy.outcome = "compacted"

HLoopStep ==
    /\ LoopStep
    /\ loop.pc \in {"prepare", "recover"} => PolicyReturned
    /\ At("recover") /\ loop'.cause = "none" => RetryGranted
    /\ policy' = PolicyAfter
    /\ UNCHANGED <<command, compaction, summaries>>
-------------------------------------------------------------------------------
HostRun ==
    /\ HostSerialises => command = 0
    /\ Run
    /\ policy' = NoPolicy
    /\ UNCHANGED <<command, compaction, summaries>>

HCancel == Cancel /\ UNCHANGED <<command, compaction, policy, summaries>>
HEffect == Effect /\ UNCHANGED <<command, compaction, policy, summaries>>
HReload == Reload /\ UNCHANGED <<command, compaction, policy, summaries>>

HCrash ==
    /\ Crash
    /\ command' = 0
    /\ compaction' = Released
    /\ policy' = NoPolicy
    /\ UNCHANGED summaries

HNext ==
    \/ HostRun \/ HLoopStep \/ HCancel \/ HEffect \/ HCrash \/ HReload
    \/ RunCommand \/ EndCommand
    \/ Compact \/ EndCompact
    \/ Attempt \/ Decided

HSpec == HInit /\ [][HNext]_hvars
-------------------------------------------------------------------------------
(* A session that can be loaded stays so, with one exception: an append    *)
(* that failed once has left a turn or a command open in the log which its *)
(* owner has let go, and the next turn or command starts inside it.        *)
(* Nothing else the loop, the registry, the compactor, the policy or a     *)
(* crash do in any order makes a log the store refuses.                    *)
Orphaned ==
    \/ ~running /\ TailScan(log).turn # 0
    \/ command = 0 /\ CommandScan(log).open # 0

BrokenOnlyByOrphans ==
    [][~Loadable(log') /\ Loadable(log) =>
         /\ storage.transient > 0 /\ Orphaned
         /\ Last(log').type \in {"turn/start", "command/run"}]_hvars

(* The checks the compactor repeats after its await are enough: a summary  *)
(* it still wants to append is never refused by the session, whatever ran  *)
(* meanwhile.                                                              *)
SummariesAccepted == ~compaction.refused

(* A summary stands for closed turns only, and never for the last          *)
(* RetainTurns of them: the turns a model must still see in full.          *)
RetainsRecentTurns == Retained(log)

(* A step that follows a failed one in the same turn had the context made  *)
(* smaller in between, and a turn is given no more such steps than the     *)
(* policy allows.                                                          *)
RetriesMakeProgress == Progressed(log)

(* No message is lost to the model: it is in the request itself or stands  *)
(* behind a summary that reaches at least as far as its turn.              *)
Covered(l) ==
    LET nodes == Surface(l).nodes
    IN  \A i \in DOMAIN l : IsMessage(l[i]) =>
          \E k \in DOMAIN nodes :
             \/ nodes[k].sequence = i
             \/ /\ nodes[k].event.type = "compaction/summary"
                /\ nodes[k].turn >= l[i].turn

HistoryCovered == At("model") => Covered(log)
===============================================================================
