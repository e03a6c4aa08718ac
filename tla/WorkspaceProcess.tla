-------------------------- MODULE WorkspaceProcess --------------------------
(***************************************************************************)
(* One command of the workspace                                            *)
(* (src/harness/process-workspace/src/index.ts): the lease that may run it *)
(* once, the Node runner with its timers, signals and bounded output, and  *)
(* the Docker runner, which has the Node runner run the Docker client and  *)
(* removes the container afterwards.                                       *)
(*                                                                         *)
(* The runner's callbacks (timeout, abort, escalation, data, exit, close)  *)
(* come in any order the event loop allows; the command, a descendant that *)
(* inherits its pipes, and the Docker daemon run beside it.  Times are     *)
(* abstract: an armed timer may fire at any moment.  SIGTERM may be        *)
(* ignored by every process, SIGKILL by none.  Validation of the request   *)
(* comes before the process exists and is left out; of the two identical   *)
(* output streams one is modelled, its bytes numbered as they are written. *)
(***************************************************************************)
EXTENDS Naturals, Sequences

CONSTANTS Limit,            \* maxOutputBytes
          MaxBytes          \* bound: bytes the command writes

ASSUME LimitAssumption == Limit \in Nat \ {0} /\ MaxBytes \in Nat

VARIABLES lease,            \* ProcessLease
          aborted,          \* the caller's signal
          backend,          \* the runner the sandbox was made with
          pc,               \* where run() is
          leader,           \* the child: alive, dead and not yet reaped, reaped
          helper,           \* a descendant with the pipes: none, in or out of the group
          written, seen,    \* bytes put into the pipe and taken out of it
          tail,             \* BoundedTail.#buffer
          deadline,         \* the timeout timer is armed
          escalations,      \* the escalation timers that are armed
          latest,           \* the one the variable escalation holds
          timedOut, cancelled,
          sent,             \* history: signals, with the leader's state at the time
          asked, container, \* the request the Docker daemon has, and the container
          late, rmFailed,   \* history: how the removal went
          outcome

proc   == <<leader, helper>>
output == <<written, seen, tail>>
timers == <<deadline, escalations, latest>>
flags  == <<timedOut, cancelled, sent>>
docker == <<asked, container, late, rmFailed>>
vars   == <<lease, aborted, backend, pc, proc, output, timers, flags, docker, outcome>>

NoOutcome == [kind |-> "none"]

-----------------------------------------------------------------------------
(* BoundedTail *)

Ending(s, n) == SubSeq(s, Len(s) - n + 1, Len(s))
Least(m, n) == IF m <= n THEN m ELSE n

(* Mutant: a chunk that fills the buffer is kept from its beginning. *)
PushedHead(buffer, chunk) ==
  IF Len(chunk) >= Limit
    THEN SubSeq(chunk, 1, Limit)
    ELSE Ending(buffer, Least(Len(buffer), Limit - Len(chunk))) \o chunk

Pushed(buffer, chunk) ==
  IF Len(chunk) >= Limit
    THEN Ending(chunk, Limit)
    ELSE Ending(buffer, Least(Len(buffer), Limit - Len(chunk))) \o chunk

Bytes(from, to) == [i \in 1 .. to - from + 1 |-> from + i - 1]

-----------------------------------------------------------------------------
(* The command, its descendant and their output *)

Writes(n) ==
  /\ leader = "alive" \/ helper # "none"
  /\ written + n <= MaxBytes
  /\ written' = written + n
  /\ UNCHANGED <<lease, aborted, backend, pc, proc, seen, tail, timers, flags, docker, outcome>>

LeaderExits ==
  /\ leader = "alive"
  /\ leader' = "dead"
  /\ UNCHANGED <<lease, aborted, backend, pc, helper, output, timers, flags, docker, outcome>>

(* The Docker client starts nothing on the host. *)
HelperChanges ==
  /\ backend = "node"
  /\ \/ leader = "alive" /\ helper = "none" /\ helper' = "in"
     \/ helper = "in" /\ helper' = "out"
     \/ helper # "none" /\ helper' = "none"
  /\ UNCHANGED <<lease, aborted, backend, pc, leader, output, timers, flags, docker, outcome>>

-----------------------------------------------------------------------------
(* The lease *)

Prepare(b) ==
  /\ lease = "none" /\ ~aborted
  /\ lease' = "ready"
  /\ backend' = b
  /\ UNCHANGED <<aborted, pc, proc, output, timers, flags, docker, outcome>>

DisposeLease ==
  /\ lease = "ready"
  /\ lease' = "disposed"
  /\ UNCHANGED <<aborted, backend, pc, proc, output, timers, flags, docker, outcome>>

-----------------------------------------------------------------------------
(* NodeWorkspaceProcessRunner.run *)

(* Mutant: the container is removed after a success only. *)
AfterRunOnSuccess(kind) == IF backend = "docker" /\ kind = "result" THEN "removing" ELSE "done"

(* The finally block of the Docker runner. *)
AfterRun(kind) == IF backend = "docker" THEN "removing" ELSE "done"

(* The runner's own finally block clears the timer it knows of. *)
Settle(o) ==
  /\ outcome' = o
  /\ pc' = AfterRun(o.kind)
  /\ deadline' = FALSE
  /\ escalations' = escalations \ {latest}
  /\ UNCHANGED latest

Execute ==
  /\ lease = "ready"
  /\ lease' = "used"
  /\ \/ /\ aborted
        /\ pc' = "done" /\ outcome' = [kind |-> "aborted"]
        /\ UNCHANGED <<leader, timers>>
     \/ /\ ~aborted
        /\ leader' = "alive" /\ deadline' = TRUE
        /\ pc' = "running"
        /\ UNCHANGED <<escalations, latest, outcome>>
     \/ ~aborted /\ Settle([kind |-> "error"]) /\ UNCHANGED leader      \* spawn failed
  /\ UNCHANGED <<aborted, backend, helper, output, flags, docker>>

Reaped == leader = "reaped"

(* Mutant: a group that has ignored SIGTERM is left alone. *)
TerminateOnce ==
  IF Reaped THEN UNCHANGED <<sent, escalations, latest>>
  ELSE /\ sent' = sent \cup {<<"TERM", leader>>}
       /\ UNCHANGED <<escalations, latest>>

(* terminate(): the whole group is signalled and an escalation armed. *)
Terminate ==
  IF Reaped THEN UNCHANGED <<sent, escalations, latest>>
  ELSE /\ sent' = sent \cup {<<"TERM", leader>>}
       /\ latest' = latest + 1
       /\ escalations' = escalations \cup {latest + 1}

Timeout ==
  /\ pc = "running" /\ deadline
  /\ deadline' = FALSE
  /\ timedOut' = TRUE
  /\ Terminate
  /\ UNCHANGED <<lease, aborted, backend, pc, proc, output, cancelled, docker, outcome>>

(* The abort listener is registered while the child runs. *)
Abort ==
  /\ ~aborted
  /\ aborted' = TRUE
  /\ IF pc = "running"
       THEN cancelled' = TRUE /\ Terminate
       ELSE UNCHANGED <<cancelled, sent, escalations, latest>>
  /\ UNCHANGED <<lease, backend, pc, proc, output, deadline, timedOut, docker, outcome>>

Kill ==
  /\ sent' = sent \cup {<<"KILL", leader>>}
  /\ leader' = IF leader = "alive" THEN "dead" ELSE leader
  /\ helper' = IF helper = "in" THEN "none" ELSE helper

(* Mutant: the escalation does not look whether the child has exited. *)
EscalateUnchecked(e) ==
  /\ e \in escalations
  /\ escalations' = escalations \ {e}
  /\ Kill
  /\ UNCHANGED <<lease, aborted, backend, pc, output, deadline, latest, timedOut, cancelled,
                 docker, outcome>>

Escalate(e) ==
  /\ e \in escalations
  /\ escalations' = escalations \ {e}
  /\ IF Reaped THEN UNCHANGED <<sent, proc>> ELSE Kill
  /\ UNCHANGED <<lease, aborted, backend, pc, output, deadline, latest, timedOut, cancelled,
                 docker, outcome>>

(* The 'exit' event: exitCode or signalCode is set from here on. *)
Reap ==
  /\ leader = "dead"
  /\ leader' = "reaped"
  /\ UNCHANGED <<lease, aborted, backend, pc, helper, output, timers, flags, docker, outcome>>

Data(n) ==
  /\ pc = "running"
  /\ n <= written - seen
  /\ seen' = seen + n
  /\ tail' = Pushed(tail, Bytes(seen + 1, seen + n))
  /\ UNCHANGED <<lease, aborted, backend, pc, proc, written, timers, flags, docker, outcome>>

Report ==
  IF cancelled THEN [kind |-> "aborted"]
  ELSE [kind |-> "result", timedOut |-> timedOut, text |-> tail, truncated |-> seen > Limit]

PipesEnded == helper = "none" /\ seen = written

(* The 'close' event: the child was reaped and nobody holds its pipes. *)
Close ==
  /\ pc = "running"
  /\ Reaped /\ PipesEnded
  /\ Settle(Report)
  /\ UNCHANGED <<lease, aborted, backend, proc, output, flags, docker>>

-----------------------------------------------------------------------------
(* The Docker client, the daemon and docker rm --force *)

ClientAsks ==
  /\ backend = "docker" /\ leader = "alive" /\ asked = "nothing"
  /\ \/ container = "none"    /\ asked' = "create"
     \/ container = "created" /\ asked' = "start"
  /\ UNCHANGED <<lease, aborted, backend, pc, proc, output, timers, flags, container, late,
                 rmFailed, outcome>>

(* The daemon handles a request whether or not its client still lives. *)
DaemonHandles ==
  /\ asked # "nothing"
  /\ asked' = "nothing"
  /\ container' = IF asked = "create" THEN "created"
                  ELSE IF container = "created" THEN "running" ELSE container
  /\ UNCHANGED <<lease, aborted, backend, pc, proc, output, timers, flags, late, rmFailed,
                 outcome>>

ContainerExits ==
  /\ container = "running"
  /\ container' = "gone"                                                 \* --rm
  /\ UNCHANGED <<lease, aborted, backend, pc, proc, output, timers, flags, asked, late,
                 rmFailed, outcome>>

(* docker rm --force, run without the signal and with its error swallowed. *)
RemoveContainer ==
  /\ pc = "removing"
  /\ pc' = "done"
  /\ late' = (asked = "create")
  /\ \/ /\ container' = IF container = "none" THEN "none" ELSE "gone"
        /\ UNCHANGED rmFailed
     \/ rmFailed' = TRUE /\ UNCHANGED container
  /\ UNCHANGED <<lease, aborted, backend, proc, output, timers, flags, asked, outcome>>

-----------------------------------------------------------------------------
Init ==
  /\ lease = "none" /\ aborted = FALSE /\ backend = "node" /\ pc = "idle"
  /\ leader = "none" /\ helper = "none"
  /\ written = 0 /\ seen = 0 /\ tail = <<>>
  /\ deadline = FALSE /\ escalations = {} /\ latest = 0
  /\ timedOut = FALSE /\ cancelled = FALSE /\ sent = {}
  /\ asked = "nothing" /\ container = "none" /\ late = FALSE /\ rmFailed = FALSE
  /\ outcome = NoOutcome

Runner ==
  \/ Reap \/ Close \/ Timeout \/ RemoveContainer
  \/ \E e \in escalations : Escalate(e)
  \/ \E n \in 1 .. MaxBytes : Data(n)

Next ==
  \/ \E b \in {"node", "docker"} : Prepare(b)
  \/ DisposeLease \/ Execute \/ Abort
  \/ Runner
  \/ LeaderExits \/ HelperChanges
  \/ \E n \in 1 .. MaxBytes : Writes(n)
  \/ ClientAsks \/ DaemonHandles \/ ContainerExits

(* Armed timers fire and the event loop hands out what is pending; nothing *)
(* is assumed of the command, its descendants or the daemon.               *)
Fairness ==
  /\ WF_vars(Timeout) /\ WF_vars(\E e \in escalations : Escalate(e))
  /\ WF_vars(Reap) /\ WF_vars(\E n \in 1 .. MaxBytes : Data(n))
  /\ WF_vars(Close) /\ WF_vars(RemoveContainer)

Spec == Init /\ [][Next]_vars
FairSpec == Spec /\ Fairness

-----------------------------------------------------------------------------
(* Properties *)

(* No signal is ever sent to a group whose leader was reaped, when its id   *)
(* may be another program's (two escalations can be armed and only one is   *)
(* cleared); SIGKILL only follows SIGTERM; and a command that was signalled *)
(* is reported as timed out or not at all, as cancelled ones are.           *)
SignalsAccounted ==
  /\ \A s \in sent : s[2] \in {"alive", "dead"}
  /\ (\E s \in sent : s[1] = "KILL") => (\E s \in sent : s[1] = "TERM")
  /\ outcome.kind = "result" => ~cancelled /\ (sent # {} => outcome.timedOut)

(* Whatever the chunks the pipe was read in, a result shows the last Limit  *)
(* bytes written, in order and up to the last, and is called truncated      *)
(* exactly when more were.                                                  *)
TailExact ==
  /\ Len(tail) <= Limit
  /\ outcome.kind = "result" =>
       /\ outcome.text = Bytes(written - Least(written, Limit) + 1, written)
       /\ outcome.truncated <=> written > Limit

(* A call through Docker settles, however it ends, with its container gone: *)
(* also when it was killed in the middle of starting.  Only a removal that  *)
(* fails, or one the daemon handles before the creation it was asked for    *)
(* earlier, leaves one behind.                                              *)
ContainerGone ==
  pc = "done" => container \in {"none", "gone"} \/ rmFailed \/ late

Held == leader = "reaped" /\ helper # "none"

(* Every command ends although it may ignore SIGTERM: the timeout and its   *)
(* escalation see to it.  Only a descendant that holds the pipes after the  *)
(* leader is gone keeps the call waiting, for as long as it likes:          *)
(* terminate() no longer signals anybody then.                              *)
EndsUnlessHeld == (pc = "running") ~> (pc = "done" \/ Held)
=============================================================================
