------------------------ MODULE WorkspaceProcess_proofs ------------------------
(***************************************************************************)
(* What WorkspaceProcess guarantees for any output limit and any amount of *)
(* output.                                                                 *)
(*                                                                         *)
(* Signals: terminate() and the escalation look at the child before they   *)
(* signal, which is enough because an armed escalation means that SIGTERM  *)
(* was sent and that there is a child; the report is read off the two      *)
(* flags, one of which is set whenever something was sent while it ran,    *)
(* and nothing is sent after it, since the child is reaped by then.        *)
(* Containers: the client asks for nothing once the call no longer runs,   *)
(* because it was reaped; so what the removal finds, with at most one      *)
(* creation under way, decides what is left.                               *)
(* Output: the buffer always is the last bytes taken out of the pipe, and  *)
(* all of them are out when the pipes have ended.                          *)
(***************************************************************************)
EXTENDS WorkspaceProcess, SequenceTheorems, TLAPS

Signals == {"TERM", "KILL"} \X {"alive", "dead"}

Terminated == \E s \in sent : s[1] = "TERM"

(* Before the call there is no child; while it runs there is one, and one   *)
(* that has ended may only be gone.                                         *)
ChildFollowsCall ==
  /\ lease \in {"none", "ready", "used", "disposed"}
  /\ pc \in {"idle", "running", "removing", "done"}
  /\ leader \in {"none", "alive", "dead", "reaped"}
  /\ lease # "used" => pc = "idle"
  /\ pc = "idle" => leader = "none" /\ outcome = NoOutcome
  /\ pc = "running" => leader # "none" /\ outcome = NoOutcome
  /\ pc # "running" => leader \in {"none", "reaped"}

SignalInv ==
  /\ ChildFollowsCall
  /\ latest \in Nat /\ escalations \subseteq Nat
  /\ timedOut \in BOOLEAN /\ cancelled \in BOOLEAN
  /\ sent \subseteq Signals
  /\ leader = "none" => sent = {} /\ escalations = {}
  /\ escalations # {} => Terminated
  /\ sent # {} => Terminated
  /\ pc = "running" => (sent # {} => timedOut \/ cancelled)
  /\ outcome.kind = "result" =>
       /\ pc \in {"removing", "done"} /\ leader = "reaped"
       /\ ~cancelled /\ (sent # {} => outcome.timedOut)
-------------------------------------------------------------------------------
(* SIGTERM adds itself to the signals sent and arms an escalation.         *)
LEMMA TerminateSignals ==
  ASSUME SignalInv, pc = "running", Terminate
  PROVE  /\ latest' \in Nat /\ escalations' \subseteq Nat
         /\ sent' \subseteq Signals
         /\ (escalations' # {} \/ sent' # {}) => (\E s \in sent' : s[1] = "TERM")
<1>1. CASE Reaped
  BY <1>1 DEF Terminate, SignalInv, Terminated
<1>2. CASE ~Reaped
  <2>1. leader \in {"alive", "dead"}
    BY <1>2 DEF Reaped, SignalInv, ChildFollowsCall
  <2>2. <<"TERM", leader>> \in sent' /\ <<"TERM", leader>>[1] = "TERM"
    BY <1>2 DEF Terminate
  <2>3. sent' \subseteq Signals
    BY <1>2, <2>1 DEF Terminate, Signals, SignalInv
  <2>4. latest' \in Nat /\ escalations' \subseteq Nat
    <3>1. latest \in Nat /\ latest + 1 \in Nat
      BY DEF SignalInv
    <3>2. latest' = latest + 1 /\ escalations' = escalations \cup {latest + 1}
      BY <1>2 DEF Terminate
    <3>3. escalations \subseteq Nat
      BY DEF SignalInv
    <3> QED  BY <3>1, <3>2, <3>3
  <2> QED  BY <2>2, <2>3, <2>4
<1> QED  BY <1>1, <1>2

(* Before the call nothing was sent.                                        *)
LEMMA SignalInit == Init => SignalInv
<1> SUFFICES ASSUME Init PROVE SignalInv
  OBVIOUS
<1>1. outcome.kind # "result"
  BY DEF Init, NoOutcome
<1>2. ChildFollowsCall
  BY DEF Init, ChildFollowsCall
<1>3. sent = {} /\ escalations = {} /\ latest \in Nat
  BY DEF Init
<1> QED
  BY <1>1, <1>2, <1>3 DEF Init, SignalInv

(* Every step keeps the invariant of the signals.                          *)
LEMMA SignalStep == SignalInv /\ [Next]_vars => SignalInv'
<1> SUFFICES ASSUME SignalInv, [Next]_vars PROVE SignalInv'
  OBVIOUS
<1> USE DEF SignalInv, ChildFollowsCall, Terminated
<1>1. ASSUME NEW b \in {"node", "docker"}, Prepare(b) PROVE SignalInv'
  BY <1>1 DEF Prepare, proc, output, timers, flags, docker
<1>2. CASE DisposeLease
  BY <1>2 DEF DisposeLease, proc, output, timers, flags, docker
<1>3. CASE Execute
  <2>1. pc = "idle" /\ leader = "none" /\ sent = {} /\ escalations = {}
    BY <1>3 DEF Execute
  <2>2. outcome.kind # "result"
    BY <2>1
  <2>3. UNCHANGED <<sent, timedOut, cancelled>> /\ lease' = "used"
    BY <1>3 DEF Execute, flags
  <2>4. CASE aborted
    BY <1>3, <2>1, <2>3, <2>4 DEF Execute, timers
  <2>5. CASE ~aborted /\ pc' = "running" /\ leader' = "alive" /\ UNCHANGED <<escalations, latest, outcome>>
    <3>1. outcome = NoOutcome
      BY <2>1
    <3> QED
    BY <2>1, <2>2, <2>3, <2>5
  <2>6. CASE ~aborted /\ Settle([kind |-> "error"]) /\ UNCHANGED leader
    BY <2>1, <2>3, <2>6 DEF Settle, AfterRun
  <2> QED  BY <1>3, <2>4, <2>5, <2>6 DEF Execute
<1>4. CASE Abort
  <2>1. CASE pc = "running"
    BY <1>4, <2>1, TerminateSignals DEF Abort, proc, output, docker
  <2>2. CASE pc # "running"
    BY <1>4, <2>2 DEF Abort, proc, output, docker
  <2> QED  BY <2>1, <2>2
<1>5. CASE Timeout
  BY <1>5, TerminateSignals DEF Timeout, proc, output, docker, NoOutcome
<1>6. ASSUME NEW e \in escalations, Escalate(e) PROVE SignalInv'
  <2>1. Terminated /\ leader # "none"
    BY <1>6
  <2>2. CASE Reaped
    BY <1>6, <2>1, <2>2 DEF Escalate, proc, output, docker
  <2>3. CASE ~Reaped
    <3>1. leader \in {"alive", "dead"} /\ pc = "running"
      BY <2>1, <2>3 DEF Reaped
    <3>2. sent' \subseteq Signals
      BY <1>6, <2>3, <3>1 DEF Escalate, Kill, Signals
    <3>3. sent \subseteq sent'
      BY <1>6, <2>3 DEF Escalate, Kill
    <3>4. Terminated'
      BY <2>1, <3>3
    <3> QED
      BY <1>6, <2>1, <2>3, <3>1, <3>2, <3>4 DEF Escalate, Kill, output, docker, NoOutcome
  <2> QED  BY <2>2, <2>3
<1>7. CASE Reap
  BY <1>7 DEF Reap, output, timers, flags, docker
<1>8. ASSUME NEW n \in 1 .. MaxBytes, Data(n) PROVE SignalInv'
  BY <1>8 DEF Data, proc, timers, flags, docker
<1>9. CASE Close
  BY <1>9 DEF Close, Reaped, Settle, AfterRun, Report, proc, output, flags, docker
<1>10. CASE RemoveContainer
  BY <1>10 DEF RemoveContainer, proc, output, timers, flags
<1>11. CASE LeaderExits
  BY <1>11 DEF LeaderExits, output, timers, flags, docker
<1>12. CASE HelperChanges
  BY <1>12 DEF HelperChanges, output, timers, flags, docker
<1>13. ASSUME NEW n \in 1 .. MaxBytes, Writes(n) PROVE SignalInv'
  BY <1>13 DEF Writes, proc, timers, flags, docker
<1>14. CASE ClientAsks
  BY <1>14 DEF ClientAsks, proc, output, timers, flags
<1>15. CASE DaemonHandles
  BY <1>15 DEF DaemonHandles, proc, output, timers, flags
<1>16. CASE ContainerExits
  BY <1>16 DEF ContainerExits, proc, output, timers, flags
<1>17. CASE UNCHANGED vars
  BY <1>17 DEF vars, proc, output, timers, flags, docker
<1> QED
  BY <1>1, <1>2, <1>3, <1>4, <1>5, <1>6, <1>7, <1>8, <1>9, <1>10, <1>11, <1>12, <1>13,
     <1>14, <1>15, <1>16, <1>17 DEF Next, Runner

(* No signal for a child that was reaped, SIGKILL only after SIGTERM, and   *)
(* no result of a signalled command that does not say it timed out.         *)
THEOREM SignalsAreAccounted == Spec => []SignalsAccounted
<1>1. SignalInv => SignalsAccounted
  <2> SUFFICES ASSUME SignalInv PROVE SignalsAccounted
    OBVIOUS
  <2>1. \A s \in sent : s[2] \in {"alive", "dead"}
    BY DEF SignalInv, Signals
  <2> QED  BY <2>1 DEF SignalInv, SignalsAccounted, Terminated
<1> QED
  BY <1>1, SignalInit, SignalStep, PTL DEF Spec
-------------------------------------------------------------------------------
(* What the daemon can still be asked for, and what it has.                *)
ContainerInv ==
  /\ ChildFollowsCall
  /\ backend \in {"node", "docker"}
  /\ asked \in {"nothing", "create", "start"}
  /\ container \in {"none", "created", "running", "gone"}
  /\ (leader = "none" \/ backend = "node") => container = "none" /\ asked = "nothing"
  /\ asked = "create" => container = "none"
  /\ asked = "start" => container # "none"
  /\ pc = "done" =>
       \/ rmFailed \/ late \/ container = "gone"
       \/ container = "none" /\ asked = "nothing"

(* The step of the container's invariant, one case for each action.        *)
LEMMA ContainerStep == ContainerInv /\ [Next]_vars => ContainerInv'
<1> SUFFICES ASSUME ContainerInv, [Next]_vars PROVE ContainerInv'
  OBVIOUS
<1> USE DEF ContainerInv, ChildFollowsCall
<1>1. ASSUME NEW b \in {"node", "docker"}, Prepare(b) PROVE ContainerInv'
  BY <1>1 DEF Prepare, proc, output, timers, flags, docker
<1>2. CASE DisposeLease
  BY <1>2 DEF DisposeLease, proc, output, timers, flags, docker
<1>3. CASE Execute
  <2>1. pc = "idle" /\ leader = "none" /\ outcome = NoOutcome
    BY <1>3 DEF Execute
  <2>2. UNCHANGED docker /\ UNCHANGED backend /\ lease' = "used"
    BY <1>3 DEF Execute
  <2>3. CASE pc' = "done" /\ UNCHANGED leader
    BY <2>1, <2>2, <2>3 DEF docker
  <2>4. CASE pc' = "running" /\ leader' = "alive" /\ UNCHANGED outcome
    BY <2>1, <2>2, <2>4 DEF docker
  <2>5. CASE Settle([kind |-> "error"]) /\ UNCHANGED leader
    BY <2>1, <2>2, <2>5 DEF docker, Settle, AfterRun
  <2> QED  BY <1>3, <2>3, <2>4, <2>5 DEF Execute
<1>4. CASE Abort
  BY <1>4 DEF Abort, proc, output, docker
<1>5. CASE Timeout
  BY <1>5 DEF Timeout, proc, output, docker
<1>6. ASSUME NEW e \in escalations, Escalate(e) PROVE ContainerInv'
  BY <1>6 DEF Escalate, Reaped, Kill, proc, output, docker
<1>7. CASE Reap
  BY <1>7 DEF Reap, output, timers, flags, docker
<1>8. ASSUME NEW n \in 1 .. MaxBytes, Data(n) PROVE ContainerInv'
  BY <1>8 DEF Data, proc, timers, flags, docker
<1>9. CASE Close
  BY <1>9 DEF Close, Reaped, Settle, AfterRun, proc, output, flags, docker
<1>10. CASE RemoveContainer
  BY <1>10 DEF RemoveContainer, proc, output, timers, flags
<1>11. CASE LeaderExits
  BY <1>11 DEF LeaderExits, output, timers, flags, docker
<1>12. CASE HelperChanges
  BY <1>12 DEF HelperChanges, output, timers, flags, docker
<1>13. ASSUME NEW n \in 1 .. MaxBytes, Writes(n) PROVE ContainerInv'
  BY <1>13 DEF Writes, proc, timers, flags, docker
<1>14. CASE ClientAsks
  BY <1>14 DEF ClientAsks, proc, output, timers, flags
<1>15. CASE DaemonHandles
  BY <1>15 DEF DaemonHandles, proc, output, timers, flags
<1>16. CASE ContainerExits
  BY <1>16 DEF ContainerExits, proc, output, timers, flags
<1>17. CASE UNCHANGED vars
  BY <1>17 DEF vars, proc, output, timers, flags, docker
<1> QED
  BY <1>1, <1>2, <1>3, <1>4, <1>5, <1>6, <1>7, <1>8, <1>9, <1>10, <1>11, <1>12, <1>13,
     <1>14, <1>15, <1>16, <1>17 DEF Next, Runner

(* A call through Docker is done only when its container is gone, was never *)
(* made, or was missed by a removal that failed or came too early.          *)
THEOREM ContainerIsGone == Spec => []ContainerGone
<1>1. Init => ContainerInv
  BY DEF Init, ContainerInv, ChildFollowsCall
<1>2. ContainerInv => ContainerGone
  BY DEF ContainerInv, ContainerGone
<1> QED
  BY <1>1, <1>2, ContainerStep, PTL DEF Spec
-------------------------------------------------------------------------------
(* A run of numbered bytes is a sequence.                                   *)
LEMMA BytesProperties ==
  ASSUME NEW from \in Nat \ {0}, NEW to \in Nat, from <= to + 1
  PROVE  /\ Bytes(from, to) \in Seq(Nat)
         /\ Len(Bytes(from, to)) = to - from + 1
         /\ \A i \in 1 .. to - from + 1 : Bytes(from, to)[i] = from + i - 1
<1>1. to - from + 1 \in Nat
  OBVIOUS
<1>2. \A i \in 1 .. to - from + 1 : from + i - 1 \in Nat
  OBVIOUS
<1>3. Bytes(from, to) \in [1 .. to - from + 1 -> Nat]
  BY <1>2 DEF Bytes
<1>4. Bytes(from, to) \in Seq(Nat)
  BY <1>1, <1>3, SeqDef
<1>5. Len(Bytes(from, to)) = to - from + 1
  BY <1>1, <1>3, <1>4, LenProperties
<1> QED  BY <1>4, <1>5 DEF Bytes

(* The end of a run is a run.                                               *)
LEMMA EndingBytes ==
  ASSUME NEW from \in Nat \ {0}, NEW to \in Nat, from <= to + 1,
         NEW k \in Nat, k <= to - from + 1
  PROVE  Ending(Bytes(from, to), k) = Bytes(to - k + 1, to)
<1> DEFINE s == Bytes(from, to)
           m == Len(s) - k + 1
<1>1. /\ s \in Seq(Nat) /\ Len(s) = to - from + 1
      /\ \A i \in 1 .. to - from + 1 : s[i] = from + i - 1
  BY BytesProperties
<1>2. /\ m \in Int /\ m = to - from + 1 - k + 1 /\ Len(s) \in Int
      /\ \A i \in m .. Len(s) : s[i] \in Nat
  <2>1. m = to - from + 1 - k + 1 /\ m \in Int /\ m >= 1 /\ Len(s) \in Int
    BY <1>1
  <2>2. \A i \in m .. Len(s) : i \in 1 .. to - from + 1 /\ from + i - 1 \in Nat
    BY <1>1, <2>1
  <2> HIDE DEF m, s
  <2> QED  BY <1>1, <2>1, <2>2
<1>3. /\ SubSeq(s, m, Len(s)) \in Seq(Nat)
      /\ Len(SubSeq(s, m, Len(s))) = IF m <= Len(s) THEN Len(s) - m + 1 ELSE 0
      /\ \A i \in 1 .. Len(s) - m + 1 : SubSeq(s, m, Len(s))[i] = s[m + i - 1]
  <2> HIDE DEF m, s
  <2> QED  BY <1>2, SubSeqProperties
<1>4. to - k + 1 \in Nat \ {0} /\ to - k + 1 <= to + 1 /\ to - (to - k + 1) + 1 = k
  OBVIOUS
<1>5. /\ Bytes(to - k + 1, to) \in Seq(Nat)
      /\ Len(Bytes(to - k + 1, to)) = k
      /\ \A i \in 1 .. k : Bytes(to - k + 1, to)[i] = to - k + 1 + i - 1
  BY <1>4, BytesProperties
<1>6. Len(SubSeq(s, m, Len(s))) = k /\ Len(s) - m + 1 = k
  <2> HIDE DEF m, s
  <2> QED  BY <1>1, <1>2, <1>3
<1>7. ASSUME NEW i \in 1 .. k
      PROVE  SubSeq(s, m, Len(s))[i] = Bytes(to - k + 1, to)[i]
  <2>1. SubSeq(s, m, Len(s))[i] = s[m + i - 1]
    BY <1>3, <1>6
  <2>2. m + i - 1 \in 1 .. to - from + 1 /\ from + (m + i - 1) - 1 = to - k + i
    <3>1. m = to - from + 1 - k + 1
      BY <1>2
    <3> HIDE DEF m
    <3> QED  BY <3>1
  <2>3. s[m + i - 1] = to - k + i
    <3> HIDE DEF m, s
    <3> QED  BY <1>1, <2>2
  <2>4. Bytes(to - k + 1, to)[i] = to - k + i
    BY <1>5
  <2> QED  BY <2>1, <2>3, <2>4
<1>8. SubSeq(s, m, Len(s)) = Bytes(to - k + 1, to)
  <2> HIDE DEF m, s
  <2> QED  BY <1>3, <1>5, <1>6, <1>7, SeqEqual
<1> QED  BY <1>8 DEF Ending

(* Two adjacent runs make one.                                              *)
LEMMA ConcatBytes ==
  ASSUME NEW from \in Nat \ {0}, NEW mid \in Nat, NEW to \in Nat,
         from <= mid + 1, mid <= to
  PROVE  Bytes(from, mid) \o Bytes(mid + 1, to) = Bytes(from, to)
<1> DEFINE s == Bytes(from, mid)
           t == Bytes(mid + 1, to)
           u == Bytes(from, to)
<1>1. s \in Seq(Nat) /\ Len(s) = mid - from + 1
      /\ \A i \in 1 .. mid - from + 1 : s[i] = from + i - 1
  BY BytesProperties
<1>2. t \in Seq(Nat) /\ Len(t) = to - mid
      /\ \A i \in 1 .. to - mid : t[i] = mid + i
  <2>1. mid + 1 \in Nat \ {0} /\ mid + 1 <= to + 1 /\ to - (mid + 1) + 1 = to - mid
    OBVIOUS
  <2>2. /\ t \in Seq(Nat) /\ Len(t) = to - (mid + 1) + 1
        /\ \A i \in 1 .. to - (mid + 1) + 1 : t[i] = mid + 1 + i - 1
    BY <2>1, BytesProperties
  <2>3. \A i \in 1 .. to - mid : mid + 1 + i - 1 = mid + i
    OBVIOUS
  <2> HIDE DEF t
  <2> QED  BY <2>1, <2>2, <2>3
<1>3. u \in Seq(Nat) /\ Len(u) = to - from + 1
      /\ \A i \in 1 .. to - from + 1 : u[i] = from + i - 1
  BY BytesProperties
<1> HIDE DEF s, t, u
<1>4. /\ s \o t \in Seq(Nat)
      /\ Len(s \o t) = Len(s) + Len(t)
      /\ \A i \in 1 .. Len(s) + Len(t) :
           (s \o t)[i] = IF i <= Len(s) THEN s[i] ELSE t[i - Len(s)]
  BY <1>1, <1>2, ConcatProperties
<1>5. Len(s) + Len(t) = Len(u)
  BY <1>1, <1>2, <1>3
<1>6. ASSUME NEW i \in 1 .. Len(s) + Len(t) PROVE (s \o t)[i] = u[i]
  <2>1. u[i] = from + i - 1
    BY <1>3, <1>5
  <2>2. CASE i <= Len(s)
    <3>1. i \in 1 .. mid - from + 1
      BY <1>1, <2>2
    <3> QED  BY <1>1, <1>4, <2>1, <2>2, <3>1
  <2>3. CASE ~(i <= Len(s))
    <3>1. i - Len(s) \in 1 .. to - mid /\ mid + (i - Len(s)) = from + i - 1
      BY <1>1, <1>2, <2>3
    <3>2. t[i - Len(s)] = mid + (i - Len(s))
      BY <1>2, <3>1
    <3> QED  BY <1>4, <2>1, <2>3, <3>1, <3>2
  <2> QED  BY <2>2, <2>3
<1>7. s \o t = u
  BY <1>3, <1>4, <1>5, <1>6, SeqEqual
<1> QED  BY <1>7 DEF s, t, u
-------------------------------------------------------------------------------
(* The last bytes, at most Limit of them, of a stream of n.                *)
LastBytes(n) == Bytes(n - Least(n, Limit) + 1, n)

(* They are as many as there are, or Limit.                                 *)
LEMMA LastBytesProperties ==
  ASSUME NEW n \in Nat
  PROVE  /\ Least(n, Limit) \in Nat /\ Least(n, Limit) <= n /\ Least(n, Limit) <= Limit
         /\ LastBytes(n) \in Seq(Nat) /\ Len(LastBytes(n)) = Least(n, Limit)
<1>1. Limit \in Nat /\ Limit >= 1
  BY LimitAssumption
<1>2. Least(n, Limit) \in Nat /\ Least(n, Limit) <= n /\ Least(n, Limit) <= Limit
  BY <1>1 DEF Least
<1> DEFINE k == Least(n, Limit)
<1>3. /\ n - k + 1 \in Nat \ {0} /\ n - k + 1 <= n + 1 /\ n - (n - k + 1) + 1 = k
  <2> HIDE DEF k
  <2> QED  BY <1>2 DEF k
<1>4. /\ Bytes(n - k + 1, n) \in Seq(Nat)
      /\ Len(Bytes(n - k + 1, n)) = n - (n - k + 1) + 1
  <2> HIDE DEF k
  <2> QED  BY <1>3, BytesProperties
<1> QED  BY <1>2, <1>3, <1>4 DEF LastBytes

(* BoundedTail.push: whatever the chunk, the buffer holds the last bytes.  *)
LEMMA PushKeepsLast ==
  ASSUME NEW r \in Nat, NEW n \in Nat \ {0}
  PROVE  Pushed(LastBytes(r), Bytes(r + 1, r + n)) = LastBytes(r + n)
<1> DEFINE chunk == Bytes(r + 1, r + n)
           old == Least(r, Limit)
           kept == Least(old, Limit - n)
<1>1. Limit \in Nat /\ Limit >= 1
  BY LimitAssumption
<1>2. r + 1 \in Nat \ {0} /\ r + n \in Nat /\ r + 1 <= r + n + 1 /\ r + n - (r + 1) + 1 = n
  OBVIOUS
<1>3. Len(chunk) = n
  BY <1>2, BytesProperties
<1>4. old \in Nat /\ old <= r /\ old <= Limit /\ Len(LastBytes(r)) = old
  BY LastBytesProperties
<1>5. CASE n >= Limit
  <2>1. Ending(chunk, Limit) = Bytes((r + n) - Limit + 1, r + n)
    BY <1>1, <1>2, <1>5, EndingBytes
  <2>2. Least(r + n, Limit) = Limit
    BY <1>1, <1>5 DEF Least
  <2>3. Pushed(LastBytes(r), chunk) = Ending(chunk, Limit)
    <3> HIDE DEF chunk
    <3> QED  BY <1>3, <1>5 DEF Pushed
  <2>4. LastBytes(r + n) = Bytes((r + n) - Limit + 1, r + n)
    <3>1. LastBytes(r + n) = Bytes((r + n) - Least(r + n, Limit) + 1, r + n)
      BY Zenon DEF LastBytes
    <3> QED  BY <2>2, <3>1, Zenon
  <2> QED  BY <2>1, <2>3, <2>4
<1>6. CASE ~(n >= Limit)
  <2>1. Limit - n \in Nat
    BY <1>1, <1>6
  <2>2. kept \in Nat /\ kept <= old /\ kept <= Limit - n
    <3> HIDE DEF old
    <3> QED  BY <1>4, <2>1 DEF Least
  <2>3. Ending(LastBytes(r), kept) = Bytes(r - kept + 1, r)
    <3>1. /\ r - old + 1 \in Nat \ {0} /\ r - old + 1 <= r + 1
          /\ kept <= r - (r - old + 1) + 1
      <4> HIDE DEF old, kept
      <4> QED  BY <1>4, <2>2
    <3>2. Ending(Bytes(r - old + 1, r), kept) = Bytes(r - kept + 1, r)
      <4> HIDE DEF old, kept
      <4> QED  BY <2>2, <3>1, EndingBytes
    <3> QED  BY <3>2 DEF LastBytes
  <2>4. Bytes(r - kept + 1, r) \o chunk = Bytes(r - kept + 1, r + n)
    <3>1. r - kept + 1 \in Nat \ {0} /\ r - kept + 1 <= r + 1 /\ r <= r + n
      <4> HIDE DEF kept
      <4>1. kept <= r
        BY <1>4, <2>2 DEF old
      <4> QED  BY <2>2, <4>1
    <3> HIDE DEF kept
    <3> QED  BY <1>2, <3>1, ConcatBytes
  <2>5. kept + n = Least(r + n, Limit)
    <3>1. CASE r + n <= Limit
      <4>1. old = r
        BY <1>1, <3>1 DEF Least
      <4>2. kept = r
        BY <1>1, <3>1, <4>1 DEF Least
      <4> QED  BY <1>1, <3>1, <4>2 DEF Least
    <3>2. CASE ~(r + n <= Limit)
      <4>1. Limit - n <= old
        BY <1>1, <3>2 DEF Least
      <4>2. kept = Limit - n
        <5> HIDE DEF old
        <5> QED  BY <1>4, <2>1, <4>1 DEF Least
      <4> QED  BY <1>1, <3>2, <4>2 DEF Least
    <3> QED  BY <3>1, <3>2
  <2>6. r - kept + 1 = (r + n) - Least(r + n, Limit) + 1
    <3> HIDE DEF kept
    <3>1. Least(r + n, Limit) = kept + n
      BY <2>5
    <3> QED  BY <2>2, <3>1
  <2>7. Pushed(LastBytes(r), chunk) = Ending(LastBytes(r), kept) \o chunk
    <3>1. Pushed(LastBytes(r), chunk) =
            Ending(LastBytes(r), Least(Len(LastBytes(r)), Limit - Len(chunk))) \o chunk
      BY <1>3, <1>6 DEF Pushed
    <3> QED  BY <1>3, <1>4, <3>1
  <2>8. LastBytes(r + n) = Bytes(r - kept + 1, r + n)
    <3>1. LastBytes(r + n) = Bytes((r + n) - Least(r + n, Limit) + 1, r + n)
      BY Zenon DEF LastBytes
    <3> HIDE DEF kept
    <3> QED  BY <2>6, <3>1, Zenon
  <2> QED  BY <2>3, <2>4, <2>7, <2>8
<1> QED  BY <1>5, <1>6

(* What the runner has read, kept and, at the end, reported.  The pipes     *)
(* have ended when it reports: nobody can write any more.                   *)
OutputInv ==
  /\ ChildFollowsCall
  /\ helper \in {"none", "in", "out"}
  /\ leader = "none" => helper = "none"
  /\ written \in Nat /\ seen \in Nat /\ seen <= written
  /\ tail = LastBytes(seen)
  /\ outcome.kind = "result" =>
       /\ pc \in {"removing", "done"} /\ leader = "reaped" /\ helper = "none"
       /\ outcome.text = LastBytes(written)
       /\ outcome.truncated <=> written > Limit

(* Nothing was read: nothing is kept.                                       *)
LEMMA OutputInit == Init => OutputInv
<1> SUFFICES ASSUME Init PROVE OutputInv
  OBVIOUS
<1>1. outcome.kind # "result" /\ ChildFollowsCall
  BY DEF Init, NoOutcome, ChildFollowsCall
<1>2. Least(0, Limit) = 0
  BY LimitAssumption DEF Least
<1>3. LastBytes(0) = << >>
  <2>1. LastBytes(0) \in Seq(Nat) /\ Len(LastBytes(0)) = 0
    BY <1>2, LastBytesProperties
  <2> QED  BY <2>1, EmptySeq
<1> QED  BY <1>1, <1>3 DEF Init, OutputInv

(* Every step keeps the invariant of the output.                           *)
LEMMA OutputStep == OutputInv /\ [Next]_vars => OutputInv'
<1> SUFFICES ASSUME OutputInv, [Next]_vars PROVE OutputInv'
  OBVIOUS
<1> USE DEF OutputInv, ChildFollowsCall
<1>1. ASSUME NEW b \in {"node", "docker"}, Prepare(b) PROVE OutputInv'
  BY <1>1 DEF Prepare, proc, output, timers, flags, docker
<1>2. CASE DisposeLease
  BY <1>2 DEF DisposeLease, proc, output, timers, flags, docker
<1>3. CASE Execute
  <2>1. pc = "idle" /\ leader = "none" /\ outcome.kind # "result" /\ helper = "none"
    BY <1>3 DEF Execute, NoOutcome
  <2>2. UNCHANGED <<helper, written, seen, tail>> /\ lease' = "used"
    BY <1>3 DEF Execute, output
  <2>3. CASE pc' = "done" /\ outcome' = [kind |-> "aborted"] /\ UNCHANGED leader
    BY <2>1, <2>2, <2>3
  <2>4. CASE pc' = "running" /\ leader' = "alive" /\ UNCHANGED outcome
    BY <2>1, <2>2, <2>4
  <2>5. CASE Settle([kind |-> "error"]) /\ UNCHANGED leader
    BY <2>1, <2>2, <2>5 DEF Settle, AfterRun
  <2> QED  BY <1>3, <2>3, <2>4, <2>5 DEF Execute, timers
<1>4. CASE Abort
  BY <1>4 DEF Abort, proc, output, docker
<1>5. CASE Timeout
  BY <1>5 DEF Timeout, proc, output, docker
<1>6. ASSUME NEW e \in escalations, Escalate(e) PROVE OutputInv'
  BY <1>6 DEF Escalate, Reaped, Kill, proc, output, docker
<1>7. CASE Reap
  BY <1>7 DEF Reap, output, timers, flags, docker
<1>8. ASSUME NEW n \in 1 .. MaxBytes, Data(n) PROVE OutputInv'
  <2>1. n \in Nat \ {0}
    BY LimitAssumption
  <2>2. pc = "running" /\ seen' = seen + n /\ tail' = Pushed(tail, Bytes(seen + 1, seen + n))
        /\ n <= written - seen /\ UNCHANGED <<lease, pc, leader, helper, written, outcome>>
    BY <1>8 DEF Data, proc
  <2>3. seen' \in Nat /\ seen' <= written'
    BY <2>1, <2>2
  <2>4. tail' = LastBytes(seen')
    BY <2>1, <2>2, PushKeepsLast
  <2> QED  BY <2>2, <2>3, <2>4 DEF NoOutcome
<1>9. CASE Close
  <2>1. /\ leader = "reaped" /\ helper = "none" /\ seen = written
        /\ outcome' = Report /\ pc' \in {"removing", "done"}
        /\ UNCHANGED <<lease, leader, helper, written, seen, tail>>
    BY <1>9 DEF Close, Reaped, PipesEnded, Settle, AfterRun, proc, output
  <2>2. CASE cancelled
    BY <2>1, <2>2 DEF Report, LastBytes
  <2>3. CASE ~cancelled
    <3>1. outcome'.text = tail /\ (outcome'.truncated <=> seen > Limit)
      BY <2>1, <2>3 DEF Report
    <3> QED  BY <1>9, <2>1, <3>1 DEF Close, LastBytes
  <2> QED  BY <2>2, <2>3
<1>10. CASE RemoveContainer
  BY <1>10 DEF RemoveContainer, proc, output, timers, flags
<1>11. CASE LeaderExits
  BY <1>11 DEF LeaderExits, output, timers, flags, docker
<1>12. CASE HelperChanges
  BY <1>12 DEF HelperChanges, output, timers, flags, docker
<1>13. ASSUME NEW n \in 1 .. MaxBytes, Writes(n) PROVE OutputInv'
  <2>1. n \in Nat
    BY LimitAssumption
  <2>2. outcome.kind # "result"
    BY <1>13 DEF Writes
  <2>3. written' \in Nat /\ seen <= written'
    BY <1>13, <2>1 DEF Writes
  <2> QED  BY <1>13, <2>2, <2>3 DEF Writes, proc
<1>14. CASE ClientAsks
  BY <1>14 DEF ClientAsks, proc, output, timers, flags
<1>15. CASE DaemonHandles
  BY <1>15 DEF DaemonHandles, proc, output, timers, flags
<1>16. CASE ContainerExits
  BY <1>16 DEF ContainerExits, proc, output, timers, flags
<1>17. CASE UNCHANGED vars
  BY <1>17 DEF vars, proc, output, timers, flags, docker
<1> QED
  BY <1>1, <1>2, <1>3, <1>4, <1>5, <1>6, <1>7, <1>8, <1>9, <1>10, <1>11, <1>12, <1>13,
     <1>14, <1>15, <1>16, <1>17 DEF Next, Runner

(* A result shows exactly the last Limit bytes, whatever the chunks they    *)
(* arrived in, and is called truncated when there were more.                *)
THEOREM TailIsExact == Spec => []TailExact
<1>1. OutputInv => TailExact
  <2> SUFFICES ASSUME OutputInv PROVE TailExact
    OBVIOUS
  <2>1. Len(tail) <= Limit
    BY LastBytesProperties DEF OutputInv
  <2> QED  BY <2>1 DEF OutputInv, TailExact, LastBytes
<1> QED
  BY <1>1, OutputInit, OutputStep, PTL DEF Spec
================================================================================
