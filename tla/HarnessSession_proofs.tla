------------------------ MODULE HarnessSession_proofs ------------------------
(***************************************************************************)
(* What HarnessSession guarantees for any initial logs, batches, bounds    *)
(* and limits of the policy, with or without HostSerialises.               *)
(*                                                                         *)
(* In order:                                                               *)
(*   - what one more event does to the log: turns are numbered and closed  *)
(*     once, summaries retain turns, messages stay in order;               *)
(*   - Sound, what every log of a session satisfies, the reload included;  *)
(*   - the steps of the loop in five moves (LoopMoves), and then those of  *)
(*     commands, of the compactor and of the policy, each with what it     *)
(*     does to the parts of UpkeepInv;                                     *)
(*   - the theorems.                                                       *)
(***************************************************************************)
EXTENDS HarnessSession, AgentTurn_proofs

(* Turns are numbered by the starts in the log.                            *)
Turned(l) == Count(l, "turn/start")
Numbered(l) == \A i \in DOMAIN l : l[i].turn <= Turned(l)
IsClosed(l, t) == \E i \in ClosedTurns(l) : l[i].turn = t

(* A turn found open was not closed before, and it is the last one.        *)
Reopens(l) ==
  LET tail == TailScan(l)
  IN  tail.turn # 0 => ~IsClosed(l, tail.turn) /\ (tail.scan.ok => tail.turn = Turned(l))

(* What a summary of these sequences must be.                              *)
Behind(l, shadowed) ==
  \A q \in Range(shadowed) :
    /\ q \in DOMAIN l
    /\ \E j \in ClosedTurns(l) : l[j].turn = l[q].turn
    /\ \A j \in ClosedTurns(l) : l[j].turn = l[q].turn =>
         Cardinality(ClosedAfter(l, j)) >= RetainTurns

(* A step has failed, and the context was made smaller since.              *)
Failed(l, t, s) == \E j \in DOMAIN l : l[j] = StepEnd(t, s, "failed")
Shrunk(l, t, s) ==
  \E k \in DOMAIN l :
    /\ l[k].type = "compaction/summary"
    /\ \E j \in 1 .. k - 1 : l[j] = StepEnd(t, s, "failed")
-------------------------------------------------------------------------------
(* The positions of a longer log.                                          *)
LEMMA AppendIs ==
  ASSUME NEW l \in Seq(Events), NEW e \in Events
  PROVE  LET k == Append(l, e)
         IN  /\ k \in Seq(Events) /\ Len(l) \in Nat /\ Len(k) = Len(l) + 1
             /\ DOMAIN l = 1 .. Len(l) /\ DOMAIN k = 1 .. Len(l) + 1
             /\ \A i \in 1 .. Len(l) : k[i] = l[i]
             /\ k[Len(l) + 1] = e
             /\ e.turn \in Nat /\ \A i \in DOMAIN l : l[i].turn \in Nat
<1>1. \A i \in DOMAIN l : l[i] \in Events
  OBVIOUS
<1>2. e.turn \in Nat /\ \A i \in DOMAIN l : l[i].turn \in Nat
  BY <1>1, EventFields
<1> QED
  BY <1>2

(* The closed turns of a longer log.                                       *)
LEMMA ClosedAppend ==
  ASSUME NEW l \in Seq(Events), NEW e \in Events
  PROVE  /\ ClosedTurns(Append(l, e)) =
              IF e.type = "turn/end" THEN ClosedTurns(l) \cup {Len(l) + 1} ELSE ClosedTurns(l)
         /\ ClosedTurns(l) \subseteq 1 .. Len(l)
         /\ \A t : IsClosed(Append(l, e), t) <=>
                     IsClosed(l, t) \/ (e.type = "turn/end" /\ e.turn = t)
<1> DEFINE k == Append(l, e)
<1>1. /\ Len(l) \in Nat /\ DOMAIN l = 1 .. Len(l) /\ DOMAIN k = 1 .. Len(l) + 1
      /\ \A i \in 1 .. Len(l) : k[i] = l[i]
      /\ k[Len(l) + 1] = e
  BY AppendIs
<1> HIDE DEF k
<1>2. ClosedTurns(l) \subseteq 1 .. Len(l)
  BY <1>1 DEF ClosedTurns
<1>3. ClosedTurns(k) = IF e.type = "turn/end" THEN ClosedTurns(l) \cup {Len(l) + 1} ELSE ClosedTurns(l)
  BY <1>1 DEF ClosedTurns
<1>4. \A t : IsClosed(k, t) <=> IsClosed(l, t) \/ (e.type = "turn/end" /\ e.turn = t)
  BY <1>1, <1>2, <1>3 DEF IsClosed
<1> QED
  BY <1>2, <1>3, <1>4 DEF k

(* Sets of closed turns are finite.                                        *)
LEMMA ClosedFinite ==
  ASSUME NEW l \in Seq(Events), NEW S, S \subseteq ClosedTurns(l)
  PROVE  IsFiniteSet(S) /\ Cardinality(S) \in Nat
<1>1. S \subseteq 1 .. Len(l) /\ Len(l) \in Nat
  BY DEF ClosedTurns
<1>2. IsFiniteSet(1 .. Len(l))
  BY <1>1, FS_Interval
<1>3. IsFiniteSet(S)
  BY <1>1, <1>2, FS_Subset
<1> QED
  BY <1>3, FS_CardinalityType

(* Turns stay numbered by their starts.                                    *)
LEMMA NumberedAppend ==
  ASSUME NEW l \in Seq(Events), NEW e \in Events, Numbered(l),
         e.turn <= Turned(l) \/ (e.type = "turn/start" /\ e.turn = Turned(l) + 1)
  PROVE  /\ Numbered(Append(l, e)) /\ Turned(l) \in Nat
         /\ Turned(Append(l, e)) = IF e.type = "turn/start" THEN Turned(l) + 1 ELSE Turned(l)
<1> DEFINE k == Append(l, e)
<1>1. /\ Len(l) \in Nat /\ DOMAIN l = 1 .. Len(l) /\ DOMAIN k = 1 .. Len(l) + 1
      /\ \A i \in 1 .. Len(l) : k[i] = l[i]
      /\ k[Len(l) + 1] = e /\ e.turn \in Nat /\ \A i \in DOMAIN l : l[i].turn \in Nat
  BY AppendIs
<1>2. /\ Turned(l) \in Nat
      /\ Turned(k) = Turned(l) + (IF e.type = "turn/start" THEN 1 ELSE 0)
  BY CountType, CountAppend DEF Turned
<1> HIDE DEF k
<1>3. Numbered(k)
  BY <1>1, <1>2 DEF Numbered
<1> QED
  BY <1>2, <1>3 DEF k

(* A turn not closed yet may be closed.                                    *)
LEMMA ClosedOnceAppend ==
  ASSUME NEW l \in Seq(Events), NEW e \in Events, ClosedOnce(l),
         e.type = "turn/end" => ~IsClosed(l, e.turn)
  PROVE  ClosedOnce(Append(l, e))
<1> DEFINE k == Append(l, e)
<1>1. /\ Len(l) \in Nat /\ \A i \in 1 .. Len(l) : k[i] = l[i]
      /\ k[Len(l) + 1] = e
  BY AppendIs
<1>2. /\ ClosedTurns(k) = IF e.type = "turn/end" THEN ClosedTurns(l) \cup {Len(l) + 1} ELSE ClosedTurns(l)
      /\ ClosedTurns(l) \subseteq 1 .. Len(l)
  BY ClosedAppend
<1> HIDE DEF k
<1>3. ClosedOnce(k)
  BY <1>1, <1>2 DEF ClosedOnce, IsClosed
<1> QED
  BY <1>3 DEF k

(* A message of the last turn keeps the order.                             *)
LEMMA InOrderAppend ==
  ASSUME NEW l \in Seq(Events), NEW e \in Events, InOrder(l), Numbered(l),
         IsMessage(e) => e.turn = Turned(l)
  PROVE  InOrder(Append(l, e))
<1> DEFINE k == Append(l, e)
<1>1. /\ Len(l) \in Nat /\ DOMAIN l = 1 .. Len(l) /\ DOMAIN k = 1 .. Len(l) + 1
      /\ \A i \in 1 .. Len(l) : k[i] = l[i]
      /\ k[Len(l) + 1] = e /\ e.turn \in Nat /\ \A i \in DOMAIN l : l[i].turn \in Nat
  BY AppendIs
<1> HIDE DEF k
<1>2. ASSUME NEW i \in DOMAIN k, NEW j \in DOMAIN k, i <= j, IsMessage(k[i]), IsMessage(k[j])
      PROVE  k[i].turn <= k[j].turn
  <2>1. CASE j = Len(l) + 1 /\ i # j
    <3>1. i \in DOMAIN l /\ k[i] = l[i] /\ k[j] = e
      BY <1>1, <2>1
    <3> QED
      BY <1>2, <3>1 DEF Numbered
  <2>2. CASE j = i
    BY <1>1, <2>2
  <2>3. CASE j \in 1 .. Len(l)
    BY <1>1, <1>2, <2>3 DEF InOrder
  <2> QED
    BY <1>1, <2>1, <2>2, <2>3
<1> QED
  BY <1>2 DEF k, InOrder

(* What is found open stays the last turn, and not closed before.          *)
LEMMA ReopensAppend ==
  ASSUME NEW l \in Seq(Events), NEW e \in Events, Reopens(l), Numbered(l),
         e.type = "turn/start" => e.turn = Turned(l) + 1,
         e.turn <= Turned(l) \/ e.type = "turn/start"
  PROVE  Reopens(Append(l, e))
<1> DEFINE k == Append(l, e)
<1>1. /\ Turned(l) \in Nat
      /\ Turned(k) = IF e.type = "turn/start" THEN Turned(l) + 1 ELSE Turned(l)
  BY NumberedAppend
<1>2. \A t : IsClosed(k, t) <=> IsClosed(l, t) \/ (e.type = "turn/end" /\ e.turn = t)
  BY ClosedAppend
<1>3. /\ e.type = "turn/end" => TailScan(k) = [turn |-> 0, scan |-> NewTail]
      /\ e.type = "turn/start" /\ TailScan(l).turn = 0
           => TailScan(k).turn = e.turn
      /\ e.type \notin {"turn/start", "turn/end"} /\ TailScan(l).turn = 0
           => TailScan(k).turn = 0
      /\ e.type # "turn/end" /\ TailScan(l).turn # 0
           => /\ TailScan(k).turn = TailScan(l).turn
              /\ TailScan(l).scan.ok =>
                   TailScan(k).scan = ScanTail(TailScan(l).turn, TailScan(l).scan, e)
      /\ e.type # "turn/end" /\ ~TailScan(l).scan.ok => ~TailScan(k).scan.ok
  BY TailAppend
<1>4. TailScan(l).scan \in Tails
  BY TailScanType
<1>5. e.type = "turn/start" => ~ScanTail(TailScan(l).turn, TailScan(l).scan, e).ok
  BY <1>4 DEF ScanTail, Foreign, Refuse, Tails
<1>6. \A t : IsClosed(l, t) => t <= Turned(l)
  BY DEF IsClosed, Numbered, ClosedTurns
<1> HIDE DEF k
<1>7. ASSUME e.type = "turn/end"
      PROVE  Reopens(k)
  BY <1>3, <1>7 DEF Reopens
<1>8. ASSUME e.type = "turn/start" /\ TailScan(l).turn = 0
      PROVE  Reopens(k)
  BY <1>1, <1>2, <1>3, <1>6, <1>8 DEF Reopens
<1>9. ASSUME e.type # "turn/end" /\ TailScan(l).turn # 0
      PROVE  Reopens(k)
  BY <1>1, <1>2, <1>3, <1>5, <1>9 DEF Reopens
<1>10. ASSUME e.type \notin {"turn/start", "turn/end"} /\ TailScan(l).turn = 0
      PROVE  Reopens(k)
  BY <1>3, <1>10 DEF Reopens
<1>11. Reopens(k)
  BY <1>7, <1>8, <1>9, <1>10
<1> QED
  BY <1>11 DEF k

(* A summary of what lies behind keeps the recent turns.                   *)
LEMMA RetainedAppend ==
  ASSUME NEW l \in Seq(Events), NEW e \in Events, Retained(l),
         e.type = "compaction/summary" => Behind(l, e.shadowed)
  PROVE  Retained(Append(l, e))
<1> DEFINE k == Append(l, e)
<1>1. /\ Len(l) \in Nat /\ DOMAIN l = 1 .. Len(l) /\ DOMAIN k = 1 .. Len(l) + 1
      /\ \A i \in 1 .. Len(l) : k[i] = l[i]
      /\ k[Len(l) + 1] = e
  BY AppendIs
<1>2. /\ ClosedTurns(k) = IF e.type = "turn/end" THEN ClosedTurns(l) \cup {Len(l) + 1} ELSE ClosedTurns(l)
      /\ ClosedTurns(l) \subseteq 1 .. Len(l)
  BY ClosedAppend
<1> HIDE DEF k
<1> DEFINE ClosedBefore(m, i) == {j \in ClosedTurns(m) : j < i}
           Kept(m, i, q) ==
             /\ q < i
             /\ \E j \in ClosedBefore(m, i) : m[j].turn = m[q].turn
             /\ \A j \in ClosedBefore(m, i) : m[j].turn = m[q].turn =>
                  Cardinality({p \in ClosedBefore(m, i) : p > j}) >= RetainTurns
<1>3. ASSUME NEW i \in DOMAIN k, k[i].type = "compaction/summary", NEW q \in Range(k[i].shadowed)
      PROVE  Kept(k, i, q)
  <2>1. CASE i \in 1 .. Len(l)
    <3>1. ClosedBefore(k, i) = ClosedBefore(l, i) /\ ClosedBefore(l, i) \subseteq 1 .. Len(l)
      BY <1>2, <2>1
    <3>2. Kept(l, i, q)
      BY <1>1, <1>3, <2>1 DEF Retained
    <3>3. l[i] \in Events /\ l[i].shadowed \in Seq(Numbers)
      BY <1>1, <1>3, <2>1, EventFields
    <3>4. q \in 1 .. Len(l)
      BY <1>1, <1>3, <2>1, <3>2, <3>3 DEF Range, Numbers
    <3> QED
      BY <1>1, <3>1, <3>2, <3>4
  <2>2. CASE i = Len(l) + 1
    <3>1. ClosedBefore(k, i) = ClosedTurns(l)
      <4>1. e.type # "turn/end"
        BY <1>1, <1>3, <2>2
      <4> QED
        BY <1>1, <1>2, <2>2, <4>1
    <3>2. q \in DOMAIN l /\ Behind(l, e.shadowed) /\ q \in Range(e.shadowed)
      BY <1>1, <1>3, <2>2 DEF Behind
    <3>3. \A j : {p \in ClosedBefore(k, i) : p > j} = ClosedAfter(l, j)
      BY <3>1 DEF ClosedAfter
    <3>4. \A j \in ClosedTurns(l) : k[j] = l[j]
      BY <1>1, <1>2
    <3>5. k[q] = l[q] /\ q < i
      BY <1>1, <2>2, <3>2
    <3> HIDE DEF ClosedBefore
    <3> QED
      BY <3>1, <3>2, <3>3, <3>4, <3>5 DEF Behind
  <2> QED
    BY <1>1, <2>1, <2>2
<1>4. Retained(k)
  BY <1>3 DEF Retained
<1> QED
  BY <1>4 DEF k
-------------------------------------------------------------------------------
(* The retried steps of a longer log.                                      *)
LEMMA RetriedAppend ==
  ASSUME NEW l \in Seq(Events), NEW e \in Events, NEW t
  PROVE  LET k == Append(l, e)
             again == e.type = "step/start" /\ e.turn = t /\ Failed(l, t, e.step - 1)
         IN  /\ RetriedSteps(k, t) =
                  IF again THEN RetriedSteps(l, t) \cup {Len(l) + 1} ELSE RetriedSteps(l, t)
             /\ RetriedSteps(l, t) \subseteq 1 .. Len(l)
             /\ Cardinality(RetriedSteps(l, t)) \in Nat
             /\ Cardinality(RetriedSteps(k, t)) =
                  Cardinality(RetriedSteps(l, t)) + (IF again THEN 1 ELSE 0)
<1> DEFINE k == Append(l, e)
           again == e.type = "step/start" /\ e.turn = t /\ Failed(l, t, e.step - 1)
           A == RetriedSteps(l, t)
           B == RetriedSteps(k, t)
<1>1. /\ Len(l) \in Nat /\ DOMAIN l = 1 .. Len(l) /\ DOMAIN k = 1 .. Len(l) + 1
      /\ \A i \in 1 .. Len(l) : k[i] = l[i]
      /\ k[Len(l) + 1] = e
  BY AppendIs
<1> HIDE DEF k
<1>2. A \subseteq 1 .. Len(l)
  BY <1>1 DEF RetriedSteps
<1>3. \A i \in 1 .. Len(l) : i \in A <=> i \in B
  BY <1>1 DEF RetriedSteps
<1>4. Len(l) + 1 \in B <=> again
  BY <1>1 DEF RetriedSteps, Failed
<1>5. B \subseteq 1 .. Len(l) + 1
  BY <1>1 DEF RetriedSteps
<1>6. B = IF again THEN A \cup {Len(l) + 1} ELSE A
  <2> HIDE DEF A, B, again
  <2>1. Len(l) \in Nat /\ \A i \in 1 .. Len(l) + 1 : i \in 1 .. Len(l) \/ i = Len(l) + 1
    BY <1>1
  <2>2. again => B = A \cup {Len(l) + 1}
    BY <1>2, <1>3, <1>4, <1>5, <2>1
  <2>3. ~again => B = A
    BY <1>2, <1>3, <1>4, <1>5, <2>1
  <2> QED
    BY <2>2, <2>3
<1>7. IsFiniteSet(A) /\ Cardinality(A) \in Nat
  <2>1. IsFiniteSet(1 .. Len(l))
    BY <1>1, FS_Interval
  <2>2. IsFiniteSet(A)
    BY <1>2, <2>1, FS_Subset
  <2> QED
    BY <2>2, FS_CardinalityType
<1>8. Cardinality(B) = Cardinality(A) + (IF again THEN 1 ELSE 0)
  <2>1. Len(l) + 1 \notin A
    BY <1>1, <1>2
  <2> HIDE DEF A, B, again
  <2>2. again => Cardinality(B) = Cardinality(A) + 1
    BY <1>6, <1>7, <2>1, FS_AddElement
  <2>3. ~again => Cardinality(B) = Cardinality(A)
    BY <1>6
  <2> QED
    BY <1>7, <2>2, <2>3
<1> QED
  BY <1>2, <1>6, <1>7, <1>8 DEF k

(* Failures and summaries stay in the log.                                 *)
LEMMA FailedAppend ==
  ASSUME NEW l \in Seq(Events), NEW e \in Events, NEW t, NEW s
  PROVE  /\ Failed(Append(l, e), t, s) <=> Failed(l, t, s) \/ e = StepEnd(t, s, "failed")
         /\ Shrunk(l, t, s) => Shrunk(Append(l, e), t, s)
         /\ Failed(l, t, s) /\ e.type = "compaction/summary" => Shrunk(Append(l, e), t, s)
<1> DEFINE k == Append(l, e)
<1>1. /\ Len(l) \in Nat /\ DOMAIN l = 1 .. Len(l) /\ DOMAIN k = 1 .. Len(l) + 1
      /\ \A i \in 1 .. Len(l) : k[i] = l[i]
      /\ k[Len(l) + 1] = e
  BY AppendIs
<1> HIDE DEF k
<1>2. Failed(k, t, s) <=> Failed(l, t, s) \/ e = StepEnd(t, s, "failed")
  BY <1>1 DEF Failed
<1>3. ASSUME Shrunk(l, t, s) PROVE Shrunk(k, t, s)
  <2>1. PICK i \in DOMAIN l : /\ l[i].type = "compaction/summary"
                              /\ \E j \in 1 .. i - 1 : l[j] = StepEnd(t, s, "failed")
    BY <1>3 DEF Shrunk
  <2>2. PICK j \in 1 .. i - 1 : l[j] = StepEnd(t, s, "failed")
    BY <2>1
  <2>3. i \in DOMAIN k /\ k[i] = l[i] /\ k[j] = l[j]
    BY <1>1
  <2> QED
    BY <2>1, <2>2, <2>3 DEF Shrunk
<1>4. ASSUME Failed(l, t, s), e.type = "compaction/summary" PROVE Shrunk(k, t, s)
  <2>1. PICK j \in DOMAIN l : l[j] = StepEnd(t, s, "failed")
    BY <1>4 DEF Failed
  <2>2. Len(l) + 1 \in DOMAIN k /\ j \in 1 .. (Len(l) + 1) - 1 /\ k[j] = l[j]
    BY <1>1
  <2> QED
    BY <1>1, <1>4, <2>1, <2>2 DEF Shrunk
<1> QED
  BY <1>2, <1>3, <1>4 DEF k

(* A retry that is paid for is progress.                                   *)
LEMMA ProgressedAppend ==
  ASSUME NEW l \in Seq(Events), NEW e \in Events, Progressed(l),
         e.type = "step/start" /\ Failed(l, e.turn, e.step - 1) =>
           /\ Cardinality(RetriedSteps(l, e.turn)) + 1 <= MaxOverflowRetries
           /\ Shrunk(l, e.turn, e.step - 1)
  PROVE  Progressed(Append(l, e))
<1> DEFINE k == Append(l, e)
           Again(t) == e.type = "step/start" /\ e.turn = t /\ Failed(l, t, e.step - 1)
           Smaller(m, t, i) ==
             \E p \in 1 .. i - 1 :
               /\ m[p].type = "compaction/summary"
               /\ \E j \in 1 .. p - 1 : m[j] = StepEnd(t, m[i].step - 1, "failed")
<1>1. /\ Len(l) \in Nat /\ DOMAIN l = 1 .. Len(l) /\ DOMAIN k = 1 .. Len(l) + 1
      /\ \A i \in 1 .. Len(l) : k[i] = l[i]
      /\ k[Len(l) + 1] = e
  BY AppendIs
<1>2. ASSUME NEW t
      PROVE  /\ RetriedSteps(k, t) =
                  IF Again(t) THEN RetriedSteps(l, t) \cup {Len(l) + 1} ELSE RetriedSteps(l, t)
             /\ RetriedSteps(l, t) \subseteq 1 .. Len(l)
             /\ Cardinality(RetriedSteps(l, t)) \in Nat
             /\ Cardinality(RetriedSteps(k, t)) =
                  Cardinality(RetriedSteps(l, t)) + (IF Again(t) THEN 1 ELSE 0)
  BY RetriedAppend
<1> HIDE DEF k
<1>3. ASSUME NEW t
      PROVE  /\ Cardinality(RetriedSteps(l, t)) <= MaxOverflowRetries
             /\ \A i \in RetriedSteps(l, t) : Smaller(l, t, i)
  <2>1. CASE t \in {l[i].turn : i \in DOMAIN l}
    BY <2>1 DEF Progressed
  <2>2. CASE t \notin {l[i].turn : i \in DOMAIN l}
    <3>1. RetriedSteps(l, t) = {}
      BY <2>2 DEF RetriedSteps
    <3> QED
      BY <3>1, FS_EmptySet, UpkeepAssumption
  <2> QED
    BY <2>1, <2>2
<1>4. ASSUME NEW t, NEW i \in RetriedSteps(k, t) PROVE Smaller(k, t, i)
  <2>1. CASE i \in RetriedSteps(l, t)
    <3>1. i \in 1 .. Len(l) /\ Smaller(l, t, i)
      BY <1>2, <1>3, <2>1
    <3> QED
      BY <1>1, <3>1
  <2>2. CASE i = Len(l) + 1 /\ Again(t)
    <3>1. Shrunk(l, t, e.step - 1)
      BY <2>2
    <3>2. PICK p \in DOMAIN l : /\ l[p].type = "compaction/summary"
                                /\ \E j \in 1 .. p - 1 : l[j] = StepEnd(t, e.step - 1, "failed")
      BY <3>1 DEF Shrunk
    <3>3. PICK j \in 1 .. p - 1 : l[j] = StepEnd(t, e.step - 1, "failed")
      BY <3>2
    <3>4. p \in 1 .. i - 1 /\ k[p] = l[p] /\ k[j] = l[j] /\ k[i] = e
      BY <1>1, <2>2
    <3> QED
      BY <3>2, <3>3, <3>4
  <2>3. i \in RetriedSteps(l, t) \/ (i = Len(l) + 1 /\ Again(t))
    <3> HIDE DEF Again
    <3> QED
      BY <1>2, <1>4
  <2> QED
    BY <2>1, <2>2, <2>3
<1>5. ASSUME NEW t PROVE Cardinality(RetriedSteps(k, t)) <= MaxOverflowRetries
  <2>1. CASE Again(t)
    <3>1. e.turn = t /\ Cardinality(RetriedSteps(l, t)) + 1 <= MaxOverflowRetries
      BY <2>1
    <3> QED
      BY <1>2, <2>1, <3>1
  <2>2. CASE ~Again(t)
    <3> HIDE DEF Again
    <3> QED
      BY <1>2, <1>3, <2>2
  <2> QED
    BY <2>1, <2>2
<1>6. Progressed(k)
  BY <1>4, <1>5 DEF Progressed
<1> QED
  BY <1>6 DEF k
-------------------------------------------------------------------------------
(* What one event does to a surface, field by field.                       *)
LEMMA AddIs ==
  ASSUME NEW s \in Surfaces, NEW e \in Events
  PROVE  LET r == AddToSurface(s, e)
             fits == e.type = "compaction/summary" /\ SummaryFits(s, e)
         IN  /\ r.at = s.at + 1
             /\ r.closed = IF e.type = "turn/end" THEN s.closed \cup {e.turn} ELSE s.closed
             /\ r.nodes = CASE IsMessage(e) -> Append(s.nodes, Node(s.at + 1, e))
                            [] fits -> <<Node(s.at + 1, e)>>
                                       \o SubSeq(s.nodes, Len(e.shadowed) + 1, Len(s.nodes))
                            [] OTHER -> s.nodes
             /\ r.summaries = IF fits THEN s.summaries \cup {s.at + 1} ELSE s.summaries
             /\ r.ok <=> /\ s.ok
                         /\ e.type = "compaction/summary" => SummaryFits(s, e)
                         /\ e.type = "context-budget/decision" /\ e.outcome = "compacted" =>
                              e.summary \in s.summaries
<1> DEFINE u == [s EXCEPT !.at = @ + 1]
           r == AddToSurface(s, e)
           fits == e.type = "compaction/summary" /\ SummaryFits(s, e)
           judged == e.type = "context-budget/decision" /\ e.outcome = "compacted"
           nodes == CASE IsMessage(e) -> Append(s.nodes, Node(s.at + 1, e))
                      [] fits -> <<Node(s.at + 1, e)>>
                                 \o SubSeq(s.nodes, Len(e.shadowed) + 1, Len(s.nodes))
                      [] OTHER -> s.nodes
           Goal == /\ r.at = s.at + 1
                   /\ r.closed = IF e.type = "turn/end" THEN s.closed \cup {e.turn} ELSE s.closed
                   /\ r.nodes = nodes
                   /\ r.summaries = IF fits THEN s.summaries \cup {s.at + 1} ELSE s.summaries
                   /\ r.ok <=> /\ s.ok
                               /\ e.type = "compaction/summary" => SummaryFits(s, e)
                               /\ judged => e.summary \in s.summaries
<1>1. /\ u.ok = s.ok /\ u.nodes = s.nodes /\ u.openTurn = s.openTurn /\ u.closed = s.closed
      /\ u.openStep = s.openStep /\ u.at = s.at + 1 /\ u.summaries = s.summaries /\ u \in Surfaces
  <2>1. s.at \in Nat /\ s.at + 1 \in Nat
    BY DEF Surfaces
  <2> QED
    BY <2>1 DEF Surfaces
<1> DEFINE N == SubSeq(s.nodes, Len(e.shadowed) + 1, Len(s.nodes))
<1>2. ASSUME IsMessage(e) PROVE Goal
  <2>1. r = [u EXCEPT !.nodes = Append(u.nodes, Node(u.at, e))]
    BY <1>2 DEF AddToSurface, IsMessage
  <2>2. nodes = Append(s.nodes, Node(s.at + 1, e)) /\ ~fits /\ ~judged
        /\ e.type \notin {"turn/end", "compaction/summary"}
    BY <1>2 DEF IsMessage
  <2> HIDE DEF u, nodes, fits, judged, r
  <2> QED
    BY <1>1, <2>1, <2>2 DEF Surfaces
<1>3. ASSUME e.type = "turn/start" PROVE Goal
  <2>1. r = [u EXCEPT !.openTurn = e.turn]
    BY <1>3 DEF AddToSurface, IsMessage
  <2>2. nodes = s.nodes /\ ~fits /\ ~judged
    BY <1>3 DEF IsMessage
  <2> HIDE DEF u, nodes, fits, judged, r
  <2> QED
    BY <1>1, <1>3, <2>1, <2>2 DEF Surfaces
<1>4. ASSUME e.type = "turn/end" PROVE Goal
  <2>1. r = [u EXCEPT !.closed = u.closed \cup {e.turn},
                      !.openTurn = IF u.openTurn = e.turn THEN 0 ELSE u.openTurn]
    BY <1>4 DEF AddToSurface, IsMessage
  <2>2. nodes = s.nodes /\ ~fits /\ ~judged
    BY <1>4 DEF IsMessage
  <2> HIDE DEF u, nodes, fits, judged, r
  <2> QED
    BY <1>1, <1>4, <2>1, <2>2 DEF Surfaces
<1>5. ASSUME e.type \in {"step/start", "step/end"} PROVE Goal
  <2>1. \E n : r = [u EXCEPT !.openStep = n]
    BY <1>5 DEF AddToSurface, IsMessage
  <2>2. nodes = s.nodes /\ ~fits /\ ~judged
    BY <1>5 DEF IsMessage
  <2> HIDE DEF u, nodes, fits, judged, r
  <2> QED
    BY <1>1, <1>5, <2>1, <2>2 DEF Surfaces
<1>6. ASSUME fits PROVE Goal
  <2>1. r = [u EXCEPT !.nodes = Shadow(u, e), !.summaries = u.summaries \cup {u.at}]
    BY <1>6 DEF AddToSurface, IsMessage
  <2>2. nodes = <<Node(s.at + 1, e)>> \o N /\ ~judged
    BY <1>6 DEF IsMessage
  <2>3. Shadow(u, e) = <<Node(s.at + 1, e)>> \o N
    <3> HIDE DEF u
    <3> QED
      BY <1>1 DEF Shadow
  <2>4. e.type = "compaction/summary" /\ SummaryFits(s, e)
    BY <1>6
  <2> HIDE DEF u, nodes, judged, r, N
  <2> QED
    BY <1>1, <1>6, <2>1, <2>2, <2>3, <2>4 DEF Surfaces
<1>7. ASSUME e.type = "compaction/summary", ~SummaryFits(s, e) PROVE Goal
  <2>1. r = [u EXCEPT !.ok = FALSE]
    BY <1>7 DEF AddToSurface, IsMessage
  <2>2. nodes = s.nodes /\ ~fits /\ ~judged
    BY <1>7 DEF IsMessage
  <2> HIDE DEF u, nodes, fits, judged, r
  <2> QED
    BY <1>1, <1>7, <2>1, <2>2 DEF Surfaces
<1>8. ASSUME judged PROVE Goal
  <2>1. r = [u EXCEPT !.ok = u.ok /\ e.summary \in u.summaries]
    BY <1>8 DEF AddToSurface, IsMessage
  <2>2. nodes = s.nodes /\ ~fits /\ e.type \notin {"turn/end", "compaction/summary"}
    BY <1>8 DEF IsMessage
  <2> DEFINE fine == u.ok /\ e.summary \in u.summaries
  <2>3. fine \in BOOLEAN /\ (fine <=> s.ok /\ e.summary \in s.summaries)
    <3> HIDE DEF u
    <3> QED
      BY <1>1
  <2>4. r = [u EXCEPT !.ok = fine]
    BY <2>1
  <2> HIDE DEF u, nodes, fits, r, fine
  <2>5. r.ok = fine /\ r.at = u.at /\ r.closed = u.closed /\ r.nodes = u.nodes
        /\ r.summaries = u.summaries
    BY <1>1, <2>4 DEF Surfaces
  <2> QED
    BY <1>1, <1>8, <2>2, <2>3, <2>5
<1>9. ASSUME ~IsMessage(e), ~judged,
             e.type \notin {"turn/start", "turn/end", "step/start", "step/end", "compaction/summary"}
      PROVE  Goal
  <2>1. r = u
    BY <1>9 DEF AddToSurface
  <2>2. nodes = s.nodes /\ ~fits
    BY <1>9
  <2> HIDE DEF u, nodes, fits, judged, r
  <2> QED
    BY <1>1, <1>9, <2>1, <2>2
<1>10. Goal
  <2> HIDE DEF Goal, judged
  <2> QED
    BY <1>2, <1>3, <1>4, <1>5, <1>6, <1>7, <1>8, <1>9
<1> QED
  BY <1>10

(* What a surface says of the first n events of a log.                     *)
Shows(s, l, n) ==
  \A k \in DOMAIN s.nodes :
    LET node == s.nodes[k]
    IN  /\ node.sequence \in 1 .. n
        /\ node.event = l[node.sequence] /\ node.turn = node.event.turn
        /\ \E i \in 1 .. n : IsMessage(l[i]) /\ l[i].turn = node.turn
Ordered(s) == \A j, k \in DOMAIN s.nodes : j <= k => s.nodes[j].turn <= s.nodes[k].turn
StandsFor(node, i, e) ==
  \/ node.sequence = i
  \/ node.event.type = "compaction/summary" /\ node.turn >= e.turn
Covers(s, l, n) ==
  \A i \in 1 .. n : IsMessage(l[i]) => \E k \in DOMAIN s.nodes : StandsFor(s.nodes[k], i, l[i])
Mirrors(s, l, n) ==
  /\ s \in Surfaces /\ s.at = n
  /\ s.closed = {l[i].turn : i \in {j \in 1 .. n : l[j].type = "turn/end"}}
  /\ Shows(s, l, n) /\ Ordered(s) /\ Covers(s, l, n)

(* One sequence after the other.                                           *)
LEMMA ConcatIs ==
  ASSUME NEW S, NEW a \in Seq(S), NEW b \in Seq(S)
  PROVE  /\ a \o b \in Seq(S) /\ Len(a \o b) = Len(a) + Len(b)
         /\ \A i \in 1 .. Len(a) : (a \o b)[i] = a[i]
         /\ \A i \in 1 .. Len(b) : (a \o b)[Len(a) + i] = b[i]
OBVIOUS

(* The nodes a summary leaves.                                             *)
LEMMA ShadowIs ==
  ASSUME NEW nodes \in Seq(Nodes), NEW node \in Nodes, NEW n \in 1 .. Len(nodes)
  PROVE  LET r == <<node>> \o SubSeq(nodes, n + 1, Len(nodes))
         IN  /\ r \in Seq(Nodes) /\ Len(r) = Len(nodes) - n + 1
             /\ r[1] = node
             /\ \A k \in n + 1 .. Len(nodes) : r[k - n + 1] = nodes[k]
             /\ \A k \in 2 .. Len(r) : r[k] = nodes[k + n - 1]
<1> DEFINE rest == SubSeq(nodes, n + 1, Len(nodes))
<1>1. /\ rest \in Seq(Nodes) /\ Len(rest) = Len(nodes) - n
      /\ \A i \in 1 .. Len(rest) : rest[i] = nodes[n + i]
  BY RestIs
<1>2. Len(nodes) \in Nat /\ n \in Nat /\ n <= Len(nodes)
  OBVIOUS
<1> HIDE DEF rest
<1> DEFINE r == <<node>> \o rest
<1>3. /\ r \in Seq(Nodes) /\ Len(r) = 1 + Len(rest) /\ r[1] = node
      /\ \A i \in 1 .. Len(rest) : r[1 + i] = rest[i]
  <2> DEFINE first == <<node>>
  <2>1. first \in Seq(Nodes) /\ Len(first) = 1 /\ first[1] = node
    OBVIOUS
  <2>2. r = first \o rest
    OBVIOUS
  <2> HIDE DEF first, r
  <2>3. /\ r \in Seq(Nodes) /\ Len(r) = Len(first) + Len(rest)
        /\ \A i \in 1 .. Len(first) : r[i] = first[i]
        /\ \A i \in 1 .. Len(rest) : r[Len(first) + i] = rest[i]
    <3>1. first \in Seq(Nodes) /\ rest \in Seq(Nodes)
      BY <1>1, <2>1
    <3>2. /\ first \o rest \in Seq(Nodes) /\ Len(first \o rest) = Len(first) + Len(rest)
          /\ \A i \in 1 .. Len(first) : (first \o rest)[i] = first[i]
          /\ \A i \in 1 .. Len(rest) : (first \o rest)[Len(first) + i] = rest[i]
      BY ONLY <3>1, ConcatIs
    <3> QED
      BY <2>2, <3>2
  <2>4. 1 \in 1 .. Len(first)
    BY <2>1
  <2> QED
    BY <2>1, <2>3, <2>4
<1> HIDE DEF r
<1>4. ASSUME NEW k \in n + 1 .. Len(nodes) PROVE r[k - n + 1] = nodes[k]
  <2>1. k - n \in 1 .. Len(rest) /\ 1 + (k - n) = k - n + 1 /\ n + (k - n) = k
    BY <1>1, <1>2
  <2> QED
    BY <1>1, <1>3, <2>1
<1>5. ASSUME NEW k \in 2 .. Len(r) PROVE r[k] = nodes[k + n - 1]
  <2>1. k - 1 \in 1 .. Len(rest) /\ 1 + (k - 1) = k /\ n + (k - 1) = k + n - 1
    BY <1>1, <1>2, <1>3
  <2> QED
    BY <1>1, <1>3, <2>1
<1> QED
  BY <1>1, <1>2, <1>3, <1>4, <1>5 DEF r, rest

(* One event more, of a log in order.                                      *)
LEMMA MirrorsAdd ==
  ASSUME NEW l \in Seq(Events), InOrder(l), NEW n \in 1 .. Len(l), NEW s, Mirrors(s, l, n - 1)
  PROVE  Mirrors(AddToSurface(s, l[n]), l, n)
<1> DEFINE e == l[n]
           r == AddToSurface(s, e)
           node == Node(n, e)
           fits == e.type = "compaction/summary" /\ SummaryFits(s, e)
           N == SubSeq(s.nodes, Len(e.shadowed) + 1, Len(s.nodes))
<1>1. /\ e \in Events /\ s \in Surfaces /\ s.at = n - 1 /\ n - 1 + 1 = n
      /\ s.nodes \in Seq(Nodes) /\ Len(s.nodes) \in Nat /\ DOMAIN s.nodes = 1 .. Len(s.nodes)
      /\ n \in Nat /\ n >= 1 /\ Len(l) \in Nat /\ n <= Len(l) /\ DOMAIN l = 1 .. Len(l)
  BY DEF Mirrors, Surfaces
<1>2. /\ r.at = n
      /\ r.closed = IF e.type = "turn/end" THEN s.closed \cup {e.turn} ELSE s.closed
      /\ IsMessage(e) => r.nodes = Append(s.nodes, node)
      /\ fits => r.nodes = <<node>> \o N
      /\ ~IsMessage(e) /\ ~fits => r.nodes = s.nodes
      /\ r \in Surfaces
  <2>1. fits => ~IsMessage(e)
    BY DEF IsMessage
  <2>2. r \in Surfaces
    BY <1>1, AddType
  <2>3. /\ r.at = s.at + 1
        /\ r.closed = IF e.type = "turn/end" THEN s.closed \cup {e.turn} ELSE s.closed
        /\ r.nodes = CASE IsMessage(e) -> Append(s.nodes, Node(s.at + 1, e))
                       [] fits -> <<Node(s.at + 1, e)>> \o N
                       [] OTHER -> s.nodes
    BY <1>1, AddIs
  <2>4. s.at + 1 = n
    BY <1>1
  <2> HIDE DEF r, e, fits, N
  <2>5. r.nodes = CASE IsMessage(e) -> Append(s.nodes, node)
                    [] fits -> <<node>> \o N
                    [] OTHER -> s.nodes
    BY <2>3, <2>4
  <2> HIDE DEF node
  <2>6. /\ IsMessage(e) => r.nodes = Append(s.nodes, node)
        /\ fits => r.nodes = <<node>> \o N
        /\ ~IsMessage(e) /\ ~fits => r.nodes = s.nodes
    BY <2>1, <2>5
  <2> QED
    BY <2>2, <2>3, <2>4, <2>6
<1>3. \A i \in 1 .. n : i = n \/ i \in 1 .. n - 1
  BY <1>1
<1>4. /\ Shows(s, l, n - 1) /\ Ordered(s) /\ Covers(s, l, n - 1)
      /\ s.closed = {l[i].turn : i \in {j \in 1 .. n - 1 : l[j].type = "turn/end"}}
  BY DEF Mirrors
<1>5. node \in Nodes /\ node.sequence = n /\ node.event = e /\ node.turn = e.turn
  BY <1>1, EventFields DEF Node, Nodes
<1>6. \A i \in 1 .. n : l[i].turn \in Nat
  <2>1. \A i \in 1 .. n : l[i] \in Events
    BY <1>1
  <2> QED
    BY <2>1, EventFields
<1>7. \A k \in DOMAIN s.nodes : s.nodes[k].turn \in Nat
  <2>1. \A k \in DOMAIN s.nodes : s.nodes[k] \in Nodes
    BY <1>1
  <2> QED
    BY <2>1 DEF Nodes
<1> HIDE DEF r, e, node, fits, N
<1>8. r.closed = {l[i].turn : i \in {j \in 1 .. n : l[j].type = "turn/end"}}
  BY <1>1, <1>2, <1>3, <1>4 DEF e
<1>9. CASE IsMessage(e)
  <2>1. /\ r.nodes = Append(s.nodes, node)
        /\ DOMAIN r.nodes = 1 .. Len(s.nodes) + 1
        /\ r.nodes[Len(s.nodes) + 1] = node
        /\ \A k \in 1 .. Len(s.nodes) : r.nodes[k] = s.nodes[k]
    BY <1>1, <1>2, <1>5, <1>9
  <2>2. \A k \in 1 .. Len(s.nodes) + 1 : k = Len(s.nodes) + 1 \/ k \in DOMAIN s.nodes
    BY <1>1
  <2>3. Shows(r, l, n)
    <3> SUFFICES ASSUME NEW k \in DOMAIN r.nodes
        PROVE  /\ r.nodes[k].sequence \in 1 .. n
               /\ r.nodes[k].event = l[r.nodes[k].sequence] /\ r.nodes[k].turn = r.nodes[k].event.turn
               /\ \E i \in 1 .. n : IsMessage(l[i]) /\ l[i].turn = r.nodes[k].turn
      BY DEF Shows
    <3>1. CASE k = Len(s.nodes) + 1
      <4>1. r.nodes[k] = node /\ n \in 1 .. n /\ l[n] = e
        BY <1>1, <2>1, <3>1 DEF e
      <4> QED
        BY <1>5, <1>9, <4>1
    <3>2. CASE k \in DOMAIN s.nodes
      <4>1. r.nodes[k] = s.nodes[k]
        BY <1>1, <2>1, <3>2
      <4> QED
        BY <1>1, <1>4, <3>2, <4>1 DEF Shows
    <3> QED
      BY <2>1, <2>2, <3>1, <3>2
  <2>4. Ordered(r)
    <3> SUFFICES ASSUME NEW j \in DOMAIN r.nodes, NEW k \in DOMAIN r.nodes, j <= k
        PROVE  r.nodes[j].turn <= r.nodes[k].turn
      BY DEF Ordered
    <3>1. CASE k \in DOMAIN s.nodes
      BY <1>1, <1>4, <2>1, <3>1 DEF Ordered
    <3>2. CASE k = Len(s.nodes) + 1 /\ j \in DOMAIN s.nodes
      <4>1. PICK i \in 1 .. n - 1 : IsMessage(l[i]) /\ l[i].turn = s.nodes[j].turn
        BY <1>4, <3>2 DEF Shows
      <4>2. l[i].turn <= l[n].turn
        BY <1>1, <1>9, <4>1 DEF InOrder, e
      <4> QED
        BY <1>1, <1>5, <2>1, <3>2, <4>1, <4>2 DEF e
    <3>3. CASE j = k
      BY <1>1, <1>5, <1>6, <1>7, <2>1, <2>2, <3>3 DEF e
    <3> QED
      BY <1>1, <2>1, <2>2, <3>1, <3>2, <3>3
  <2>5. Covers(r, l, n)
    <3> SUFFICES ASSUME NEW i \in 1 .. n, IsMessage(l[i])
        PROVE  \E k \in DOMAIN r.nodes : StandsFor(r.nodes[k], i, l[i])
      BY DEF Covers
    <3>1. CASE i = n
      BY <1>1, <1>5, <2>1, <3>1 DEF StandsFor
    <3>2. CASE i \in 1 .. n - 1
      <4>1. PICK k \in DOMAIN s.nodes : StandsFor(s.nodes[k], i, l[i])
        BY <1>4, <3>2 DEF Covers
      <4>2. k \in DOMAIN r.nodes /\ r.nodes[k] = s.nodes[k]
        BY <1>1, <2>1
      <4> QED
        BY <4>1, <4>2
    <3> QED
      BY <1>3, <3>1, <3>2
  <2> QED
    BY <1>2, <1>8, <2>3, <2>4, <2>5 DEF Mirrors, r, e
<1>10. CASE fits
  <2> DEFINE m == Len(e.shadowed)
  <2>1. m \in 1 .. Len(s.nodes) /\ s.nodes[m].turn = e.turn /\ e.type = "compaction/summary"
    BY <1>10 DEF fits, SummaryFits
  <2> HIDE DEF m
  <2>2. /\ r.nodes = <<node>> \o SubSeq(s.nodes, m + 1, Len(s.nodes))
        /\ r.nodes \in Seq(Nodes) /\ Len(r.nodes) = Len(s.nodes) - m + 1
        /\ r.nodes[1] = node
        /\ \A k \in m + 1 .. Len(s.nodes) : r.nodes[k - m + 1] = s.nodes[k]
        /\ \A k \in 2 .. Len(r.nodes) : r.nodes[k] = s.nodes[k + m - 1]
    <3>1. r.nodes = <<node>> \o SubSeq(s.nodes, m + 1, Len(s.nodes))
      BY <1>2, <1>10 DEF N, m
    <3> QED
      BY <1>1, <1>5, <2>1, <3>1, ShadowIs
  <2>3. /\ DOMAIN r.nodes = 1 .. Len(r.nodes) /\ Len(r.nodes) \in Nat /\ 1 \in DOMAIN r.nodes
        /\ \A k \in DOMAIN r.nodes : k = 1 \/ (k \in 2 .. Len(r.nodes) /\ k + m - 1 \in DOMAIN s.nodes)
        /\ \A k \in DOMAIN s.nodes : k \in 1 .. m \/ k \in m + 1 .. Len(s.nodes)
        /\ \A k \in m + 1 .. Len(s.nodes) : k - m + 1 \in DOMAIN r.nodes
        /\ m \in DOMAIN s.nodes /\ m \in Nat
    <3> DEFINE a == Len(s.nodes)
               b == Len(r.nodes)
    <3>1. a \in Nat /\ m \in 1 .. a /\ b = a - m + 1 /\ DOMAIN s.nodes = 1 .. a
      BY <1>1, <2>1, <2>2
    <3>2. DOMAIN r.nodes = 1 .. b
      BY <2>2
    <3> HIDE DEF a, b
    <3> QED
      BY <3>1, <3>2 DEF a, b
  <2>4. Shows(r, l, n)
    <3> SUFFICES ASSUME NEW k \in DOMAIN r.nodes
        PROVE  /\ r.nodes[k].sequence \in 1 .. n
               /\ r.nodes[k].event = l[r.nodes[k].sequence] /\ r.nodes[k].turn = r.nodes[k].event.turn
               /\ \E i \in 1 .. n : IsMessage(l[i]) /\ l[i].turn = r.nodes[k].turn
      BY DEF Shows
    <3>1. CASE k = 1
      <4>1. PICK i \in 1 .. n - 1 : IsMessage(l[i]) /\ l[i].turn = s.nodes[m].turn
        BY <1>4, <2>3 DEF Shows
      <4>2. r.nodes[k] = node /\ n \in 1 .. n /\ l[n] = e /\ i \in 1 .. n
        BY <1>1, <2>2, <3>1 DEF e
      <4> QED
        BY <1>5, <2>1, <4>1, <4>2
    <3>2. CASE k \in 2 .. Len(r.nodes) /\ k + m - 1 \in DOMAIN s.nodes
      <4>1. r.nodes[k] = s.nodes[k + m - 1]
        BY <2>2, <3>2
      <4>2. k + m - 1 \in DOMAIN s.nodes
        BY <3>2
      <4> DEFINE j == k + m - 1
      <4>3. r.nodes[k] = s.nodes[j] /\ j \in DOMAIN s.nodes
        BY <4>1, <4>2
      <4> HIDE DEF j
      <4>4. /\ s.nodes[j].sequence \in 1 .. n - 1
            /\ s.nodes[j].event = l[s.nodes[j].sequence] /\ s.nodes[j].turn = s.nodes[j].event.turn
            /\ \E i \in 1 .. n - 1 : IsMessage(l[i]) /\ l[i].turn = s.nodes[j].turn
        BY <1>4, <4>3 DEF Shows
      <4>5. 1 .. n - 1 \subseteq 1 .. n
        BY <1>1
      <4> QED
        BY <4>3, <4>4, <4>5
    <3> QED
      BY <2>3, <3>1, <3>2
  <2>5. Ordered(r)
    <3> SUFFICES ASSUME NEW j \in DOMAIN r.nodes, NEW k \in DOMAIN r.nodes, j <= k
        PROVE  r.nodes[j].turn <= r.nodes[k].turn
      BY DEF Ordered
    <3>1. CASE j = 1 /\ k = 1
      <4>1. r.nodes[1].turn \in Nat
        <5>1. n \in 1 .. n
          BY <1>1
        <5> QED
          BY <1>5, <1>6, <2>2, <5>1 DEF e
      <4> QED
        BY <3>1, <4>1
    <3>2. CASE j = 1 /\ k \in 2 .. Len(r.nodes) /\ k + m - 1 \in DOMAIN s.nodes
      <4>1. m <= k + m - 1
        BY <2>3, <3>2
      <4>2. s.nodes[m].turn <= s.nodes[k + m - 1].turn
        BY <1>4, <2>3, <3>2, <4>1 DEF Ordered
      <4> QED
        BY <1>5, <2>1, <2>2, <3>2, <4>2
    <3>3. CASE /\ j \in 2 .. Len(r.nodes) /\ j + m - 1 \in DOMAIN s.nodes
               /\ k \in 2 .. Len(r.nodes) /\ k + m - 1 \in DOMAIN s.nodes
      <4>1. j + m - 1 <= k + m - 1
        BY <2>3, <3>3
      <4>2. s.nodes[j + m - 1].turn <= s.nodes[k + m - 1].turn
        BY <1>4, <3>3, <4>1 DEF Ordered
      <4> QED
        BY <2>2, <3>3, <4>2
    <3> QED
      BY <2>3, <3>1, <3>2, <3>3
  <2>6. Covers(r, l, n)
    <3> SUFFICES ASSUME NEW i \in 1 .. n, IsMessage(l[i])
        PROVE  \E k \in DOMAIN r.nodes : StandsFor(r.nodes[k], i, l[i])
      BY DEF Covers
    <3>1. i \in 1 .. n - 1
      BY <1>3, <2>1 DEF e, IsMessage
    <3>2. PICK k \in DOMAIN s.nodes : StandsFor(s.nodes[k], i, l[i])
      BY <1>4, <3>1 DEF Covers
    <3>3. CASE k \in m + 1 .. Len(s.nodes)
      BY <2>2, <2>3, <3>2, <3>3
    <3>4. CASE k \in 1 .. m
      <4>1. s.nodes[k].turn <= s.nodes[m].turn
        BY <1>4, <2>3, <3>4 DEF Ordered
      <4>2. s.nodes[k].turn >= l[i].turn
        <5>1. s.nodes[k].sequence = i => s.nodes[k].turn = l[i].turn
          BY <1>4, <3>2 DEF Shows
        <5> QED
          BY <1>6, <1>7, <3>2, <5>1 DEF StandsFor
      <4>3. e.turn >= l[i].turn
        BY <1>6, <1>7, <2>1, <2>3, <4>1, <4>2
      <4> QED
        BY <1>5, <2>1, <2>2, <2>3, <4>3 DEF StandsFor
    <3> QED
      BY <2>3, <3>3, <3>4
  <2> QED
    BY <1>2, <1>8, <2>4, <2>5, <2>6 DEF Mirrors, r, e
<1>11. CASE ~IsMessage(e) /\ ~fits
  <2>1. r.nodes = s.nodes
    BY <1>2, <1>11
  <2>2. Shows(r, l, n)
    BY <1>1, <1>4, <2>1 DEF Shows
  <2>3. Ordered(r)
    BY <1>4, <2>1 DEF Ordered
  <2>4. Covers(r, l, n)
    BY <1>3, <1>4, <1>11, <2>1 DEF Covers, e
  <2> QED
    BY <1>2, <1>8, <2>2, <2>3, <2>4 DEF Mirrors, r, e
<1> QED
  BY <1>9, <1>10, <1>11

(* The surface of a log in order.                                          *)
LEMMA SurfaceMirrors ==
  ASSUME NEW l \in Seq(Events), InOrder(l)
  PROVE  Mirrors(Surface(l), l, Len(l))
<1>0. Len(l) \in Nat
  OBVIOUS
<1>1. PICK f : SurfaceUpTo(f, l, Len(l)) /\ Surface(l) = f[Len(l)]
  BY <1>0, SurfaceIsUpTo
<1> DEFINE B == {i \in 0 .. Len(l) : Mirrors(f[i], l, i)}
<1>2. 0 \in B
  <2>1. f[0] = EmptySurface
    BY <1>0, <1>1 DEF SurfaceUpTo
  <2>2. EmptySurface \in Surfaces /\ EmptySurface.nodes = << >> /\ DOMAIN EmptySurface.nodes = {}
        /\ EmptySurface.at = 0 /\ EmptySurface.closed = {}
    <3>1. << >> \in Seq(Nodes)
      OBVIOUS
    <3> QED
      BY <3>1 DEF EmptySurface, Surfaces
  <2>3. 1 .. 0 = {}
    OBVIOUS
  <2>4. Mirrors(EmptySurface, l, 0)
    BY <2>2, <2>3 DEF Mirrors, Shows, Ordered, Covers
  <2> QED
    BY <1>0, <2>1, <2>4
<1>3. ASSUME NEW i \in 1 .. Len(l), i - 1 \in B PROVE i \in B
  <2>1. f[i] = AddToSurface(f[i - 1], l[i])
    BY <1>0, <1>1 DEF SurfaceUpTo
  <2>2. Mirrors(f[i - 1], l, i - 1)
    BY <1>3
  <2>3. Mirrors(f[i], l, i)
    BY <2>1, <2>2, MirrorsAdd
  <2> QED
    BY <1>0, <2>3
<1>4. 0 .. Len(l) \subseteq B
  <2> HIDE DEF B
  <2> QED
    BY <1>0, <1>2, <1>3, UpTo
<1> QED
  BY <1>0, <1>1, <1>4

(* No message of such a log is lost to the model.                          *)
LEMMA OrderCovers ==
  ASSUME NEW l \in Seq(Events), InOrder(l)
  PROVE  Covered(l)
<1>1. Covers(Surface(l), l, Len(l))
  BY SurfaceMirrors DEF Mirrors
<1>2. DOMAIN l = 1 .. Len(l)
  OBVIOUS
<1> QED
  BY <1>1, <1>2 DEF Covers, StandsFor, Covered
-------------------------------------------------------------------------------
(* What a compaction selects: the nodes before the first one it may not.   *)
LEMMA SelectedIs ==
  ASSUME log \in Seq(Events)
  PROVE  /\ Selected \in Seq(Nodes) /\ Len(Selected) \in 0 .. Len(Surface(log).nodes)
         /\ \A k \in 1 .. Len(Selected) :
              Selected[k] = Surface(log).nodes[k] /\ Selected[k].turn \in Compactable
<1> DEFINE nodes == Surface(log).nodes
           I == {i \in 1 .. Len(nodes) : nodes[i].turn \notin Compactable}
<1>1. nodes \in Seq(Nodes) /\ Len(nodes) \in Nat
  BY SurfaceType DEF Surfaces
<1>2. CASE I = {}
  <2>1. Selected = nodes
    BY <1>2 DEF Selected, SelectInSeq
  <2> QED
    BY <1>1, <1>2, <2>1
<1>3. CASE I # {}
  <2>1. PICK n \in I : \A m \in I : n <= m
    <3>1. I \in SUBSET Nat
      OBVIOUS
    <3> QED
      BY <1>3, <3>1, LeastNatural
  <2>2. Min(I) \in I /\ \A m \in I : Min(I) <= m
    BY <2>1 DEF Min
  <2>3. SelectInSeq(nodes, LAMBDA x : x.turn \notin Compactable) = Min(I)
    BY <1>3 DEF SelectInSeq
  <2> DEFINE first == Min(I)
  <2>4. first \in 1 .. Len(nodes) /\ \A m \in I : first <= m
    BY <2>2
  <2>5. Selected = SubSeq(nodes, 1, first - 1)
    <3>1. first # 0
      <4> HIDE DEF first, I
      <4> QED
        BY <1>1, <2>4
    <3> HIDE DEF first
    <3>2. SelectInSeq(nodes, LAMBDA x : x.turn \notin Compactable) = first
      BY <2>3 DEF first
    <3> QED
      BY <3>1, <3>2 DEF Selected
  <2>6. \A k \in 1 .. first - 1 : nodes[k].turn \in Compactable
    <3>1. \A k \in 1 .. Len(nodes) : k \notin I => nodes[k].turn \in Compactable
      OBVIOUS
    <3> HIDE DEF first, I, nodes
    <3> QED
      BY <1>1, <2>4, <3>1
  <2> HIDE DEF first, nodes
  <2>7. /\ Selected \in Seq(Nodes) /\ Len(Selected) = first - 1
        /\ \A k \in 1 .. first - 1 : Selected[k] = nodes[k]
    BY <1>1, <2>4, <2>5
  <2> QED
    BY <1>1, <2>4, <2>6, <2>7 DEF nodes
<1> QED
  BY <1>2, <1>3

(* Messages of turns that may be compacted may be summarised.              *)
LEMMA CompactableBehind ==
  ASSUME log \in Seq(Events), ClosedOnce(log), NEW s,
         \A k \in DOMAIN s : s[k] \in DOMAIN log /\ log[s[k]].turn \in Compactable
  PROVE  Behind(log, s)
<1> SUFFICES ASSUME NEW q \in Range(s)
    PROVE  /\ q \in DOMAIN log
           /\ \E j \in ClosedTurns(log) : log[j].turn = log[q].turn
           /\ \A j \in ClosedTurns(log) : log[j].turn = log[q].turn =>
                Cardinality(ClosedAfter(log, j)) >= RetainTurns
  BY DEF Behind
<1>1. q \in DOMAIN log /\ log[q].turn \in Compactable
  BY DEF Range
<1>2. PICK i \in ClosedTurns(log) : /\ Cardinality(ClosedAfter(log, i)) >= RetainTurns
                                    /\ log[i].turn = log[q].turn
  BY <1>1 DEF Compactable
<1>3. \A j \in ClosedTurns(log) : log[j].turn = log[q].turn => j = i
  BY <1>2 DEF ClosedOnce
<1> QED
  BY <1>1, <1>2, <1>3

(* They still may when the log has grown.                                  *)
LEMMA BehindAppend ==
  ASSUME NEW l \in Seq(Events), NEW e \in Events, NEW s, Behind(l, s),
         e.type = "turn/end" => ~IsClosed(l, e.turn)
  PROVE  Behind(Append(l, e), s)
<1> DEFINE k == Append(l, e)
<1>1. /\ Len(l) \in Nat /\ DOMAIN l = 1 .. Len(l) /\ DOMAIN k = 1 .. Len(l) + 1
      /\ \A i \in 1 .. Len(l) : k[i] = l[i]
      /\ k[Len(l) + 1] = e /\ k \in Seq(Events)
  BY AppendIs
<1>2. /\ ClosedTurns(k) = IF e.type = "turn/end" THEN ClosedTurns(l) \cup {Len(l) + 1} ELSE ClosedTurns(l)
      /\ ClosedTurns(l) \subseteq 1 .. Len(l)
  BY ClosedAppend
<1> HIDE DEF k
<1>3. ASSUME NEW q \in Range(s)
      PROVE  /\ q \in DOMAIN k
             /\ \E j \in ClosedTurns(k) : k[j].turn = k[q].turn
             /\ \A j \in ClosedTurns(k) : k[j].turn = k[q].turn =>
                  Cardinality(ClosedAfter(k, j)) >= RetainTurns
  <2>1. /\ q \in 1 .. Len(l) /\ k[q] = l[q]
        /\ \A j \in ClosedTurns(l) : l[j].turn = l[q].turn =>
             Cardinality(ClosedAfter(l, j)) >= RetainTurns
    BY <1>1, <1>3 DEF Behind
  <2>2. PICK i \in ClosedTurns(l) : l[i].turn = l[q].turn
    BY <1>3 DEF Behind
  <2>3. i \in ClosedTurns(k) /\ k[i] = l[i]
    BY <1>1, <1>2, <2>2
  <2>4. ASSUME NEW j \in ClosedTurns(k), k[j].turn = k[q].turn
        PROVE  Cardinality(ClosedAfter(k, j)) >= RetainTurns
    <3>1. j \in ClosedTurns(l)
      <4>1. IsClosed(l, l[q].turn)
        BY <2>2 DEF IsClosed
      <4> QED
        BY <1>1, <1>2, <2>1, <2>4, <4>1
    <3>2. Cardinality(ClosedAfter(l, j)) >= RetainTurns
      BY <1>1, <1>2, <2>1, <2>4, <3>1
    <3>3. ClosedAfter(l, j) \subseteq ClosedAfter(k, j)
      BY <1>2 DEF ClosedAfter
    <3>4. /\ ClosedAfter(l, j) \subseteq ClosedTurns(l)
          /\ ClosedAfter(k, j) \subseteq ClosedTurns(k)
      BY DEF ClosedAfter
    <3>5. /\ IsFiniteSet(ClosedAfter(k, j)) /\ Cardinality(ClosedAfter(k, j)) \in Nat
          /\ Cardinality(ClosedAfter(l, j)) \in Nat
      BY <1>1, <3>4, ClosedFinite
    <3>6. Cardinality(ClosedAfter(l, j)) <= Cardinality(ClosedAfter(k, j))
      BY <3>3, <3>5, FS_Subset
    <3> QED
      BY <3>2, <3>5, <3>6, UpkeepAssumption
  <2> QED
    BY <1>1, <2>1, <2>2, <2>3, <2>4
<1>4. Behind(k, s)
  BY <1>3 DEF Behind
<1> QED
  BY <1>4 DEF k
-------------------------------------------------------------------------------
(* The invariant.  What the log is, whoever appended to it:                *)
Sound(l) ==
  /\ Surface(l).ok /\ Numbered(l) /\ ClosedOnce(l) /\ InOrder(l) /\ Reopens(l)
  /\ Retained(l) /\ Progressed(l)

Compactions == [by : {"none", "host", "policy"}, source : Seq(Numbers), boundary : Nat,
                openTurn : Nat, refused : BOOLEAN]
Policies == [pc : {"none", "compact", "decide"},
             outcome : {"none", "compacted", "no_progress", "failed"},
             summary : Nat, asked : BOOLEAN, attempts : Nat]
UpkeepType ==
  /\ command \in Nat
  /\ compaction \in Compactions
  /\ policy \in Policies

(* The turn that runs is the last one, and open.                           *)
LiveInv ==
  /\ Live => loop.turn = Turned(log) /\ ~IsClosed(log, loop.turn)
  /\ loop.cause # "none" => loop.pc \in {"catch", "end"}

(* What a compaction read before its await is still so.                    *)
Selects(s, source, boundary) ==
  /\ Len(source) \in 1 .. Len(s.nodes)
  /\ \A i \in 1 .. Len(source) : source[i] = s.nodes[i].sequence
  /\ s.nodes[Len(source)].turn = boundary /\ boundary \in s.closed
CompactionInv ==
  /\ ~compaction.refused
  /\ compaction.by # "none" =>
       /\ ~At("down")
       /\ Selects(Surface(log), compaction.source, compaction.boundary)
       /\ Behind(log, compaction.source)

(* The policy runs inside a hook of the loop.                              *)
PolicyInv ==
  /\ policy.pc = "compact" <=> compaction.by = "policy"
  /\ policy.pc # "none" => loop.pc \in {"prepare", "recover"} /\ policy.asked
  /\ policy.pc = "decide" =>
       /\ policy.outcome # "none"
       /\ policy.outcome = "compacted" => policy.summary \in Surface(log).summaries

(* The steps of the running turn that failed are behind it, unless it is   *)
(* recovering from one or closing; each retry so far cost an attempt, and  *)
(* the next one has cost an attempt and a summary.                         *)
Tried == Cardinality(RetriedSteps(log, loop.turn))
IsFailure(e) == e.type = "step/end" /\ e.turn = loop.turn /\ e.outcome = "failed"
StepsInv ==
  Live =>
    /\ \A i \in DOMAIN log : IsFailure(log[i]) =>
         \/ log[i].step < loop.step /\ ~At("user")
         \/ log[i].step = loop.step /\ loop.pc \in {"recover", "catch", "end"}
    /\ Tried <= policy.attempts /\ policy.attempts <= MaxOverflowRetries
    /\ At("prepare") /\ Failed(log, loop.turn, loop.step - 1) =>
         Tried + 1 <= policy.attempts /\ Shrunk(log, loop.turn, loop.step - 1)
    /\ At("recover") =>
         /\ Failed(log, loop.turn, loop.step)
         /\ policy.asked => Tried + 1 <= policy.attempts
         /\ policy.outcome = "compacted" =>
              policy.asked /\ Shrunk(log, loop.turn, loop.step)

UpkeepInv ==
  /\ TypeInv /\ LoopInv /\ CancelInv /\ UpkeepType
  /\ Sound(log) /\ LiveInv /\ CompactionInv /\ PolicyInv /\ StepsInv
-------------------------------------------------------------------------------
(* An event that may follow a log.                                         *)
Suits(l, e) ==
  /\ IF e.type = "turn/start" THEN e.turn = Turned(l) + 1 ELSE e.turn <= Turned(l)
  /\ e.type = "turn/end" => ~IsClosed(l, e.turn)
  /\ IsMessage(e) => e.turn = Turned(l)
  /\ e.type = "compaction/summary" => SummaryFits(Surface(l), e) /\ Behind(l, e.shadowed)
  /\ e.type = "context-budget/decision" /\ e.outcome = "compacted" =>
       e.summary \in Surface(l).summaries
  /\ e.type = "step/start" /\ Failed(l, e.turn, e.step - 1) =>
       /\ Cardinality(RetriedSteps(l, e.turn)) + 1 <= MaxOverflowRetries
       /\ Shrunk(l, e.turn, e.step - 1)

(* Such an event keeps the log sound.                                      *)
LEMMA SoundAppend ==
  ASSUME NEW l \in Seq(Events), NEW e \in Events, Sound(l), Suits(l, e)
  PROVE  Sound(Append(l, e))
<1>1. /\ Surface(l).ok /\ Numbered(l) /\ ClosedOnce(l) /\ InOrder(l) /\ Reopens(l)
      /\ Retained(l) /\ Progressed(l)
  BY DEF Sound
<1>2. e.turn <= Turned(l) \/ (e.type = "turn/start" /\ e.turn = Turned(l) + 1)
  BY DEF Suits
<1>3. Surface(Append(l, e)).ok
  <2>1. Surface(Append(l, e)) = AddToSurface(Surface(l), e) /\ Surface(l) \in Surfaces
    BY SurfaceAppend, SurfaceType
  <2>2. AddToSurface(Surface(l), e).ok
    BY <1>1, <2>1, AddIs DEF Suits
  <2> QED
    BY <2>1, <2>2
<1>4. Numbered(Append(l, e))
  BY <1>1, <1>2, NumberedAppend
<1>5. ClosedOnce(Append(l, e))
  BY <1>1, ClosedOnceAppend DEF Suits
<1>6. InOrder(Append(l, e))
  BY <1>1, InOrderAppend DEF Suits
<1>7. Reopens(Append(l, e))
  BY <1>1, <1>2, ReopensAppend DEF Suits
<1>8. Retained(Append(l, e))
  BY <1>1, RetainedAppend DEF Suits
<1>9. Progressed(Append(l, e))
  BY <1>1, ProgressedAppend DEF Suits
<1> QED
  BY <1>3, <1>4, <1>5, <1>6, <1>7, <1>8, <1>9 DEF Sound

(* What a compaction has selected is still there after any other event,    *)
(* and so are the summaries.                                               *)
LEMMA SelectsAppend ==
  ASSUME NEW l \in Seq(Events), NEW e \in Events
  PROVE  /\ Surface(l).summaries \subseteq Surface(Append(l, e)).summaries
         /\ Surface(l).closed \subseteq Surface(Append(l, e)).closed
         /\ e.type # "compaction/summary" =>
              \A s \in Seq(Numbers) : \A b : Selects(Surface(l), s, b) => Selects(Surface(Append(l, e)), s, b)
<1> DEFINE now == Surface(l)
           next == Surface(Append(l, e))
<1>1. /\ next = AddToSurface(now, e) /\ now \in Surfaces
  BY SurfaceAppend, SurfaceType
<1> DEFINE fits == e.type = "compaction/summary" /\ SummaryFits(now, e)
<1>2. /\ next.closed = IF e.type = "turn/end" THEN now.closed \cup {e.turn} ELSE now.closed
      /\ next.summaries = IF fits THEN now.summaries \cup {now.at + 1} ELSE now.summaries
      /\ e.type # "compaction/summary" =>
           next.nodes = IF IsMessage(e) THEN Append(now.nodes, Node(now.at + 1, e)) ELSE now.nodes
  <2> HIDE DEF now, next
  <2> QED
    BY <1>1, AddIs
<1>3. now.nodes \in Seq(Nodes)
  BY <1>1 DEF Surfaces
<1> HIDE DEF now, next
<1>4. ASSUME e.type # "compaction/summary"
      PROVE  /\ Len(next.nodes) \in Nat /\ Len(next.nodes) >= Len(now.nodes) /\ Len(now.nodes) \in Nat
             /\ \A i \in 1 .. Len(now.nodes) : next.nodes[i] = now.nodes[i]
  <2>1. CASE IsMessage(e)
    <3> DEFINE node == Node(now.at + 1, e)
    <3>1. next.nodes = Append(now.nodes, node)
      BY <1>2, <1>4, <2>1
    <3> HIDE DEF node
    <3> QED
      BY <1>3, <3>1
  <2>2. CASE ~IsMessage(e)
    BY <1>2, <1>3, <1>4, <2>2
  <2> QED
    BY <2>1, <2>2
<1>5. ASSUME e.type # "compaction/summary", NEW s \in Seq(Numbers), NEW b, Selects(now, s, b)
      PROVE  Selects(next, s, b)
  <2>1. Len(s) \in 1 .. Len(now.nodes) /\ Len(s) \in 1 .. Len(next.nodes)
    BY <1>4, <1>5 DEF Selects
  <2>2. \A i \in 1 .. Len(s) : i \in 1 .. Len(now.nodes)
    BY <1>4, <2>1
  <2> QED
    BY <1>2, <1>4, <1>5, <2>1, <2>2 DEF Selects
<1>6. now.summaries \subseteq next.summaries /\ now.closed \subseteq next.closed
  BY <1>2
<1> QED
  BY <1>5, <1>6 DEF now, next

(* A sequence and what follows it, one element later.                      *)
LEMMA ConcatAppend ==
  ASSUME NEW S, NEW a \in Seq(S), NEW b \in Seq(S), NEW e \in S
  PROVE  a \o (b \o <<e>>) = Append(a \o b, e) /\ a \o Append(b, e) = Append(a \o b, e)
<1>1. b \o <<e>> = Append(b, e)
  OBVIOUS
<1>2. a \o Append(b, e) = Append(a \o b, e)
  OBVIOUS
<1> QED
  BY <1>1, <1>2

(* What a new process appends: the end of the command, results, the end of *)
(* the step, and then the end of the turn.                                 *)
Closings(t) ==
  {e \in Events : \/ e.type = "command/done" /\ e.turn = 0
                  \/ e.type \in {"tool/result", "step/end"} /\ e.turn = t}

LEMMA ClosersShape ==
  ASSUME NEW l \in Seq(Events)
  PROVE  LET t == TailScan(l).turn
             end == TurnEnd(t, "interrupted")
         IN  \E s \in Seq(Closings(t)) :
               /\ Closers(l) = IF t = 0 THEN s ELSE Append(s, end)
               /\ t # 0 => end \in Events /\ t \in Numbers
<1> DEFINE t == TailScan(l).turn
           tail == TailScan(l).scan
           open == CommandScan(l).open
           out(i) == IF tail.pending[i].started THEN "outcome-unknown" ELSE "not-started"
           r == [i \in DOMAIN tail.pending |-> ToolResult(t, tail.pending[i].call, out(i))]
           end == TurnEnd(t, "interrupted")
           done == IF open = 0 THEN << >> ELSE <<CommandDone(open)>>
           step == IF tail.step = 0 THEN << >> ELSE <<StepEnd(t, tail.step, "interrupted")>>
           T == Closings(t)
<1>1. t \in Nat /\ tail \in Tails /\ tail.pending \in Seq(Pendings) /\ tail.step \in Nat /\ open \in Nat
  BY TailScanType, CommandType DEF Tails, CommandScans
<1>2. Closers(l) = done \o (IF t = 0 THEN << >> ELSE r \o step \o <<end>>)
  BY DEF Closers
<1>3. << >> \in Seq(T) /\ \A e \in T : <<e>> \in Seq(T)
  <2> HIDE DEF T
  <2> QED
    OBVIOUS
<1> HIDE DEF t, tail, open
<1>4. done \in Seq(T)
  <2>1. CASE open = 0
    BY <1>3, <2>1
  <2>2. CASE open # 0
    <3> DEFINE e == CommandDone(open)
    <3>1. e \in Events /\ e.type = "command/done" /\ e.turn = 0
      BY <1>1, <2>2 DEF CommandDone, Events, Numbers
    <3>2. e \in T
      BY <3>1 DEF Closings
    <3>3. done = <<e>>
      BY <2>2
    <3> HIDE DEF e, done, T
    <3> QED
      BY <1>3, <3>2, <3>3
  <2> QED
    BY <2>1, <2>2
<1>5. CASE t = 0
  <2>1. Closers(l) = done \o << >>
    BY <1>2, <1>5
  <2> HIDE DEF done, T
  <2>2. Closers(l) = done
    BY <1>4, <2>1
  <2> QED
    BY <1>4, <1>5, <2>2 DEF t, T
<1>6. CASE t # 0
  <2>1. t \in Numbers
    BY <1>1, <1>6 DEF Numbers
  <2>2. end \in Events
    BY <2>1, EventTypes
  <2>3. r \in Seq(T)
    <3>1. DOMAIN tail.pending = 1 .. Len(tail.pending) /\ Len(tail.pending) \in Nat
      BY <1>1
    <3>2. ASSUME NEW i \in DOMAIN tail.pending
          PROVE  ToolResult(t, tail.pending[i].call, out(i)) \in T
      <4>1. tail.pending[i] \in Pendings
        BY <1>1
      <4>2. tail.pending[i].call \in Calls
        BY <4>1 DEF Pendings
      <4>3. ToolResult(t, tail.pending[i].call, out(i)) \in Events
        BY <2>1, <4>2, EventTypes
      <4> QED
        BY <4>3 DEF Closings, ToolResult
    <3> HIDE DEF T
    <3> QED
      BY <3>1, <3>2
  <2>4. step \in Seq(T)
    <3>1. CASE tail.step = 0
      BY <1>3, <3>1
    <3>2. CASE tail.step # 0
      <4> DEFINE e == StepEnd(t, tail.step, "interrupted")
      <4>1. tail.step \in Numbers
        BY <1>1, <3>2 DEF Numbers
      <4>2. e \in Events
        BY <2>1, <4>1, EventTypes
      <4>3. e \in T
        BY <4>2 DEF Closings, StepEnd
      <4>4. step = <<e>>
        BY <3>2
      <4> HIDE DEF e, step, T
      <4> QED
        BY <1>3, <4>3, <4>4
    <3> QED
      BY <3>1, <3>2
  <2>5. Closers(l) = done \o ((r \o step) \o <<end>>)
    BY <1>2, <1>6
  <2> HIDE DEF done, r, step, end, T
  <2> DEFINE s == done \o (r \o step)
  <2>6. r \o step \in Seq(T) /\ s \in Seq(T)
    BY ONLY <1>4, <2>3, <2>4, ConcatIs
  <2>7. Closers(l) = Append(s, end)
    <3>1. T \subseteq Events
      BY DEF T, Closings
    <3>2. \A x \in Seq(T) : x \in Seq(Events)
      BY <3>1
    <3> QED
      BY <1>4, <2>2, <2>5, <2>6, <3>2, ConcatAppend
  <2> HIDE DEF s
  <2> QED
    BY <1>6, <2>1, <2>2, <2>6, <2>7 DEF t, end, T
<1> QED
  BY <1>5, <1>6

(* A log that differs by such events is as sound, and has the same turns.  *)
SameTurns(l, k) ==
  /\ k \in Seq(Events) /\ Sound(k) /\ Turned(k) = Turned(l)
  /\ \A t : IsClosed(k, t) <=> IsClosed(l, t)

LEMMA ClosingStep ==
  ASSUME NEW l \in Seq(Events), NEW t \in Nat, NEW e \in Closings(t), NEW k, SameTurns(l, k),
         t # 0 => t = Turned(l), t = 0 => e.type = "command/done"
  PROVE  SameTurns(l, Append(k, e))
<1>1. /\ k \in Seq(Events) /\ Sound(k) /\ Turned(k) = Turned(l)
      /\ \A x : IsClosed(k, x) <=> IsClosed(l, x)
  BY DEF SameTurns
<1>2. /\ e \in Events /\ e.type \in {"command/done", "tool/result", "step/end"}
      /\ e.type = "command/done" => e.turn = 0
      /\ e.type # "command/done" => e.turn = t
  BY DEF Closings
<1>3. Turned(l) \in Nat
  BY CountType DEF Turned
<1>4. Suits(k, e)
  BY <1>1, <1>2, <1>3 DEF Suits, IsMessage
<1>5. Sound(Append(k, e))
  BY <1>1, <1>2, <1>4, SoundAppend
<1>6. Turned(Append(k, e)) = Turned(k)
  BY <1>1, <1>2, <1>3, NumberedAppend DEF Sound
<1>7. \A x : IsClosed(Append(k, e), x) <=> IsClosed(k, x)
  BY <1>1, <1>2, ClosedAppend
<1>8. Append(k, e) \in Seq(Events)
  BY <1>1, <1>2
<1> QED
  BY <1>1, <1>5, <1>6, <1>7, <1>8 DEF SameTurns

(* Any number of them.                                                     *)
LEMMA ClosingTo ==
  ASSUME NEW l \in Seq(Events), NEW t \in Nat, NEW s \in Seq(Closings(t)), Sound(l),
         t # 0 => t = Turned(l),
         t = 0 => \A i \in DOMAIN s : s[i].type = "command/done"
  PROVE  SameTurns(l, l \o s)
<1> DEFINE k(i) == l \o SubSeq(s, 1, i)
           B == {i \in 0 .. Len(s) : SameTurns(l, k(i))}
<1>1. Len(s) \in Nat /\ DOMAIN s = 1 .. Len(s)
  OBVIOUS
<1>2. 0 \in B
  <2>1. k(0) = l
    OBVIOUS
  <2>2. SameTurns(l, l)
    BY DEF SameTurns
  <2> HIDE DEF k
  <2> QED
    BY <1>1, <2>1, <2>2
<1>3. ASSUME NEW i \in 1 .. Len(s), i - 1 \in B PROVE i \in B
  <2> DEFINE n == i - 1
  <2>1. n \in Nat /\ n + 1 = i /\ n \in 0 .. Len(s) /\ SameTurns(l, k(n))
    BY <1>3
  <2>2. k(i) = Append(k(n), s[i])
    <3> DEFINE a == SubSeq(s, 1, n)
    <3>1. SubSeq(s, 1, i) = Append(a, s[i])
      BY <2>1
    <3>2. a \in Seq(Closings(t)) /\ s[i] \in Closings(t)
      BY <2>1
    <3>3. Closings(t) \subseteq Events
      BY DEF Closings
    <3> HIDE DEF a
    <3>4. a \in Seq(Events) /\ s[i] \in Events
      BY <3>2, <3>3
    <3>5. l \o Append(a, s[i]) = Append(l \o a, s[i])
      BY <3>4
    <3> QED
      BY <3>1, <3>5 DEF a
  <2>3. SameTurns(l, Append(k(n), s[i]))
    <3>1. s[i] \in Closings(t)
      BY <1>1
    <3> HIDE DEF n, k
    <3> QED
      BY <1>1, <2>1, <3>1, ClosingStep
  <2>4. i \in 0 .. Len(s)
    BY <1>1
  <2> HIDE DEF k, n
  <2>5. SameTurns(l, k(i))
    BY <2>2, <2>3
  <2> QED
    BY <2>4, <2>5
<1>4. 0 .. Len(s) \subseteq B
  <2> HIDE DEF B
  <2> QED
    BY <1>1, <1>2, <1>3, UpTo
<1>5. k(Len(s)) = l \o s
  <2>1. SubSeq(s, 1, Len(s)) = s
    BY <1>1
  <2> QED
    BY <2>1
<1>6. Len(s) \in B
  <2> HIDE DEF B
  <2> QED
    BY <1>1, <1>4
<1>7. SameTurns(l, k(Len(s)))
  <2> HIDE DEF k
  <2> QED
    BY <1>6
<1> HIDE DEF k
<1> QED
  BY <1>5, <1>7

(* The log a new process goes on with is sound.                            *)
LEMMA ClosingSound ==
  ASSUME NEW l \in Seq(Events), Sound(l), Loadable(l)
  PROVE  l \o Closers(l) \in Seq(Events) /\ Sound(l \o Closers(l))
<1> DEFINE t == TailScan(l).turn
           end == TurnEnd(t, "interrupted")
<1>1. /\ t \in Nat /\ Turned(l) \in Nat
      /\ t # 0 => t = Turned(l) /\ ~IsClosed(l, t)
  BY TailScanType, CountType DEF Turned, Loadable, Sound, Reopens
<1>2. PICK s \in Seq(Closings(t)) :
        /\ Closers(l) = IF t = 0 THEN s ELSE Append(s, end)
        /\ t # 0 => end \in Events /\ t \in Numbers
  BY ClosersShape
<1>3. Closings(t) \subseteq Events /\ \A e \in Closings(0) : e.type = "command/done"
  BY EventFields DEF Closings, Numbers
<1> HIDE DEF t
<1>4. SameTurns(l, l \o s)
  <2>1. t = 0 => \A i \in DOMAIN s : s[i].type = "command/done"
    BY <1>2, <1>3
  <2> QED
    BY <1>1, <1>2, <2>1, ClosingTo
<1>5. CASE t = 0
  BY <1>2, <1>4, <1>5 DEF SameTurns
<1>6. CASE t # 0
  <2>1. s \in Seq(Events) /\ end \in Events /\ Closers(l) = Append(s, end)
    BY <1>2, <1>3, <1>6
  <2> DEFINE k == l \o s
  <2>2. l \o Closers(l) = Append(k, end)
    <3> HIDE DEF end
    <3> QED
      BY <2>1, ConcatAppend
  <2>3. /\ k \in Seq(Events) /\ Sound(k) /\ Turned(k) = Turned(l)
        /\ \A x : IsClosed(k, x) <=> IsClosed(l, x)
    BY <1>4 DEF SameTurns
  <2> HIDE DEF k
  <2>4. Suits(k, end)
    BY <1>1, <1>6, <2>3 DEF Suits, TurnEnd, IsMessage
  <2>5. Append(k, end) \in Seq(Events) /\ Sound(Append(k, end))
    BY <2>1, <2>3, <2>4, SoundAppend
  <2> QED
    BY <2>2, <2>5
<1> QED
  BY <1>5, <1>6
-------------------------------------------------------------------------------
(* The steps of the loop, by what they do to the steps of the turn: most   *)
(* leave the step where it is, and fail one only to end the turn.          *)
Moved(s) ==
  \/ s = Idle
  \/ /\ s.turn = loop.turn /\ s.step = loop.step
     /\ s.pc \notin {"idle", "down", "user", "recover"}
     /\ s.pc = "prepare" => At("user")
     /\ loop.pc \in {"recover", "catch", "end"} => s.pc \in {"catch", "end"}
     /\ s.pc \in {"catch", "end"} \/ s.cause = loop.cause
Told(e, s) ==
  /\ e \in Events /\ e.turn = loop.turn
  /\ e.type \notin {"turn/start", "step/start", "compaction/summary", "context-budget/decision"}
  /\ e.type = "turn/end" => s = Idle
  /\ IsFailure(e) => e.step = loop.step /\ s.pc = "catch"
Elsewhere ==
  /\ Live /\ Moved(loop')
  /\ log' = log \/ \E e : log' = Append(log, e) /\ Told(e, loop')

OnTo(pc, step) ==
  /\ Live /\ loop'.turn = loop.turn /\ loop'.cause = loop.cause
  /\ loop'.pc = pc /\ loop'.step = step
Tries ==
  At("prepare") /\ log' = Append(log, StepStart(loop.turn, loop.step)) /\ OnTo("model", loop.step)
FailsOnce ==
  /\ At("model") /\ log' = Append(log, StepEnd(loop.turn, loop.step, "failed"))
  /\ OnTo("recover", loop.step)
TriesAgain == At("recover") /\ log' = log /\ OnTo("prepare", loop.step + 1)
GoesOn ==
  /\ At("call") /\ log' = Append(log, StepEnd(loop.turn, loop.step, "tool_calls"))
  /\ OnTo("prepare", loop.step + 1)

(* Both outcomes of an append are such a move.                             *)
LEMMA ElsewhereOr ==
  ASSUME Live, NEW e, NEW s, NEW f, AppendOr(e, s, f), Told(e, s), Moved(s), Moved(f)
  PROVE  Elsewhere
BY DEF AppendOr, Elsewhere

(* Throwing, and returning from the tool registry, are such moves.         *)
LEMMA MovedTo ==
  ASSUME loop \in Loops, Live
  PROVE  /\ Moved(Idle) /\ Moved(Caught)
         /\ \A r : loop.pc \in Executing => Moved(Settle(r))
         /\ \A pc \in {"finish", "approve", "sandbox", "effect", "call", "ask"} :
              loop.pc \notin {"recover", "catch", "end"} => Moved(Goto(pc))
         /\ At("user") => Moved(Goto("prepare"))
         /\ At("catch") => Moved(Goto("end"))
<1>1. Moved(Idle) /\ Moved(Caught)
  BY DEF Moved, Caught, Loops
<1>2. \A r : loop.pc \in Executing => Moved(Settle(r))
  BY DEF Moved, Settle, Loops, Executing
<1>3. \A pc \in {"finish", "approve", "sandbox", "effect", "call", "ask"} :
        loop.pc \notin {"recover", "catch", "end"} => Moved(Goto(pc))
  BY DEF Moved, Goto, Loops
<1>4. /\ At("user") => Moved(Goto("prepare"))
      /\ At("catch") => Moved(Goto("end"))
  BY DEF Moved, Goto, Loops, At
<1> QED
  BY <1>1, <1>2, <1>3, <1>4

(* Each step of the loop is one of the five.                               *)
LEMMA LoopMoves ==
  ASSUME TypeInv, LoopInv, CancelInv, LoopStep
  PROVE  Tries \/ FailsOnce \/ TriesAgain \/ GoesOn \/ Elsewhere
<1>1. /\ Good(loop) /\ loop \in Loops /\ loop.step \in Nat /\ loop.pending \in Seq(Requests)
      /\ log \in Seq(Events)
  BY DEF TypeInv, LoopInv, CancelInv, Good, Loops
<1>2. Live => loop.turn \in Numbers /\ loop.step \in Numbers
  BY <1>1 DEF Live, Good, LoopOk
<1>3. loop.pending # << >> => Current \in Calls
  BY <1>1, CurrentType
<1>4. /\ loop.pc \in Executing => loop.pending # << >>
      /\ loop.pc \in Opened => loop.open = loop.step
      /\ loop.open \in {0, loop.step}
  BY <1>1 DEF Good, LoopOk
<1> USE DEF At
<1>5. CASE RunUser
  <2>1. Live
    BY <1>5 DEF RunUser, Live, Runs
  <2>2. Told(UserMessage(loop.turn), Goto("prepare"))
    BY <1>2, <2>1, EventTypes DEF Told, UserMessage, IsFailure
  <2> QED
    BY <1>1, <1>5, <2>1, <2>2, MovedTo, ElsewhereOr DEF RunUser
<1>6. CASE BeginStep
  <2>1. Live
    BY <1>6 DEF BeginStep, Live, Runs
  <2>2. \/ /\ log' = Append(log, StepStart(loop.turn, loop.step))
           /\ loop' = [loop EXCEPT !.pc = "model", !.open = loop.step]
        \/ log' = log /\ loop' = Caught
    BY <1>6 DEF BeginStep, AppendOr
  <2>3. CASE log' = log /\ loop' = Caught
    BY <1>1, <2>1, <2>3, MovedTo DEF Elsewhere
  <2>4. CASE loop' = [loop EXCEPT !.pc = "model", !.open = loop.step]
    BY <1>1, <1>6, <2>1, <2>2, <2>3, <2>4 DEF BeginStep, Tries, OnTo, Loops
  <2> QED
    BY <2>2, <2>3, <2>4
<1>7. CASE PrepareFails \/ GiveUp \/ ExecuteAborts
  <2>1. Live /\ log' = log /\ loop' = Caught
    BY <1>7 DEF PrepareFails, GiveUp, ExecuteAborts, Live, Runs
  <2> QED
    BY <1>1, <2>1, MovedTo DEF Elsewhere
<1>8. CASE ModelMessage
  <2>1. Live
    BY <1>8 DEF ModelMessage, Live, Runs
  <2>2. Told(AssistantMessage(loop.turn), Goto("finish"))
    BY <1>2, <2>1, EventTypes DEF Told, AssistantMessage, IsFailure
  <2>3. Moved(Goto("finish")) /\ Moved(Caught)
    BY <1>1, <1>8, <2>1, MovedTo DEF ModelMessage
  <2> QED
    BY <1>8, <2>1, <2>2, <2>3, ElsewhereOr DEF ModelMessage
<1>9. CASE FinishStep
  <2> DEFINE s == [loop EXCEPT !.pc = "close", !.open = 0]
  <2>1. Live
    BY <1>9 DEF FinishStep, Live, Runs
  <2>2. Told(StepEnd(loop.turn, loop.step, "completed"), s)
    BY <1>2, <2>1, EventTypes DEF Told, StepEnd, IsFailure
  <2>3. Moved(s) /\ Moved(Caught)
    BY <1>1, <1>9, <2>1, MovedTo DEF FinishStep, Moved, Loops
  <2> HIDE DEF s
  <2>4. AppendOr(StepEnd(loop.turn, loop.step, "completed"), s, Caught)
    BY <1>9 DEF FinishStep, s
  <2> QED
    BY <2>1, <2>2, <2>3, <2>4, ElsewhereOr
<1>10. CASE FinishTurn
  <2>1. Live
    BY <1>10 DEF FinishTurn, Live, Runs
  <2>2. Told(TurnEnd(loop.turn, "completed"), Idle)
    BY <1>2, <2>1, EventTypes DEF Told, TurnEnd, IsFailure
  <2> QED
    BY <1>1, <1>10, <2>1, <2>2, MovedTo, ElsewhereOr DEF FinishTurn
<1>11. CASE ModelCalls
  <2>1. Live
    BY <1>11 DEF ModelCalls, Live, Runs
  <2>2. PICK batch \in Batches :
          LET calls == BatchCalls(batch)
          IN  AppendOr(ToolCalls(loop.turn, calls),
                [loop EXCEPT !.pc = "call",
                    !.pending = [k \in DOMAIN calls |-> [call |-> calls[k], started |-> FALSE]]],
                Caught)
    BY <1>11 DEF ModelCalls
  <2> DEFINE calls == BatchCalls(batch)
             pending == [k \in DOMAIN calls |-> [call |-> calls[k], started |-> FALSE]]
             s == [loop EXCEPT !.pc = "call", !.pending = pending]
  <2>3. calls \in Seq(Calls)
    BY <1>1, <1>2, <2>1, BatchType
  <2> HIDE DEF calls, pending
  <2>4. Told(ToolCalls(loop.turn, calls), s)
    BY <1>2, <2>1, <2>3, EventTypes DEF Told, ToolCalls, IsFailure
  <2>5. Moved(s) /\ Moved(Caught)
    BY <1>1, <1>11, <2>1, MovedTo DEF ModelCalls, Moved, Loops
  <2>6. AppendOr(ToolCalls(loop.turn, calls), s, Caught)
    BY <2>2 DEF calls, pending
  <2> HIDE DEF s
  <2> QED
    BY <2>1, <2>4, <2>5, <2>6, ElsewhereOr
<1>12. CASE ModelFails
  <2>1. Live
    BY <1>12 DEF ModelFails, Live, Runs
  <2>2. \/ /\ log' = Append(log, StepEnd(loop.turn, loop.step, "failed"))
           /\ loop' = [loop EXCEPT !.pc = "recover", !.open = 0]
        \/ log' = log /\ loop' = Caught
    BY <1>12 DEF ModelFails, AppendOr
  <2>3. CASE log' = log /\ loop' = Caught
    BY <1>1, <2>1, <2>3, MovedTo DEF Elsewhere
  <2>4. CASE loop' = [loop EXCEPT !.pc = "recover", !.open = 0]
    <3>1. OnTo("recover", loop.step)
      BY <1>1, <2>1, <2>4 DEF OnTo, Loops
    <3>2. loop' # Caught
      BY <1>1, <2>4 DEF Caught, Loops
    <3> QED
      BY <1>12, <2>2, <3>1, <3>2 DEF ModelFails, FailsOnce
  <2> QED
    BY <2>2, <2>3, <2>4
<1>13. CASE ModelAborts
  <2>1. Live /\ log' = log /\ loop' = [loop EXCEPT !.pc = "catch", !.cause = "aborted"]
    BY <1>13 DEF ModelAborts, Live, Runs
  <2>2. Moved(loop')
    BY <1>1, <1>13, <2>1 DEF ModelAborts, Moved, Loops
  <2> QED
    BY <2>1, <2>2 DEF Elsewhere
<1>14. CASE Retry
  <2>1. Live /\ log' = log /\ loop' = NextStep(loop) /\ At("recover")
    BY <1>14 DEF Retry, Live, Runs
  <2>2. CASE loop.step < MaxSteps
    <3>1. loop' = [loop EXCEPT !.pc = "prepare", !.step = @ + 1]
      BY <2>1, <2>2 DEF NextStep
    <3>2. OnTo("prepare", loop.step + 1)
      BY <1>1, <2>1, <3>1 DEF OnTo, Loops
    <3> QED
      BY <2>1, <3>2 DEF TriesAgain
  <2>3. CASE ~(loop.step < MaxSteps)
    <3>1. loop' = [loop EXCEPT !.pc = "catch", !.cause = Caught.cause]
      BY <2>1, <2>3 DEF NextStep
    <3>2. Moved(loop')
      BY <1>1, <2>1, <3>1 DEF Moved, Loops
    <3> QED
      BY <2>1, <3>2 DEF Elsewhere
  <2> QED
    BY <2>2, <2>3
<1>15. CASE EndStep
  <2>1. Live /\ At("call")
    BY <1>15 DEF EndStep, Live, Runs
  <2> DEFINE e == StepEnd(loop.turn, loop.step, "tool_calls")
             u == [loop EXCEPT !.open = 0]
  <2>2. AppendOr(e, NextStep(u), Caught)
    BY <1>15 DEF EndStep
  <2>3. u.pc = loop.pc /\ u.turn = loop.turn /\ u.step = loop.step /\ u.cause = loop.cause /\ u \in Loops
    BY <1>1 DEF Loops
  <2>4. Told(e, Caught) /\ \A s : Told(e, s)
    BY <1>2, <2>1, EventTypes DEF Told, StepEnd, IsFailure
  <2> HIDE DEF u, e
  <2>5. CASE loop.step < MaxSteps
    <3> DEFINE s == [u EXCEPT !.pc = "prepare", !.step = @ + 1]
    <3>1. NextStep(u) = s
      BY <2>5 DEF NextStep
    <3>2. s.pc = "prepare" /\ s.turn = loop.turn /\ s.step = loop.step + 1 /\ s.cause = loop.cause
      BY <2>3 DEF Loops
    <3> HIDE DEF s
    <3>3. (log' = Append(log, e) /\ loop' = s) \/ (log' = log /\ loop' = Caught)
      BY <2>2, <3>1 DEF AppendOr
    <3>4. CASE log' = log /\ loop' = Caught
      BY <1>1, <2>1, <3>4, MovedTo DEF Elsewhere
    <3>5. CASE log' = Append(log, e) /\ loop' = s
      BY <2>1, <3>2, <3>5 DEF OnTo, GoesOn, e
    <3> QED
      BY <3>3, <3>4, <3>5
  <2>6. CASE ~(loop.step < MaxSteps)
    <3> DEFINE s == [u EXCEPT !.pc = "catch", !.cause = Caught.cause]
    <3>1. NextStep(u) = s
      BY <2>6 DEF NextStep
    <3>2. Moved(s) /\ Moved(Caught)
      BY <1>1, <2>1, <2>3, MovedTo DEF Moved, Loops
    <3> HIDE DEF s
    <3> QED
      BY <2>1, <2>2, <2>4, <3>1, <3>2, ElsewhereOr
  <2> QED
    BY <2>5, <2>6
<1>16. CASE BeginCall
  <2>1. Live
    BY <1>16 DEF BeginCall, Live, Runs
  <2> DEFINE s == CASE Current.kind = "unknown" -> Started(Settle("error"))
                    [] Current.kind = "local" -> Started(Goto("effect"))
                    [] Current.kind = "guarded" -> Started(Goto("ask"))
  <2>2. Told(ToolCall(loop.turn, Current), s)
    <3> HIDE DEF s
    <3> QED
      BY <1>2, <1>3, <1>16, <2>1, EventTypes DEF BeginCall, Told, ToolCall, IsFailure
  <2>3. Moved(s)
    <3>1. Current.kind \in {"unknown", "local", "guarded"}
      BY <1>3, <1>16 DEF BeginCall, Calls
    <3>2. s = Started(Settle("error")) \/ s = Started(Goto("effect")) \/ s = Started(Goto("ask"))
      BY <3>1
    <3> HIDE DEF s
    <3>3. /\ loop.pc = "call" /\ s.turn = loop.turn /\ s.step = loop.step /\ s.cause = loop.cause
          /\ s.pc \in {"settle", "effect", "ask"}
      BY <1>1, <1>16, <3>2 DEF BeginCall, Started, Settle, Goto, Loops
    <3> QED
      BY <3>3 DEF Moved
  <2>4. AppendOr(ToolCall(loop.turn, Current), s, Caught)
    BY <1>16 DEF BeginCall
  <2> HIDE DEF s
  <2> QED
    BY <1>1, <2>1, <2>2, <2>3, <2>4, MovedTo, ElsewhereOr
<1>17. CASE Ask
  <2>1. Live /\ loop.pc \in Executing /\ loop.pc = "ask"
    BY <1>17 DEF Ask, Live, Runs, Executing
  <2>2. Told(ApprovalAsked(loop.turn, Current), Goto("approve"))
    BY <1>2, <1>3, <1>4, <2>1, EventTypes DEF Told, ApprovalAsked, IsFailure
  <2>3. Moved(Goto("approve")) /\ Moved(Settle("error"))
    BY <1>1, <2>1, MovedTo
  <2> QED
    BY <1>17, <2>1, <2>2, <2>3, ElsewhereOr DEF Ask
<1>18. CASE Decide
  <2>1. Live /\ loop.pc \in Executing /\ loop.pc = "approve"
    BY <1>18 DEF Decide, Live, Runs, Executing
  <2>2. PICK o \in {"allowed-once", "rejected"} :
          AppendOr(ApprovalDecided(loop.turn, Current, o),
                   IF o = "allowed-once" THEN Goto("sandbox") ELSE Settle("error"), Settle("error"))
    BY <1>18 DEF Decide
  <2> DEFINE s == IF o = "allowed-once" THEN Goto("sandbox") ELSE Settle("error")
  <2>3. Moved(s) /\ Moved(Settle("error"))
    BY <1>1, <2>1, MovedTo
  <2> HIDE DEF s
  <2>4. Told(ApprovalDecided(loop.turn, Current, o), s)
    BY <1>2, <1>3, <1>4, <2>1, EventTypes DEF Told, ApprovalDecided, IsFailure
  <2>5. AppendOr(ApprovalDecided(loop.turn, Current, o), s, Settle("error"))
    BY <2>2 DEF s
  <2> QED
    BY <2>1, <2>3, <2>4, <2>5, ElsewhereOr
<1>19. CASE Prepare
  <2>1. Live /\ loop.pc \in Executing /\ loop.pc = "sandbox"
    BY <1>19 DEF Prepare, Live, Runs, Executing
  <2>2. Told(SandboxPrepared(loop.turn, Current), Goto("effect"))
    BY <1>2, <1>3, <1>4, <2>1, EventTypes DEF Told, SandboxPrepared, IsFailure
  <2>3. Moved(Goto("effect")) /\ Moved(Settle("error"))
    BY <1>1, <2>1, MovedTo
  <2> QED
    BY <1>19, <2>1, <2>2, <2>3, ElsewhereOr DEF Prepare
<1>20. CASE PrepareRefused \/ EffectReturns
  <2>1. Live /\ loop.pc \in Executing /\ log' = log /\ \E r : loop' = Settle(r)
    BY <1>20 DEF PrepareRefused, EffectReturns, Live, Runs, Executing
  <2> QED
    BY <1>1, <2>1, MovedTo DEF Elsewhere
<1>21. CASE EndCall
  <2>1. Live /\ loop.pc \in Executing /\ loop.pc = "settle"
    BY <1>21 DEF EndCall, Live, Runs, Executing
  <2> DEFINE s == [loop EXCEPT !.pc = "call", !.pending = Tail(@)]
  <2>2. loop.result \in {"ok", "error"}
    BY <1>1, <2>1 DEF Good, LoopOk
  <2>3. Told(ToolResult(loop.turn, Current, loop.result), s)
    BY <1>2, <1>3, <1>4, <2>1, <2>2, EventTypes DEF Told, ToolResult, IsFailure
  <2>4. Moved(s) /\ Moved(Caught)
    BY <1>1, <2>1, MovedTo DEF Moved, Loops
  <2>5. AppendOr(ToolResult(loop.turn, Current, loop.result), s, Caught)
    BY <1>21 DEF EndCall
  <2> HIDE DEF s
  <2> QED
    BY <2>1, <2>3, <2>4, <2>5, ElsewhereOr
<1>22. CASE CatchResult
  <2>1. Live /\ loop.pc = "catch" /\ loop.pending # << >>
    BY <1>22 DEF CatchResult, Live, Runs
  <2> DEFINE s == [loop EXCEPT !.pending = Tail(@)]
             o == CaughtResult(Head(loop.pending))
  <2>2. o \in {"cancelled-before-start", "cancelled-outcome-unknown",
                "failed-before-start", "failed-outcome-unknown"}
    BY DEF CaughtResult
  <2> HIDE DEF o
  <2>3. Told(ToolResult(loop.turn, Current, o), s)
    BY <1>2, <1>3, <2>1, <2>2, EventTypes DEF Told, ToolResult, IsFailure
  <2>4. Moved(s) /\ Moved(Idle)
    BY <1>1, <2>1, MovedTo DEF Moved, Loops
  <2>5. AppendOr(ToolResult(loop.turn, Current, o), s, Idle)
    BY <1>22 DEF CatchResult, o
  <2> HIDE DEF s
  <2> QED
    BY <2>1, <2>3, <2>4, <2>5, ElsewhereOr
<1>23. CASE CatchStep
  <2>1. Live /\ loop.pc = "catch" /\ loop.open = loop.step
    BY <1>4, <1>23 DEF CatchStep, Live, Runs
  <2>2. loop.cause \in {"aborted", "failed"}
    BY <1>1, <2>1 DEF Good, CancelOk, Loops
  <2> DEFINE s == [loop EXCEPT !.open = 0]
             e == StepEnd(loop.turn, loop.open, loop.cause)
  <2>3. e \in Events
    BY <1>2, <2>1, <2>2, EventTypes
  <2>4. s.pc = "catch"
    BY <1>1, <2>1 DEF Loops
  <2>5. Told(e, s)
    BY <2>1, <2>3, <2>4 DEF Told, StepEnd
  <2>6. Moved(s) /\ Moved(Idle)
    BY <1>1, <2>1, MovedTo DEF Moved, Loops
  <2>7. AppendOr(e, s, Idle)
    BY <1>23 DEF CatchStep
  <2> HIDE DEF s, e
  <2> QED
    BY <2>1, <2>5, <2>6, <2>7, ElsewhereOr
<1>24. CASE CatchError
  <2>1. Live /\ loop.pc = "catch"
    BY <1>24 DEF CatchError, Live, Runs
  <2>2. Told(TurnError(loop.turn), Goto("end"))
    BY <1>2, <2>1, EventTypes DEF Told, TurnError, IsFailure
  <2> QED
    BY <1>1, <1>24, <2>1, <2>2, MovedTo, ElsewhereOr DEF CatchError
<1>25. CASE CatchEnd
  <2>1. Live /\ loop.cause \in {"aborted", "failed"}
    BY <1>1, <1>25 DEF CatchEnd, Live, Runs, Good, CancelOk
  <2>2. Told(TurnEnd(loop.turn, loop.cause), Idle)
    BY <1>2, <2>1, EventTypes DEF Told, TurnEnd, IsFailure
  <2> QED
    BY <1>1, <1>25, <2>1, <2>2, MovedTo, ElsewhereOr DEF CatchEnd
<1> QED
  BY <1>5, <1>6, <1>7, <1>8, <1>9, <1>10, <1>11, <1>12, <1>13, <1>14, <1>15, <1>16, <1>17,
     <1>18, <1>19, <1>20, <1>21, <1>22, <1>23, <1>24, <1>25 DEF LoopStep
-------------------------------------------------------------------------------
(* The invariant holds at first.                                           *)
LEMMA InitUpkeep ==
  ASSUME HInit
  PROVE  UpkeepInv
<1>1. /\ Init /\ log \in InitialLogs /\ command = 0 /\ compaction = NoCompaction /\ policy = NoPolicy
      /\ loop = Idle
  BY DEF HInit, Init
<1>2. TypeInv /\ LoopInv /\ CancelInv /\ Surface(log).ok /\ TailScan(log).turn = 0
  BY <1>1, InitBase DEF BaseInv
<1>3. UpkeepType
  <2>1. << >> \in Seq(Numbers)
    OBVIOUS
  <2>2. compaction \in Compactions
    BY <1>1, <2>1 DEF NoCompaction, Compactions
  <2> QED
    BY <1>1, <2>2 DEF NoPolicy, Policies, UpkeepType
<1>4. Sound(log)
  <2>1. Numbered(log)
    BY <1>1, LogAssumption DEF Numbered, Turned
  <2>2. ClosedOnce(log) /\ InOrder(log) /\ Retained(log) /\ Progressed(log)
    BY <1>1, HistoryAssumption
  <2>3. Reopens(log)
    BY <1>2 DEF Reopens
  <2> QED
    BY <1>2, <2>1, <2>2, <2>3 DEF Sound
<1>5. ~Live /\ loop.pc = "idle" /\ loop.cause = "none"
  BY <1>1 DEF Live, Runs, Idle
<1>6. LiveInv /\ StepsInv
  BY <1>5 DEF LiveInv, StepsInv
<1>7. CompactionInv /\ PolicyInv
  BY <1>1 DEF CompactionInv, PolicyInv, NoCompaction, NoPolicy
<1> QED
  BY <1>2, <1>3, <1>4, <1>6, <1>7 DEF UpkeepInv

(* What an event leaves of what was said of a sound log.                   *)
LEMMA LogAppend ==
  ASSUME NEW l \in Seq(Events), NEW e \in Events, Sound(l), Suits(l, e)
  PROVE  LET k == Append(l, e)
         IN  /\ k \in Seq(Events) /\ Sound(k)
             /\ Turned(l) \in Nat
             /\ Turned(k) = IF e.type = "turn/start" THEN Turned(l) + 1 ELSE Turned(l)
             /\ \A t : IsClosed(k, t) <=> IsClosed(l, t) \/ (e.type = "turn/end" /\ e.turn = t)
             /\ Surface(l).summaries \subseteq Surface(k).summaries
             /\ e.type # "compaction/summary" =>
                  \A s \in Seq(Numbers) : \A b : Selects(Surface(l), s, b) /\ Behind(l, s) =>
                     Selects(Surface(k), s, b) /\ Behind(k, s)
<1> DEFINE k == Append(l, e)
<1>1. k \in Seq(Events) /\ Sound(k)
  BY SoundAppend
<1>2. /\ Turned(l) \in Nat
      /\ Turned(k) = IF e.type = "turn/start" THEN Turned(l) + 1 ELSE Turned(l)
  BY NumberedAppend DEF Sound, Suits
<1>3. \A t : IsClosed(k, t) <=> IsClosed(l, t) \/ (e.type = "turn/end" /\ e.turn = t)
  BY ClosedAppend
<1>4. /\ Surface(l).summaries \subseteq Surface(k).summaries
      /\ e.type # "compaction/summary" =>
           \A s \in Seq(Numbers) : \A b : Selects(Surface(l), s, b) => Selects(Surface(k), s, b)
  BY SelectsAppend
<1>5. \A s : Behind(l, s) => Behind(k, s)
  BY BehindAppend DEF Suits
<1> HIDE DEF k
<1>6. e.type # "compaction/summary" =>
        \A s \in Seq(Numbers) : \A b : Selects(Surface(l), s, b) /\ Behind(l, s) =>
           Selects(Surface(k), s, b) /\ Behind(k, s)
  BY <1>4, <1>5
<1> QED
  BY <1>1, <1>2, <1>3, <1>4, <1>6 DEF k

(* The events of maintenance leave the steps of every turn as they were.   *)
LEMMA Maintained ==
  ASSUME NEW l \in Seq(Events), NEW e \in Events, IsMaintenance(e)
  PROVE  LET k == Append(l, e)
         IN  /\ \A t : Cardinality(RetriedSteps(k, t)) = Cardinality(RetriedSteps(l, t))
             /\ \A t, s : Failed(k, t, s) <=> Failed(l, t, s)
             /\ \A t, s : Shrunk(l, t, s) => Shrunk(k, t, s)
             /\ \A t, s : Failed(l, t, s) /\ e.type = "compaction/summary" => Shrunk(k, t, s)
             /\ \A i \in DOMAIN k : (i \in DOMAIN l /\ k[i] = l[i]) \/ k[i].type # "step/end"
<1> DEFINE k == Append(l, e)
<1>1. /\ Len(l) \in Nat /\ DOMAIN l = 1 .. Len(l) /\ DOMAIN k = 1 .. Len(l) + 1
      /\ \A i \in 1 .. Len(l) : k[i] = l[i]
      /\ k[Len(l) + 1] = e
  BY AppendIs
<1>2. e.type \notin {"step/start", "step/end"}
  BY DEF IsMaintenance
<1>3. \A t : Cardinality(RetriedSteps(k, t)) = Cardinality(RetriedSteps(l, t))
  <2> TAKE t
  <2>1. /\ RetriedSteps(k, t) = RetriedSteps(l, t)
    BY <1>2, RetriedAppend
  <2> QED
    BY <2>1
<1>4. \A t, s : e # StepEnd(t, s, "failed")
  BY <1>2 DEF StepEnd
<1>5. /\ \A t, s : Failed(k, t, s) <=> Failed(l, t, s)
      /\ \A t, s : Shrunk(l, t, s) => Shrunk(k, t, s)
      /\ \A t, s : Failed(l, t, s) /\ e.type = "compaction/summary" => Shrunk(k, t, s)
  BY <1>4, FailedAppend
<1> HIDE DEF k
<1>6. \A i \in DOMAIN k : (i \in DOMAIN l /\ k[i] = l[i]) \/ k[i].type # "step/end"
  BY <1>1, <1>2
<1> QED
  BY <1>3, <1>5, <1>6 DEF k
-------------------------------------------------------------------------------
(* Steps of others: the loop stays where it is, whoever appends.           *)
Stays ==
  /\ Good(loop') /\ storage' \in Storages /\ running' \in BOOLEAN /\ effects' \in SUBSET Effects
  /\ loop'.pc = loop.pc /\ loop'.turn = loop.turn /\ loop'.step = loop.step
  /\ loop'.cause = loop.cause
Aside(e) ==
  log' = log \/ (IsMaintenance(e) /\ Suits(log, e) /\ log' = Append(log, e))

(* The base is kept.                                                       *)
LEMMA AsideKeeps ==
  ASSUME UpkeepInv, Stays, NEW e \in Events, Aside(e)
  PROVE  /\ TypeInv' /\ LoopInv' /\ CancelInv' /\ Sound(log') /\ LiveInv'
         /\ Surface(log).summaries \subseteq Surface(log').summaries
<1>1. log \in Seq(Events) /\ Sound(log) /\ LiveInv
  BY DEF UpkeepInv, TypeInv
<1>2. /\ log' \in Seq(Events) /\ Sound(log') /\ Turned(log') = Turned(log)
      /\ \A t : IsClosed(log', t) <=> IsClosed(log, t)
      /\ Surface(log).summaries \subseteq Surface(log').summaries
  <2>1. CASE log' = log
    BY <1>1, <2>1
  <2>2. CASE log' = Append(log, e) /\ IsMaintenance(e) /\ Suits(log, e)
    <3>1. e.type \notin {"turn/start", "turn/end"}
      BY <2>2 DEF IsMaintenance
    <3> QED
      BY <1>1, <2>2, <3>1, LogAppend
  <2> QED
    BY <2>1, <2>2 DEF Aside
<1>3. LiveInv'
  BY <1>1, <1>2 DEF LiveInv, Live, Runs, Stays
<1>4. TypeInv' /\ LoopInv' /\ CancelInv'
  BY <1>2 DEF Stays, Good, TypeInv, LoopInv, CancelInv
<1> QED
  BY <1>2, <1>3, <1>4

(* So is the selection of a compaction in progress.                        *)
LEMMA AsideCompaction ==
  ASSUME UpkeepInv, Stays, NEW e \in Events, Aside(e), e.type # "compaction/summary",
         compaction' = compaction
  PROVE  CompactionInv'
<1>1. log \in Seq(Events) /\ Sound(log) /\ CompactionInv /\ compaction.source \in Seq(Numbers)
  BY DEF UpkeepInv, TypeInv, UpkeepType, Compactions
<1>2. ASSUME compaction.by # "none"
      PROVE  /\ Selects(Surface(log'), compaction.source, compaction.boundary)
             /\ Behind(log', compaction.source)
  <2>1. /\ Selects(Surface(log), compaction.source, compaction.boundary)
        /\ Behind(log, compaction.source)
    BY <1>1, <1>2 DEF CompactionInv
  <2>2. CASE log' = log
    BY <2>1, <2>2
  <2>3. CASE log' = Append(log, e) /\ IsMaintenance(e) /\ Suits(log, e)
    <3>1. \A s \in Seq(Numbers) : \A b : Selects(Surface(log), s, b) /\ Behind(log, s) =>
             Selects(Surface(log'), s, b) /\ Behind(log', s)
      BY <1>1, <2>3, LogAppend
    <3> QED
      BY <1>1, <2>1, <3>1
  <2> QED
    BY <2>2, <2>3 DEF Aside
<1> QED
  BY <1>1, <1>2 DEF CompactionInv, Stays, At

(* So is what the steps of the turn have cost.                             *)
LEMMA AsideSteps ==
  ASSUME UpkeepInv, Stays, NEW e \in Events, Aside(e),
         policy'.attempts = policy.attempts, policy'.asked = policy.asked,
         policy'.outcome = "compacted" /\ At("recover") =>
           \/ policy.outcome = "compacted"
           \/ policy.asked /\ log' = Append(log, e) /\ e.type = "compaction/summary"
  PROVE  StepsInv'
<1> SUFFICES ASSUME Live' PROVE
      /\ \A i \in DOMAIN log' : IsFailure(log[i])' =>
           \/ log'[i].step < loop'.step /\ ~At("user")'
           \/ log'[i].step = loop'.step /\ loop'.pc \in {"recover", "catch", "end"}
      /\ Tried' <= policy'.attempts /\ policy'.attempts <= MaxOverflowRetries
      /\ At("prepare")' /\ Failed(log', loop'.turn, loop'.step - 1) =>
           Tried' + 1 <= policy'.attempts /\ Shrunk(log', loop'.turn, loop'.step - 1)
      /\ At("recover")' =>
           /\ Failed(log', loop'.turn, loop'.step)
           /\ policy'.asked => Tried' + 1 <= policy'.attempts
           /\ policy'.outcome = "compacted" =>
                policy'.asked /\ Shrunk(log', loop'.turn, loop'.step)
  BY DEF StepsInv, IsFailure, Tried, At
<1>1. log \in Seq(Events) /\ StepsInv /\ Live
  BY DEF UpkeepInv, TypeInv, Stays, Live, Runs
<1>2. /\ \A t : Cardinality(RetriedSteps(log', t)) = Cardinality(RetriedSteps(log, t))
      /\ \A t, s : Failed(log', t, s) <=> Failed(log, t, s)
      /\ \A t, s : Shrunk(log, t, s) => Shrunk(log', t, s)
      /\ \A t, s : Failed(log, t, s) /\ log' = Append(log, e) /\ e.type = "compaction/summary"
                  => Shrunk(log', t, s)
      /\ \A i \in DOMAIN log' : (i \in DOMAIN log /\ log'[i] = log[i]) \/ log'[i].type # "step/end"
  <2>1. CASE log' = Append(log, e) /\ IsMaintenance(e)
    BY <1>1, <2>1, Maintained
  <2>2. CASE log' = log
    <3>1. e.type = "compaction/summary" => log' # Append(log, e)
      <4>1. Len(Append(log, e)) = Len(log) + 1 /\ Len(log) \in Nat
        BY <1>1
      <4> QED
        BY <2>2, <4>1
    <3> QED
      BY <2>2, <3>1
  <2> QED
    BY <2>1, <2>2 DEF Aside
<1>3. Tried' = Tried
  BY <1>2 DEF Tried, Stays
<1>4. \A i \in DOMAIN log' : IsFailure(log[i])' => i \in DOMAIN log /\ log'[i] = log[i] /\ IsFailure(log[i])
  BY <1>2 DEF IsFailure, Stays
<1> QED
  BY <1>1, <1>2, <1>3, <1>4 DEF StepsInv, Stays, At
-------------------------------------------------------------------------------
(* The steps of others, one by one: what the base is made of.              *)
LEMMA OthersStay ==
  ASSUME UpkeepInv, UNCHANGED <<loop, running, effects>>, storage' \in Storages
  PROVE  Stays
<1>1. Good(loop) /\ running \in BOOLEAN /\ effects \in SUBSET Effects
  BY DEF UpkeepInv, TypeInv, LoopInv, CancelInv, Good
<1> QED
  BY <1>1 DEF Stays

(* An append outside the loop happens, or leaves the log alone.            *)
LEMMA ElseIs ==
  ASSUME UpkeepInv, NEW e \in Events, AppendElse(e)
  PROVE  storage' \in Storages /\ (log' = log \/ log' = Append(log, e))
<1>1. storage \in Storages
  BY DEF UpkeepInv, TypeInv
<1>2. [storage EXCEPT !.broken = TRUE] \in Storages
  BY <1>1 DEF Storages
<1>3. storage.transient < MaxTransient => [storage EXCEPT !.transient = @ + 1] \in Storages
  BY <1>1, BoundAssumption DEF Storages
<1> QED
  BY <1>1, <1>2, <1>3 DEF AppendElse

(* A policy that is left alone.                                            *)
LEMMA PolicyStays ==
  ASSUME UpkeepInv, Stays, policy' = policy, (compaction'.by = "policy") <=> (compaction.by = "policy"),
         Surface(log).summaries \subseteq Surface(log').summaries
  PROVE  PolicyInv'
BY DEF UpkeepInv, PolicyInv, Stays

(* CommandRegistry: the events around a handler are maintenance.           *)
LEMMA RegistryKeeps ==
  ASSUME UpkeepInv, RunCommand \/ EndCommand
  PROVE  UpkeepInv'
<1>1. command \in Nat /\ log \in Seq(Events) /\ Turned(log) \in Nat
  BY CountType DEF UpkeepInv, UpkeepType, TypeInv, Turned
<1>2. PICK e \in Events : e.type \in {"command/run", "command/done"} /\ e.turn = 0 /\ AppendElse(e)
  <2>1. CASE RunCommand
    <3> DEFINE k == Count(log, "command/run") + 1
    <3>1. k \in Numbers
      BY <1>1, CountType DEF Numbers
    <3> HIDE DEF k
    <3>2. CommandRun(k) \in Events /\ CommandRun(k).type = "command/run" /\ CommandRun(k).turn = 0
      BY <3>1 DEF CommandRun, Events
    <3>3. AppendElse(CommandRun(k))
      BY <2>1 DEF RunCommand, k
    <3> QED
      BY <3>2, <3>3
  <2>2. CASE EndCommand
    <3>1. command \in Numbers
      BY <1>1, <2>2 DEF EndCommand, Numbers
    <3>2. /\ CommandDone(command) \in Events /\ CommandDone(command).type = "command/done"
          /\ CommandDone(command).turn = 0
      BY <3>1 DEF CommandDone, Events
    <3> QED
      BY <2>2, <3>2 DEF EndCommand
  <2> QED
    BY <2>1, <2>2
<1>3. UNCHANGED <<loop, running, effects, compaction, policy>>
  BY DEF RunCommand, EndCommand
<1>4. storage' \in Storages /\ (log' = log \/ log' = Append(log, e))
  BY <1>2, ElseIs
<1>5. Aside(e)
  BY <1>1, <1>2, <1>4 DEF Aside, IsMaintenance, Suits, IsMessage
<1>6. Stays
  BY <1>3, <1>4, OthersStay
<1>7. /\ TypeInv' /\ LoopInv' /\ CancelInv' /\ Sound(log') /\ LiveInv'
      /\ Surface(log).summaries \subseteq Surface(log').summaries
  BY <1>5, <1>6, AsideKeeps
<1>8. command' \in Nat
  <2>1. Count(log, "command/run") + 1 \in Nat
    BY <1>1, CountType
  <2> QED
    BY <2>1 DEF RunCommand, EndCommand
<1>9. UpkeepType'
  BY <1>3, <1>8 DEF UpkeepInv, UpkeepType
<1>10. CompactionInv' /\ StepsInv'
  BY <1>2, <1>3, <1>5, <1>6, AsideCompaction, AsideSteps
<1>11. PolicyInv'
  BY <1>3, <1>6, <1>7, PolicyStays
<1>12. Sound(log)'
  BY <1>7
<1> QED
  BY <1>7, <1>9, <1>10, <1>11, <1>12 DEF UpkeepInv

(* The signal, a running tool, and nothing at all change no log.           *)
LEMMA SignalKeeps ==
  ASSUME UpkeepInv, HCancel \/ HEffect \/ UNCHANGED hvars
  PROVE  UpkeepInv'
<1>1. /\ Good(loop) /\ running \in BOOLEAN /\ effects \in SUBSET Effects /\ storage \in Storages
      /\ log \in Seq(Events) /\ loop \in Loops
  BY DEF UpkeepInv, TypeInv, LoopInv, CancelInv, Good
<1>2. UNCHANGED <<log, storage, command, compaction, policy>>
  BY DEF HCancel, HEffect, Cancel, Effect, hvars
<1>3. Stays
  <2>1. CASE HCancel
    <3>1. loop' = [loop EXCEPT !.cancelled = TRUE] /\ loop.pc \in Awaiting \ {"idle", "down"}
      BY <2>1 DEF HCancel, Cancel
    <3>2. Good(loop')
      BY <1>1, <2>1, OtherGood DEF HCancel, Cancel
    <3>3. UNCHANGED <<running, effects>>
      BY <2>1 DEF HCancel, Cancel
    <3>4. loop'.pc = loop.pc /\ loop'.turn = loop.turn /\ loop'.step = loop.step /\ loop'.cause = loop.cause
      BY <1>1, <3>1 DEF Loops
    <3> QED
      BY <1>1, <1>2, <3>2, <3>3, <3>4 DEF Stays
  <2>2. CASE HEffect
    <3>1. loop.turn \in Numbers /\ Current \in Calls
      BY <1>1, <2>2, CurrentType DEF HEffect, Effect, At, Good, LoopOk, Runs, Executing
    <3>2. [turn |-> loop.turn, call |-> Current] \in Effects
      BY <3>1 DEF Effects
    <3> QED
      BY <1>1, <1>2, <2>2, <3>2 DEF HEffect, Effect, Stays
  <2>3. CASE UNCHANGED hvars
    BY <1>1, <2>3 DEF hvars, Stays
  <2> QED
    BY <2>1, <2>2, <2>3
<1>4. PICK e \in Events : e.type # "compaction/summary"
  <2>1. TurnStart(1) \in Events
    BY EventTypes DEF Numbers
  <2> QED
    BY <2>1 DEF TurnStart
<1>5. Aside(e)
  BY <1>2 DEF Aside
<1>6. /\ TypeInv' /\ LoopInv' /\ CancelInv' /\ Sound(log') /\ LiveInv'
      /\ Surface(log).summaries \subseteq Surface(log').summaries
  BY <1>3, <1>5, AsideKeeps
<1>7. UpkeepType'
  BY <1>2 DEF UpkeepInv, UpkeepType
<1>8. CompactionInv' /\ StepsInv'
  BY <1>2, <1>3, <1>4, <1>5, AsideCompaction, AsideSteps
<1>9. PolicyInv'
  BY <1>2, <1>3, <1>6, PolicyStays
<1>10. Sound(log)'
  BY <1>6
<1> QED
  BY <1>6, <1>7, <1>8, <1>9, <1>10 DEF UpkeepInv

(* What a compaction selects.                                              *)
LEMMA SummarizeIs ==
  ASSUME UpkeepInv, ~NothingToCompact, NEW owner \in {"host", "policy"}, Summarize(owner), ~At("down")
  PROVE  /\ compaction' \in Compactions /\ compaction'.by = owner /\ ~compaction'.refused
         /\ Selects(Surface(log), compaction'.source, compaction'.boundary)
         /\ Behind(log, compaction'.source)
<1>1. /\ log \in Seq(Events) /\ Sound(log) /\ compaction \in Compactions /\ ~compaction.refused
      /\ ClosedOnce(log)
  BY DEF UpkeepInv, TypeInv, UpkeepType, CompactionInv, Sound
<1> DEFINE nodes == Surface(log).nodes
           now == Surface(log)
<1>2. /\ Selected \in Seq(Nodes) /\ Len(Selected) \in 0 .. Len(nodes)
      /\ \A k \in 1 .. Len(Selected) : Selected[k] = nodes[k] /\ Selected[k].turn \in Compactable
  BY <1>1, SelectedIs
<1>3. Mirrors(now, log, Len(log))
  BY <1>1, SurfaceMirrors DEF Sound
<1>4. now \in Surfaces /\ nodes \in Seq(Nodes) /\ Len(log) \in Nat
  BY <1>1, <1>3 DEF Mirrors, Surfaces
<1> DEFINE chosen == Selected
           n == Len(chosen)
           source == Sequences(chosen)
           boundary == chosen[n].turn
<1>5. n \in Nat /\ n >= 2 /\ n \in 1 .. n
  BY <1>2 DEF NothingToCompact
<1>6. /\ compaction' = [compaction EXCEPT !.by = owner, !.source = source, !.boundary = boundary,
                          !.openTurn = now.openTurn]
  BY DEF Summarize
<1> HIDE DEF chosen
<1>7. chosen \in Seq(Nodes) /\ n \in 0 .. Len(nodes)
      /\ \A k \in 1 .. n : chosen[k] = nodes[k] /\ chosen[k].turn \in Compactable
  BY <1>2 DEF chosen
<1>8. \A k \in 1 .. n : /\ nodes[k].sequence \in 1 .. Len(log) /\ nodes[k].event = log[nodes[k].sequence]
                        /\ nodes[k].turn = nodes[k].event.turn
  BY <1>3, <1>4, <1>7 DEF Mirrors, Shows
<1>9. /\ Len(source) = n /\ DOMAIN source = 1 .. n /\ source \in Seq(Numbers)
      /\ \A k \in 1 .. n : source[k] = nodes[k].sequence
  <2>1. DOMAIN chosen = 1 .. n
    BY <1>7
  <2>2. source = [k \in 1 .. n |-> chosen[k].sequence]
    BY <2>1 DEF Sequences
  <2>3. \A k \in 1 .. n : chosen[k].sequence \in Numbers /\ chosen[k].sequence = nodes[k].sequence
    BY <1>4, <1>7, <1>8 DEF Numbers
  <2> HIDE DEF source
  <2> QED
    BY <1>5, <2>2, <2>3
<1>10. boundary = nodes[n].turn /\ boundary \in Nat /\ boundary \in Compactable
  <2>1. chosen[n] \in Nodes /\ chosen[n] = nodes[n] /\ chosen[n].turn \in Compactable
    BY <1>5, <1>7
  <2> QED
    BY <2>1 DEF Nodes
<1>11. boundary \in now.closed
  <2>1. PICK i \in ClosedTurns(log) : log[i].turn = boundary
    BY <1>10 DEF Compactable
  <2>2. i \in 1 .. Len(log) /\ log[i].type = "turn/end"
    BY <1>1, <2>1 DEF ClosedTurns
  <2> QED
    BY <1>3, <2>1, <2>2 DEF Mirrors
<1>12. \A k \in DOMAIN source : source[k] \in DOMAIN log /\ log[source[k]].turn \in Compactable
  BY <1>1, <1>7, <1>8, <1>9
<1>13. Behind(log, source)
  BY <1>1, <1>12, CompactableBehind
<1>14. now.openTurn \in Nat
  BY <1>4 DEF Surfaces
<1> HIDE DEF source, boundary, now, n
<1>15. /\ compaction' \in Compactions /\ compaction'.by = owner /\ ~compaction'.refused
       /\ compaction'.source = source /\ compaction'.boundary = boundary
  BY <1>1, <1>6, <1>9, <1>10, <1>14 DEF Compactions
<1>16. Selects(now, source, boundary)
  <2>1. Len(source) \in 1 .. Len(now.nodes)
    BY <1>4, <1>5, <1>7, <1>9 DEF now
  <2> QED
    BY <1>9, <1>10, <1>11, <2>1 DEF Selects, now
<1> QED
  BY <1>13, <1>15, <1>16 DEF now

(* A compaction of the host starts.                                        *)
LEMMA CompactKeeps ==
  ASSUME UpkeepInv, Compact
  PROVE  UpkeepInv'
<1>1. /\ UNCHANGED <<log, loop, running, effects, storage, command, policy>>
      /\ Summarize("host") /\ ~NothingToCompact /\ ~At("down") /\ compaction.by = "none"
  BY DEF Compact, Free, Awaiting, At, Busy
<1>2. /\ compaction' \in Compactions /\ compaction'.by = "host" /\ ~compaction'.refused
      /\ Selects(Surface(log), compaction'.source, compaction'.boundary)
      /\ Behind(log, compaction'.source)
  BY <1>1, SummarizeIs
<1>3. UpkeepType' /\ CompactionInv'
  BY <1>1, <1>2 DEF UpkeepInv, UpkeepType, CompactionInv, At
<1>4. /\ TypeInv' /\ LoopInv' /\ CancelInv' /\ Sound(log)' /\ LiveInv' /\ StepsInv'
  BY <1>1 DEF UpkeepInv, TypeInv, LoopInv, CancelInv, LiveInv, Live, Runs, StepsInv, Tried, IsFailure, At
<1>5. PolicyInv'
  BY <1>1, <1>2 DEF UpkeepInv, PolicyInv
<1> QED
  BY <1>3, <1>4, <1>5 DEF UpkeepInv
-------------------------------------------------------------------------------
(* A move that leaves the step where it is, or ends the turn.              *)
LEMMA ElsewhereKeeps ==
  ASSUME UpkeepInv, Elsewhere, Good(loop'), Live' => policy'.attempts = policy.attempts
  PROVE  /\ log' \in Seq(Events) /\ Sound(log') /\ LiveInv' /\ StepsInv'
         /\ compaction' = compaction => CompactionInv'
<1>1. /\ log \in Seq(Events) /\ Sound(log) /\ LiveInv /\ Live /\ CompactionInv /\ StepsInv
      /\ compaction.source \in Seq(Numbers) /\ loop.turn = Turned(log) /\ ~IsClosed(log, loop.turn)
      /\ Turned(log) \in Nat
  BY CountType DEF UpkeepInv, TypeInv, Elsewhere, UpkeepType, Compactions, LiveInv, Turned
<1>2. PICK e \in Events : \/ log' = log
                          \/ log' = Append(log, e) /\ Told(e, loop')
  <2>1. CASE log' = log
    <3>1. TurnStart(1) \in Events
      BY EventTypes DEF Numbers
    <3> QED
      BY <2>1, <3>1
  <2>2. CASE log' # log
    BY <2>2 DEF Elsewhere, Told
  <2> QED
    BY <2>1, <2>2
<1>3. ASSUME Told(e, loop')
      PROVE  /\ Suits(log, e) /\ e.turn = loop.turn
             /\ e.type \notin {"turn/start", "step/start", "compaction/summary"}
  BY <1>1, <1>3 DEF Told, Suits
<1>4. /\ log' \in Seq(Events) /\ Sound(log') /\ Turned(log') = Turned(log)
      /\ loop' # Idle => ~IsClosed(log', loop.turn)
      /\ \A s \in Seq(Numbers) : \A b : Selects(Surface(log), s, b) /\ Behind(log, s) =>
            Selects(Surface(log'), s, b) /\ Behind(log', s)
  <2>1. CASE log' = log
    BY <1>1, <2>1
  <2>2. CASE log' = Append(log, e) /\ Told(e, loop')
    <3>1. /\ log' \in Seq(Events) /\ Sound(log') /\ Turned(log') = Turned(log)
          /\ \A t : IsClosed(log', t) <=> IsClosed(log, t) \/ (e.type = "turn/end" /\ e.turn = t)
          /\ \A s \in Seq(Numbers) : \A b : Selects(Surface(log), s, b) /\ Behind(log, s) =>
                Selects(Surface(log'), s, b) /\ Behind(log', s)
      BY <1>1, <1>3, <2>2, LogAppend
    <3> QED
      BY <1>1, <2>2, <3>1 DEF Told
  <2> QED
    BY <1>2, <2>1, <2>2
<1>5. Moved(loop')
  BY DEF Elsewhere
<1>6. Idle.pc = "idle" /\ Idle.cause = "none"
  BY DEF Idle
<1>7. LiveInv'
  BY <1>1, <1>4, <1>5, <1>6 DEF LiveInv, Live, Runs, Moved
<1>8. compaction' = compaction => CompactionInv'
  BY <1>1, <1>4, <1>5, <1>6 DEF CompactionInv, At, Moved
<1>9. ASSUME Live'
      PROVE  /\ loop'.turn = loop.turn /\ loop'.step = loop.step
             /\ loop'.pc \notin {"user", "recover"}
             /\ loop'.pc = "prepare" => At("user")
             /\ loop.pc \in {"recover", "catch", "end"} => loop'.pc \in {"catch", "end"}
  BY <1>5, <1>6, <1>9 DEF Moved, Live, Runs
<1>10. ASSUME Live'
       PROVE  /\ Tried' = Tried
              /\ \A i \in DOMAIN log' : IsFailure(log[i])' =>
                   \/ i \in DOMAIN log /\ log'[i] = log[i] /\ IsFailure(log[i])
                   \/ log'[i].step = loop.step /\ loop'.pc = "catch"
              /\ Failed(log', loop.turn, loop.step - 1) =>
                   \/ Failed(log, loop.turn, loop.step - 1)
                   \/ loop'.pc = "catch"
  <2>1. CASE log' = log
    BY <1>9, <1>10, <2>1 DEF Tried, IsFailure
  <2>2. CASE log' = Append(log, e) /\ Told(e, loop')
    <3>1. RetriedSteps(log', loop.turn) = RetriedSteps(log, loop.turn)
      BY <1>1, <1>3, <2>2, RetriedAppend
    <3>2. Tried' = Tried
      BY <1>9, <1>10, <3>1 DEF Tried
    <3>3. \A i \in DOMAIN log' : (i \in DOMAIN log /\ log'[i] = log[i]) \/ log'[i] = e
      BY <1>1, <2>2, AppendIs
    <3>4. IsFailure(e) => e.step = loop.step /\ loop'.pc = "catch"
      BY <2>2 DEF Told
    <3>5. \A i \in DOMAIN log' : IsFailure(log[i])' <=> IsFailure(log'[i])
      BY <1>9, <1>10 DEF IsFailure
    <3>6. e = StepEnd(loop.turn, loop.step - 1, "failed") => IsFailure(e)
      BY DEF StepEnd, IsFailure
    <3>7. Failed(log', loop.turn, loop.step - 1) =>
            Failed(log, loop.turn, loop.step - 1) \/ e = StepEnd(loop.turn, loop.step - 1, "failed")
      BY <1>1, <2>2, FailedAppend
    <3> QED
      BY <3>2, <3>3, <3>4, <3>5, <3>6, <3>7
  <2> QED
    BY <1>2, <2>1, <2>2
<1>11. At("user") => ~Failed(log, loop.turn, loop.step - 1)
  <2> SUFFICES ASSUME At("user"), NEW j \in DOMAIN log, log[j] = StepEnd(loop.turn, loop.step - 1, "failed")
               PROVE  FALSE
    BY DEF Failed
  <2>1. IsFailure(log[j])
    BY DEF IsFailure, StepEnd
  <2> QED
    BY <1>1, <2>1 DEF StepsInv, At
<1>12. StepsInv'
  <2> SUFFICES ASSUME Live' PROVE
        /\ \A i \in DOMAIN log' : IsFailure(log[i])' =>
             \/ log'[i].step < loop'.step /\ ~At("user")'
             \/ log'[i].step = loop'.step /\ loop'.pc \in {"recover", "catch", "end"}
        /\ Tried' <= policy'.attempts /\ policy'.attempts <= MaxOverflowRetries
        /\ ~(At("prepare")' /\ Failed(log', loop'.turn, loop'.step - 1))
        /\ ~At("recover")'
    BY DEF StepsInv
  <2>1. \A i \in DOMAIN log' : IsFailure(log[i])' =>
             \/ log'[i].step < loop'.step /\ ~At("user")'
             \/ log'[i].step = loop'.step /\ loop'.pc \in {"recover", "catch", "end"}
    BY <1>1, <1>9, <1>10 DEF StepsInv, At
  <2>2. Tried' <= policy'.attempts /\ policy'.attempts <= MaxOverflowRetries
    BY <1>1, <1>10 DEF StepsInv
  <2>3. ~(At("prepare")' /\ Failed(log', loop'.turn, loop'.step - 1)) /\ ~At("recover")'
    BY <1>9, <1>10, <1>11 DEF At
  <2> QED
    BY <2>1, <2>2, <2>3
<1> QED
  BY <1>4, <1>7, <1>8, <1>12

(* The summary a compaction wants to append, when it still may.            *)
LEMMA SummarySuits ==
  ASSUME UpkeepInv, compaction.by # "none"
  PROVE  LET e == Summary(compaction.boundary, compaction.source)
         IN  /\ e \in Events
             /\ Unchanged => /\ Suits(log, e) /\ Surface(Append(log, e)).ok
                             /\ Len(log) + 1 \in Surface(Append(log, e)).summaries
<1> DEFINE now == Surface(log)
           n == Len(compaction.source)
           e == Summary(compaction.boundary, compaction.source)
<1>1. /\ log \in Seq(Events) /\ Sound(log) /\ compaction.source \in Seq(Numbers)
      /\ Selects(now, compaction.source, compaction.boundary) /\ Behind(log, compaction.source)
  BY DEF UpkeepInv, TypeInv, UpkeepType, Compactions, CompactionInv
<1>2. Mirrors(now, log, Len(log)) /\ Numbered(log)
  BY <1>1, SurfaceMirrors DEF Sound
<1>3. now \in Surfaces /\ now.nodes \in Seq(Nodes) /\ Len(log) \in Nat
  BY <1>1, <1>2 DEF Mirrors, Surfaces
<1> HIDE DEF now
<1>4. /\ n \in 1 .. Len(now.nodes) /\ now.nodes[n].turn = compaction.boundary
      /\ compaction.boundary \in now.closed
  BY <1>1 DEF Selects
<1>5. PICK i \in 1 .. Len(log) : IsMessage(log[i]) /\ log[i].turn = compaction.boundary
  <2>1. n \in DOMAIN now.nodes
    BY <1>3, <1>4
  <2> QED
    BY <1>2, <1>4, <2>1 DEF Mirrors, Shows
<1>6. compaction.boundary \in Numbers /\ compaction.boundary <= Turned(log)
  <2>1. log[i] \in Events /\ i \in DOMAIN log
    BY <1>1, <1>5
  <2>2. log[i].type \notin {"command/run", "command/done"}
    BY <1>5 DEF IsMessage
  <2>3. log[i].turn \in Numbers
    BY <2>1, <2>2, EventFields
  <2> QED
    BY <1>2, <1>5, <2>1, <2>3 DEF Numbered
<1>7. e \in Events
  BY <1>1, <1>6 DEF Summary, Events
<1>8. e.type = "compaction/summary" /\ e.turn = compaction.boundary /\ e.shadowed = compaction.source
  BY DEF Summary
<1> HIDE DEF e, n
<1>9. ASSUME Unchanged PROVE SummaryFits(now, e)
  BY <1>4, <1>8, <1>9 DEF Unchanged, SummaryFits, now, n
<1>10. ASSUME Unchanged
       PROVE  /\ Suits(log, e) /\ Surface(Append(log, e)).ok
              /\ Len(log) + 1 \in Surface(Append(log, e)).summaries
  <2>1. Suits(log, e)
    BY <1>1, <1>6, <1>8, <1>9, <1>10 DEF Suits, IsMessage, now
  <2>2. Sound(Append(log, e))
    BY <1>1, <1>7, <2>1, SoundAppend
  <2>3. Surface(Append(log, e)) = AddToSurface(now, e)
    BY <1>1, <1>7, SurfaceAppend DEF now
  <2>4. AddToSurface(now, e).summaries = now.summaries \cup {now.at + 1}
    BY <1>3, <1>7, <1>8, <1>9, <1>10, AddIs
  <2>5. now.at = Len(log)
    BY <1>2 DEF Mirrors
  <2> QED
    BY <2>1, <2>2, <2>3, <2>4, <2>5 DEF Sound
<1> QED
  BY <1>7, <1>10 DEF e

(* So it is never refused.                                                 *)
LEMMA EndCompactKeeps ==
  ASSUME UpkeepInv, EndCompact
  PROVE  UpkeepInv'
<1> DEFINE e == Summary(compaction.boundary, compaction.source)
<1>1. /\ log \in Seq(Events) /\ storage \in Storages /\ command \in Nat /\ ~compaction.refused
      /\ compaction \in Compactions /\ policy \in Policies /\ PolicyInv /\ Len(log) \in Nat
  BY DEF UpkeepInv, TypeInv, UpkeepType, CompactionInv
<1>2. compaction.by # "none" /\ UNCHANGED <<loop, running, effects, command>>
  BY DEF EndCompact
<1>3. e \in Events /\ e.type = "compaction/summary" /\ IsMaintenance(e)
  BY <1>2, SummarySuits DEF Summary, IsMaintenance
<1>4. Unchanged => /\ Suits(log, e) /\ Surface(Append(log, e)).ok
                   /\ Len(log) + 1 \in Surface(Append(log, e)).summaries
  BY <1>2, SummarySuits
<1> HIDE DEF e
<1>5. /\ compaction' = Released /\ storage' \in Storages
      /\ log' = log \/ (Unchanged /\ log' = Append(log, e))
  <2>1. CASE UNCHANGED <<log, storage>> /\ compaction' = Released
    BY <1>1, <2>1
  <2>2. CASE Unchanged /\ AppendSummary(e)
    <3>1. AppendElse(e) /\ compaction' = Released
      BY <1>4, <2>2 DEF AppendSummary
    <3> QED
      BY <1>3, <2>2, <3>1, ElseIs
  <2> QED
    BY <2>1, <2>2 DEF EndCompact, e
<1>6. compaction' \in Compactions /\ compaction'.by = "none" /\ ~compaction'.refused
  <2>1. << >> \in Seq(Numbers)
    OBVIOUS
  <2> QED
    BY <1>1, <1>5, <2>1 DEF Released, NoCompaction, Compactions
<1> DEFINE o == IF log' = log THEN "failed" ELSE "compacted"
           m == IF log' = log THEN 0 ELSE Len(log')
<1>7. policy' = IF compaction.by = "policy"
                  THEN [policy EXCEPT !.pc = "decide", !.outcome = o, !.summary = m]
                  ELSE policy
  BY DEF EndCompact
<1>8. /\ o \in {"failed", "compacted"} /\ m \in Nat
      /\ o = "compacted" => Unchanged /\ log' = Append(log, e) /\ m = Len(log) + 1
  <2>1. Len(Append(log, e)) = Len(log) + 1
    BY <1>1
  <2> QED
    BY <1>1, <1>5, <2>1
<1> HIDE DEF o, m
<1>9. /\ policy' \in Policies /\ policy'.attempts = policy.attempts /\ policy'.asked = policy.asked
      /\ compaction.by = "policy" =>
           policy'.pc = "decide" /\ policy'.outcome = o /\ policy'.summary = m
      /\ compaction.by # "policy" => policy' = policy
  BY <1>1, <1>7, <1>8 DEF Policies
<1>10. Stays
  BY <1>2, <1>5, OthersStay
<1>11. Aside(e)
  BY <1>3, <1>4, <1>5 DEF Aside
<1>12. /\ TypeInv' /\ LoopInv' /\ CancelInv' /\ Sound(log') /\ LiveInv'
       /\ Surface(log).summaries \subseteq Surface(log').summaries
  BY <1>3, <1>10, <1>11, AsideKeeps
<1>13. UpkeepType'
  BY <1>1, <1>2, <1>6, <1>9 DEF UpkeepType
<1>14. CompactionInv'
  BY <1>6 DEF CompactionInv
<1>15. PolicyInv'
  <2>1. CASE compaction.by = "policy"
    <3>1. policy.pc = "compact" /\ loop.pc \in {"prepare", "recover"} /\ policy.asked
      BY <1>1, <2>1 DEF PolicyInv
    <3>2. o = "compacted" => m \in Surface(log').summaries
      BY <1>4, <1>8
    <3> QED
      BY <1>2, <1>6, <1>8, <1>9, <2>1, <3>1, <3>2 DEF PolicyInv
  <2>2. CASE compaction.by # "policy"
    BY <1>1, <1>2, <1>6, <1>9, <1>12, <2>2 DEF PolicyInv
  <2> QED
    BY <2>1, <2>2
<1>16. StepsInv'
  <2>1. policy'.outcome = "compacted" /\ At("recover") =>
          \/ policy.outcome = "compacted"
          \/ policy.asked /\ log' = Append(log, e) /\ e.type = "compaction/summary"
    BY <1>1, <1>3, <1>8, <1>9 DEF PolicyInv
  <2> QED
    BY <1>3, <1>9, <1>10, <1>11, <2>1, AsideSteps
<1>17. Sound(log)'
  BY <1>12
<1> QED
  BY <1>12, <1>13, <1>14, <1>15, <1>16, <1>17 DEF UpkeepInv

(* An attempt is counted before it can shrink anything.                    *)
LEMMA AttemptKeeps ==
  ASSUME UpkeepInv, Attempt
  PROVE  UpkeepInv'
<1> DEFINE tries == IF At("recover") THEN policy.attempts + 1 ELSE policy.attempts
<1>1. /\ UNCHANGED <<log, loop, running, effects, storage, command>>
      /\ loop.pc \in {"prepare", "recover"} /\ ~policy.asked
      /\ At("recover") => policy.attempts < MaxOverflowRetries
  BY DEF Attempt
<1>2. /\ PolicyInv /\ StepsInv /\ CompactionInv /\ policy \in Policies /\ compaction \in Compactions
      /\ log \in Seq(Events) /\ policy.attempts \in Nat
  BY DEF UpkeepInv, UpkeepType, TypeInv, Policies
<1>3. policy.pc = "none" /\ compaction.by # "policy"
  BY <1>1, <1>2 DEF PolicyInv, Policies
<1>4. /\ policy' \in Policies /\ policy'.asked /\ policy'.attempts = tries
      /\ \/ /\ compaction' \in Compactions /\ compaction'.by = "policy" /\ ~compaction'.refused
            /\ Selects(Surface(log), compaction'.source, compaction'.boundary)
            /\ Behind(log, compaction'.source)
            /\ policy'.pc = "compact" /\ policy'.outcome = policy.outcome
         \/ /\ compaction' = compaction
            /\ policy'.pc = "decide" /\ policy'.outcome \in {"failed", "no_progress"}
  <2> DEFINE asked == [policy EXCEPT !.asked = TRUE, !.attempts = tries]
  <2>1. asked = [policy EXCEPT !.asked = TRUE,
                   !.attempts = IF At("recover") THEN @ + 1 ELSE @]
    OBVIOUS
  <2>2. \/ /\ ~NothingToCompact /\ Summarize("policy")
           /\ policy' = [asked EXCEPT !.pc = "compact"]
        \/ /\ policy' = [asked EXCEPT !.pc = "decide", !.outcome = "failed"]
           /\ compaction' = compaction
        \/ /\ policy' = [asked EXCEPT !.pc = "decide", !.outcome = "no_progress"]
           /\ compaction' = compaction
    BY <2>1 DEF Attempt
  <2>3. tries \in Nat
    BY <1>2
  <2> HIDE DEF tries
  <2>4. /\ asked \in Policies /\ asked.asked /\ asked.attempts = tries /\ asked.outcome = policy.outcome
    BY <1>2, <2>3 DEF Policies
  <2> HIDE DEF asked
  <2>5. CASE ~NothingToCompact /\ Summarize("policy") /\ policy' = [asked EXCEPT !.pc = "compact"]
    <3>1. ~At("down")
      BY <1>1 DEF At
    <3>2. /\ compaction' \in Compactions /\ compaction'.by = "policy" /\ ~compaction'.refused
          /\ Selects(Surface(log), compaction'.source, compaction'.boundary)
          /\ Behind(log, compaction'.source)
      BY <2>5, <3>1, SummarizeIs
    <3>3. /\ policy' \in Policies /\ policy'.asked /\ policy'.attempts = tries
          /\ policy'.pc = "compact" /\ policy'.outcome = policy.outcome
      BY <2>4, <2>5 DEF Policies
    <3> QED
      BY <3>2, <3>3
  <2>6. ASSUME NEW o \in {"failed", "no_progress"},
               policy' = [asked EXCEPT !.pc = "decide", !.outcome = o], compaction' = compaction
        PROVE  /\ policy' \in Policies /\ policy'.asked /\ policy'.attempts = tries
               /\ compaction' = compaction
               /\ policy'.pc = "decide" /\ policy'.outcome \in {"failed", "no_progress"}
    BY <2>4, <2>6 DEF Policies
  <2> QED
    BY <2>2, <2>5, <2>6
<1>5. /\ TypeInv' /\ LoopInv' /\ CancelInv' /\ Sound(log)' /\ LiveInv'
  BY <1>1 DEF UpkeepInv, TypeInv, LoopInv, CancelInv, LiveInv, Live, Runs
<1>6. UpkeepType'
  BY <1>1, <1>2, <1>4 DEF UpkeepInv, UpkeepType
<1>7. CompactionInv'
  BY <1>1, <1>2, <1>4 DEF CompactionInv, At
<1>8. PolicyInv'
  BY <1>1, <1>3, <1>4 DEF PolicyInv
<1>9. StepsInv'
  <2>1. Live /\ Tried' = Tried /\ Tried \in Nat
    BY <1>1, <1>2, RetriedAppend, EventTypes DEF Live, Runs, Tried, Numbers
  <2>2. Tried <= policy.attempts /\ policy.attempts <= MaxOverflowRetries
    BY <1>2, <2>1 DEF StepsInv
  <2>3. MaxOverflowRetries \in Nat
    BY UpkeepAssumption
  <2>4. Tried <= tries /\ tries <= MaxOverflowRetries /\ (At("recover") => Tried + 1 <= tries)
        /\ policy.attempts <= tries
    BY <1>1, <1>2, <2>1, <2>2, <2>3
  <2>5. At("recover") => policy.outcome # "compacted"
    BY <1>1, <1>2, <2>1 DEF StepsInv
  <2> HIDE DEF tries
  <2>6. At("prepare") /\ Failed(log, loop.turn, loop.step - 1) => Tried + 1 <= tries
    BY <1>1, <1>4, <2>1, <2>4, <1>2 DEF StepsInv, At, tries
  <2>7. At("recover") => policy'.outcome # "compacted"
    BY <1>4, <2>5
  <2> QED
    BY <1>1, <1>2, <1>4, <2>1, <2>4, <2>6, <2>7 DEF StepsInv, At, Live, Runs, IsFailure
<1> QED
  BY <1>5, <1>6, <1>7, <1>8, <1>9 DEF UpkeepInv

(* A decision names a summary that is there.                               *)
LEMMA DecidedKeeps ==
  ASSUME UpkeepInv, Decided
  PROVE  UpkeepInv'
<1> DEFINE e == Decision(loop.turn, policy.outcome, policy.summary)
<1>1. /\ log \in Seq(Events) /\ Sound(log) /\ PolicyInv /\ LiveInv /\ policy \in Policies
      /\ compaction \in Compactions /\ command \in Nat /\ loop \in Loops /\ Good(loop)
      /\ running \in BOOLEAN /\ effects \in SUBSET Effects /\ Turned(log) \in Nat
  BY CountType DEF UpkeepInv, TypeInv, LoopInv, CancelInv, Good, UpkeepType, Turned
<1>2. /\ policy.pc = "decide" /\ AppendElse(e) /\ UNCHANGED <<running, effects, command, compaction>>
      /\ policy' = [policy EXCEPT !.pc = "none", !.summary = 0]
      /\ loop' = IF log' = log THEN Caught ELSE loop
  BY DEF Decided
<1>3. /\ loop.pc \in {"prepare", "recover"} /\ policy.outcome # "none" /\ compaction.by # "policy"
      /\ policy.outcome = "compacted" => policy.summary \in Surface(log).summaries
  BY <1>1, <1>2 DEF PolicyInv
<1>4. Live /\ loop.turn = Turned(log) /\ loop.turn \in Numbers
  BY <1>1, <1>3 DEF LiveInv, Live, Runs, Good, LoopOk
<1>5. /\ e \in Events /\ e.type = "context-budget/decision" /\ e.turn = loop.turn
      /\ e.outcome = policy.outcome /\ e.summary = policy.summary
  BY <1>1, <1>3, <1>4 DEF Decision, Policies, Events
<1> HIDE DEF e
<1>6. Suits(log, e) /\ IsMaintenance(e)
  BY <1>1, <1>3, <1>4, <1>5 DEF Suits, IsMaintenance, IsMessage
<1>7. storage' \in Storages /\ (log' = log \/ log' = Append(log, e))
  BY <1>2, <1>5, ElseIs
<1>8. /\ policy' \in Policies /\ policy'.pc = "none" /\ policy'.attempts = policy.attempts
      /\ policy'.asked = policy.asked /\ policy'.outcome = policy.outcome
  BY <1>1, <1>2 DEF Policies
<1>9. UpkeepType' /\ PolicyInv'
  BY <1>1, <1>2, <1>3, <1>8 DEF UpkeepType, PolicyInv
<1>10. CASE log' = log
  <2>1. loop' = Caught
    BY <1>2, <1>10
  <2>2. Good(loop')
    BY <1>1, <1>4, <2>1, CaughtGood
  <2>3. Elsewhere
    BY <1>1, <1>4, <1>10, <2>1, MovedTo DEF Elsewhere
  <2>4. log' \in Seq(Events) /\ Sound(log') /\ LiveInv' /\ StepsInv' /\ CompactionInv'
    BY <1>2, <1>8, <2>2, <2>3, ElsewhereKeeps
  <2>5. TypeInv' /\ LoopInv' /\ CancelInv'
    BY <1>1, <1>2, <1>7, <2>2, <2>4 DEF Good, TypeInv, LoopInv, CancelInv
  <2>6. Sound(log)'
    BY <2>4
  <2> QED
    BY <1>9, <2>4, <2>5, <2>6 DEF UpkeepInv
<1>11. CASE log' # log
  <2>1. UNCHANGED <<loop, running, effects>>
    BY <1>2, <1>11
  <2>2. Stays
    BY <1>7, <2>1, OthersStay
  <2>3. Aside(e)
    BY <1>6, <1>7 DEF Aside
  <2>4. TypeInv' /\ LoopInv' /\ CancelInv' /\ Sound(log') /\ LiveInv'
    BY <1>5, <2>2, <2>3, AsideKeeps
  <2>5. CompactionInv' /\ StepsInv'
    BY <1>2, <1>5, <1>8, <2>2, <2>3, AsideCompaction, AsideSteps
  <2>6. Sound(log)'
    BY <2>4
  <2> QED
    BY <1>9, <2>4, <2>5, <2>6 DEF UpkeepInv
<1> QED
  BY <1>10, <1>11
-------------------------------------------------------------------------------
(* What the loop does to the policy: nothing of a hook outlives it, and    *)
(* the attempts are kept for the turn.                                     *)
LEMMA PolicyMoves ==
  ASSUME UpkeepInv, HLoopStep, Tries \/ FailsOnce \/ TriesAgain \/ GoesOn \/ Elsewhere
  PROVE  /\ UpkeepType' /\ PolicyInv'
         /\ Live' => policy'.attempts = policy.attempts
         /\ loop'.pc # loop.pc /\ Live' => ~policy'.asked /\ policy'.outcome = "none"
<1>1. /\ policy \in Policies /\ PolicyInv /\ UpkeepType
      /\ UNCHANGED <<command, compaction>> /\ policy' = PolicyAfter
      /\ loop.pc \in {"prepare", "recover"} => PolicyReturned
  BY DEF UpkeepInv, UpkeepType, HLoopStep
<1>2. policy.pc # "compact" /\ compaction.by # "policy"
  BY <1>1 DEF PolicyInv, PolicyReturned, AttemptAborted
<1>3. loop'.pc = loop.pc => policy.pc = "none"
  <2>1. loop.pc \in {"prepare", "recover"} => loop'.pc # loop.pc
    BY DEF Tries, FailsOnce, TriesAgain, GoesOn, Elsewhere, OnTo, Moved, Idle, At
  <2> QED
    BY <1>1, <2>1 DEF PolicyInv, Policies
<1>4. Live' => loop'.turn = loop.turn
  BY DEF Tries, FailsOnce, TriesAgain, GoesOn, Elsewhere, OnTo, Moved, Idle, Live, Runs
<1>0. loop'.pc = loop.pc => loop'.turn = loop.turn
  BY DEF Tries, FailsOnce, TriesAgain, GoesOn, Elsewhere, OnTo, Moved, Idle, Live, Runs
<1> DEFINE fresh == [NoPolicy EXCEPT !.attempts = policy.attempts]
<1>5. /\ fresh \in Policies /\ fresh.pc = "none" /\ fresh.attempts = policy.attempts
      /\ ~fresh.asked /\ fresh.outcome = "none"
      /\ NoPolicy \in Policies /\ NoPolicy.pc = "none"
  BY <1>1 DEF NoPolicy, Policies
<1>6. /\ loop'.pc = loop.pc => policy' = policy
      /\ loop'.pc # loop.pc /\ loop'.turn # loop.turn => policy' = NoPolicy
      /\ loop'.pc # loop.pc /\ loop'.turn = loop.turn => policy' = fresh
  <2> HIDE DEF fresh
  <2>1. policy' = CASE loop'.pc = loop.pc -> policy
                    [] loop'.turn # loop.turn -> NoPolicy
                    [] OTHER -> fresh
    BY <1>1 DEF PolicyAfter, fresh
  <2>2. CASE loop'.pc = loop.pc
    BY <1>0, <2>1, <2>2
  <2>3. CASE loop'.pc # loop.pc /\ loop'.turn # loop.turn
    BY <2>1, <2>3
  <2>4. CASE loop'.pc # loop.pc /\ loop'.turn = loop.turn
    BY <2>1, <2>4
  <2> QED
    BY <2>2, <2>3, <2>4
<1> HIDE DEF fresh
<1>7. policy' \in Policies /\ policy'.pc = "none"
  BY <1>1, <1>3, <1>5, <1>6
<1>8. UpkeepType' /\ PolicyInv'
  BY <1>1, <1>2, <1>7 DEF UpkeepType, PolicyInv
<1>9. Live' => policy'.attempts = policy.attempts
  BY <1>4, <1>5, <1>6
<1>10. loop'.pc # loop.pc /\ Live' => ~policy'.asked /\ policy'.outcome = "none"
  BY <1>4, <1>5, <1>6
<1> QED
  BY <1>8, <1>9, <1>10

(* A step of the turn that opens, fails or ends keeps the log sound.       *)
LEMMA OntoKeeps ==
  ASSUME UpkeepInv, NEW pc \in {"prepare", "model", "recover"}, NEW s, OnTo(pc, s),
         loop.pc \in {"prepare", "model", "recover", "call"},
         compaction' = compaction, NEW e \in Events,
         \/ log' = log
         \/ /\ log' = Append(log, e) /\ Suits(log, e)
            /\ e.type \in {"step/start", "step/end"}
  PROVE  log' \in Seq(Events) /\ Sound(log') /\ LiveInv' /\ CompactionInv'
<1>1. /\ log \in Seq(Events) /\ Sound(log) /\ LiveInv /\ Live /\ CompactionInv
      /\ compaction.source \in Seq(Numbers)
      /\ loop.turn = Turned(log) /\ ~IsClosed(log, loop.turn) /\ loop.cause = "none"
  BY DEF UpkeepInv, TypeInv, UpkeepType, Compactions, LiveInv, OnTo
<1>2. /\ log' \in Seq(Events) /\ Sound(log') /\ Turned(log') = Turned(log)
      /\ ~IsClosed(log', loop.turn)
      /\ \A q \in Seq(Numbers) : \A b : Selects(Surface(log), q, b) /\ Behind(log, q) =>
            Selects(Surface(log'), q, b) /\ Behind(log', q)
  <2>1. CASE log' = log
    BY <1>1, <2>1
  <2>2. CASE log' = Append(log, e) /\ Suits(log, e) /\ e.type \in {"step/start", "step/end"}
    BY <1>1, <2>2, LogAppend
  <2> QED
    BY <2>1, <2>2
<1>3. LiveInv'
  BY <1>1, <1>2 DEF LiveInv, OnTo
<1>4. CompactionInv'
  BY <1>1, <1>2 DEF CompactionInv, OnTo, At
<1> QED
  BY <1>2, <1>3, <1>4

(* Every step of the loop keeps the invariant, hooks included.             *)
LEMMA HLoopKeeps ==
  ASSUME UpkeepInv, HLoopStep
  PROVE  UpkeepInv'
<1>1. /\ TypeInv /\ LoopInv /\ CancelInv /\ StepsInv /\ PolicyInv /\ LoopStep /\ Good(loop)
      /\ log \in Seq(Events) /\ compaction' = compaction /\ Sound(log) /\ LiveInv
      /\ policy.attempts \in Nat /\ MaxOverflowRetries \in Nat
  BY UpkeepAssumption
  DEF UpkeepInv, HLoopStep, TypeInv, Good, LoopInv, CancelInv, UpkeepType, Policies
<1>2. Tries \/ FailsOnce \/ TriesAgain \/ GoesOn \/ Elsewhere
  BY <1>1, LoopMoves
<1>3. /\ UpkeepType' /\ PolicyInv'
      /\ Live' => policy'.attempts = policy.attempts
      /\ loop'.pc # loop.pc /\ Live' => ~policy'.asked /\ policy'.outcome = "none"
  BY <1>2, PolicyMoves
<1>4. Fine /\ running' \in BOOLEAN /\ effects' = effects
  BY <1>1, LoopSteps, RunningType DEF TypeInv
<1>5. ASSUME log' \in Seq(Events) /\ Sound(log') /\ LiveInv' /\ CompactionInv' /\ StepsInv'
      PROVE  UpkeepInv'
  <2>1. TypeInv' /\ LoopInv' /\ CancelInv'
    BY <1>1, <1>4, <1>5 DEF Fine, Good, TypeInv, LoopInv, CancelInv
  <2>2. Sound(log)'
    BY <1>5
  <2> QED
    BY <1>3, <1>5, <2>1, <2>2 DEF UpkeepInv
<1>6. CASE Elsewhere
  <2>1. Good(loop')
    BY <1>4 DEF Fine
  <2>2. log' \in Seq(Events) /\ Sound(log') /\ LiveInv' /\ StepsInv' /\ CompactionInv'
    BY <1>1, <1>3, <1>6, <2>1, ElsewhereKeeps
  <2> QED
    BY <1>5, <2>2
<1>7. Live => loop.turn \in Numbers /\ loop.step \in Numbers /\ loop.turn = Turned(log)
              /\ ~IsClosed(log, loop.turn) /\ Tried \in Nat /\ Turned(log) \in Nat
  <2>1. \A e \in Events : Tried \in Nat
    BY <1>1, RetriedAppend DEF Tried
  <2>2. Live => TurnStart(loop.turn) \in Events
    BY <1>1, EventTypes DEF Good, LoopOk, Live
  <2> QED
    BY <1>1, <2>1, <2>2, CountType DEF Good, LoopOk, Live, LiveInv, Turned
<1>8. CASE Tries
  <2> DEFINE e == StepStart(loop.turn, loop.step)
  <2>1. /\ Live /\ At("prepare") /\ OnTo("model", loop.step) /\ log' = Append(log, e)
    BY <1>8 DEF Tries, OnTo
  <2>2. e \in Events /\ e.type = "step/start" /\ e.turn = loop.turn /\ e.step = loop.step
    BY <1>7, <2>1, EventTypes DEF StepStart
  <2> HIDE DEF e
  <2>3. /\ Tried <= policy.attempts /\ policy.attempts <= MaxOverflowRetries
        /\ Failed(log, loop.turn, loop.step - 1) =>
             Tried + 1 <= policy.attempts /\ Shrunk(log, loop.turn, loop.step - 1)
        /\ \A i \in DOMAIN log : IsFailure(log[i]) => log[i].step < loop.step
    BY <1>1, <2>1 DEF StepsInv, At
  <2>4. Suits(log, e)
    BY <1>1, <1>7, <2>1, <2>2, <2>3 DEF Suits, IsMessage, Tried
  <2>5. log' \in Seq(Events) /\ Sound(log') /\ LiveInv' /\ CompactionInv'
    BY <1>1, <2>1, <2>2, <2>4, OntoKeeps DEF At
  <2>6. /\ loop'.pc = "model" /\ loop'.step = loop.step /\ loop'.turn = loop.turn /\ Live'
    BY <2>1 DEF OnTo, Live, Runs
  <2>7. Tried' = Tried + (IF Failed(log, loop.turn, loop.step - 1) THEN 1 ELSE 0)
    BY <1>1, <2>1, <2>2, <2>6, RetriedAppend DEF Tried
  <2>8. Tried' <= policy.attempts
    BY <1>7, <2>1, <2>3, <2>7
  <2>9. \A i \in DOMAIN log' : IsFailure(log[i])' => log'[i].step < loop'.step
    <3>1. \A i \in DOMAIN log' : (i \in DOMAIN log /\ log'[i] = log[i]) \/ log'[i] = e
      BY <1>1, <2>1, <2>2, AppendIs
    <3> QED
      BY <2>2, <2>3, <2>6, <3>1 DEF IsFailure
  <2>10. StepsInv'
    BY <1>3, <2>3, <2>6, <2>8, <2>9 DEF StepsInv, At
  <2> QED
    BY <1>5, <2>5, <2>10
<1>9. CASE FailsOnce
  <2> DEFINE e == StepEnd(loop.turn, loop.step, "failed")
  <2>1. Live /\ At("model") /\ OnTo("recover", loop.step) /\ log' = Append(log, e)
    BY <1>9 DEF FailsOnce, OnTo
  <2>2. e \in Events /\ e.type = "step/end" /\ e.turn = loop.turn /\ e.step = loop.step
    BY <1>7, <2>1, EventTypes DEF StepEnd
  <2>3. Failed(log', loop.turn, loop.step)
    BY <1>1, <2>1, <2>2, FailedAppend
  <2> HIDE DEF e
  <2>4. /\ Tried <= policy.attempts /\ policy.attempts <= MaxOverflowRetries
        /\ \A i \in DOMAIN log : IsFailure(log[i]) => log[i].step < loop.step
    BY <1>1, <2>1 DEF StepsInv, At
  <2>5. Suits(log, e)
    BY <1>1, <1>7, <2>1, <2>2 DEF Suits, IsMessage
  <2>6. log' \in Seq(Events) /\ Sound(log') /\ LiveInv' /\ CompactionInv'
    BY <1>1, <2>1, <2>2, <2>5, OntoKeeps DEF At
  <2>7. /\ loop'.pc = "recover" /\ loop'.step = loop.step /\ loop'.turn = loop.turn /\ Live'
    BY <2>1 DEF OnTo, Live, Runs
  <2>8. Tried' = Tried
    BY <1>1, <1>7, <2>1, <2>2, <2>7, RetriedAppend DEF Tried
  <2>9. \A i \in DOMAIN log' : IsFailure(log[i])' =>
          log'[i].step < loop'.step \/ log'[i].step = loop'.step
    <3>1. \A i \in DOMAIN log' : (i \in DOMAIN log /\ log'[i] = log[i]) \/ log'[i] = e
      BY <1>1, <2>1, <2>2, AppendIs
    <3> QED
      BY <2>2, <2>4, <2>7, <3>1 DEF IsFailure
  <2>10. ~policy'.asked /\ policy'.outcome = "none" /\ policy'.attempts = policy.attempts
    BY <1>3, <2>1, <2>7 DEF At
  <2>11. StepsInv'
    BY <2>3, <2>4, <2>7, <2>8, <2>9, <2>10 DEF StepsInv, At
  <2> QED
    BY <1>5, <2>6, <2>11
<1>10. CASE TriesAgain
  <2>1. Live /\ At("recover") /\ OnTo("prepare", loop.step + 1) /\ log' = log
    BY <1>10 DEF TriesAgain, OnTo
  <2>2. loop'.pc = "prepare" /\ loop'.step = loop.step + 1 /\ loop'.turn = loop.turn /\ Live'
    BY <2>1 DEF OnTo, Live, Runs
  <2>3. loop'.cause = "none"
    BY <1>1, <2>1 DEF LiveInv, At, OnTo
  <2>4. policy.asked /\ policy.outcome = "compacted"
    BY <2>1, <2>3 DEF HLoopStep, RetryGranted
  <2>5. /\ Tried + 1 <= policy.attempts /\ policy.attempts <= MaxOverflowRetries
        /\ Shrunk(log, loop.turn, loop.step)
        /\ \A i \in DOMAIN log : IsFailure(log[i]) => log[i].step < loop.step \/ log[i].step = loop.step
    BY <1>1, <2>1, <2>4 DEF StepsInv, At
  <2>6. log' \in Seq(Events) /\ Sound(log') /\ LiveInv' /\ CompactionInv'
    <3>1. TurnStart(loop.turn) \in Events
      BY <1>7, <2>1, EventTypes
    <3> QED
      BY <1>1, <2>1, <3>1, OntoKeeps DEF At
  <2>7. Tried' = Tried
    BY <2>1, <2>2 DEF Tried
  <2>8. loop'.step - 1 = loop.step /\ loop.step \in Nat
    BY <1>7, <2>1, <2>2 DEF Numbers
  <2>9. \A i \in DOMAIN log' : IsFailure(log[i])' => log'[i].step < loop'.step
    <3> SUFFICES ASSUME NEW i \in DOMAIN log, IsFailure(log[i])
                 PROVE  log[i].step < loop.step + 1
      BY <2>1, <2>2 DEF IsFailure
    <3>1. log[i].step \in Nat
      BY <1>1, EventFields DEF IsFailure, Numbers
    <3> QED
      BY <2>5, <2>8, <3>1
  <2>10. Tried' <= policy.attempts
    BY <1>1, <1>7, <2>1, <2>5, <2>7
  <2>11. StepsInv'
    BY <1>3, <2>1, <2>2, <2>5, <2>7, <2>8, <2>9, <2>10 DEF StepsInv, At
  <2> QED
    BY <1>5, <2>6, <2>11
<1>11. CASE GoesOn
  <2> DEFINE e == StepEnd(loop.turn, loop.step, "tool_calls")
  <2>1. Live /\ At("call") /\ OnTo("prepare", loop.step + 1) /\ log' = Append(log, e)
    BY <1>11 DEF GoesOn, OnTo
  <2>2. /\ e \in Events /\ e.type = "step/end" /\ e.turn = loop.turn /\ ~IsFailure(e)
        /\ \A t, s : e # StepEnd(t, s, "failed")
    BY <1>7, <2>1, EventTypes DEF StepEnd, IsFailure
  <2> HIDE DEF e
  <2>3. /\ Tried <= policy.attempts /\ policy.attempts <= MaxOverflowRetries
        /\ \A i \in DOMAIN log : IsFailure(log[i]) => log[i].step < loop.step
    BY <1>1, <2>1 DEF StepsInv, At
  <2>4. Suits(log, e)
    BY <1>1, <1>7, <2>1, <2>2 DEF Suits, IsMessage
  <2>5. log' \in Seq(Events) /\ Sound(log') /\ LiveInv' /\ CompactionInv'
    BY <1>1, <2>1, <2>2, <2>4, OntoKeeps DEF At
  <2>6. /\ loop'.pc = "prepare" /\ loop'.step = loop.step + 1 /\ loop'.turn = loop.turn /\ Live'
    BY <2>1 DEF OnTo, Live, Runs
  <2>7. Tried' = Tried
    BY <1>1, <1>7, <2>1, <2>2, <2>6, RetriedAppend DEF Tried
  <2>8. loop'.step - 1 = loop.step /\ loop.step \in Nat
    BY <1>7, <2>1, <2>6 DEF Numbers
  <2>9. \A i \in DOMAIN log' : IsFailure(log[i])' => log'[i].step < loop'.step
    <3>1. \A i \in DOMAIN log' : (i \in DOMAIN log /\ log'[i] = log[i]) \/ log'[i] = e
      BY <1>1, <2>1, <2>2, AppendIs
    <3> SUFFICES ASSUME NEW i \in DOMAIN log, IsFailure(log[i])
                 PROVE  log[i].step < loop.step + 1
      BY <2>2, <2>6, <3>1 DEF IsFailure
    <3>2. log[i].step \in Nat
      BY <1>1, EventFields DEF IsFailure, Numbers
    <3> QED
      BY <2>3, <2>8, <3>2
  <2>10. ~Failed(log', loop.turn, loop.step)
    <3>1. ~Failed(log, loop.turn, loop.step)
      <4> SUFFICES ASSUME NEW j \in DOMAIN log, log[j] = StepEnd(loop.turn, loop.step, "failed")
                   PROVE  FALSE
        BY DEF Failed
      <4>1. IsFailure(log[j]) /\ log[j].step = loop.step
        BY DEF IsFailure, StepEnd
      <4> QED
        BY <2>3, <2>8, <4>1
    <3> QED
      BY <1>1, <2>1, <2>2, <3>1, FailedAppend
  <2>11. StepsInv'
    BY <1>3, <2>3, <2>6, <2>7, <2>8, <2>9, <2>10 DEF StepsInv, At
  <2> QED
    BY <1>5, <2>5, <2>11
<1> QED
  BY <1>2, <1>6, <1>8, <1>9, <1>10, <1>11
-------------------------------------------------------------------------------
(* A new turn: nothing in the log is of it yet.                            *)
LEMMA RunKeeps ==
  ASSUME UpkeepInv, HostRun
  PROVE  UpkeepInv'
<1> DEFINE t == Turned(log) + 1
           e == TurnStart(t)
           s == [Idle EXCEPT !.pc = "user", !.turn = t, !.step = 1]
<1>1. /\ TypeInv /\ log \in Seq(Events) /\ Sound(log) /\ Numbered(log) /\ PolicyInv /\ CompactionInv
      /\ policy \in Policies /\ compaction \in Compactions /\ command \in Nat /\ Good(loop)
      /\ compaction.source \in Seq(Numbers) /\ Turned(log) \in Nat /\ MaxOverflowRetries \in Nat
  BY CountType, UpkeepAssumption
  DEF UpkeepInv, TypeInv, LoopInv, CancelInv, Good, UpkeepType, Compactions, Turned, Sound
<1>2. /\ At("idle") /\ AppendOr(e, s, Idle) /\ running' = TRUE /\ effects' = effects
      /\ policy' = NoPolicy /\ UNCHANGED <<command, compaction>>
  BY DEF HostRun, Run, Turned
<1>3. t \in Numbers /\ e \in Events /\ e.type = "turn/start" /\ e.turn = t
  <2>1. t \in Numbers
    BY <1>1 DEF Numbers
  <2> QED
    BY <2>1, EventTypes DEF TurnStart
<1>4. Good(s) /\ Good(Idle)
  BY <1>1, <1>3, OtherGood, IdleGood
<1>5. s.pc = "user" /\ s.turn = t /\ s.cause = "none" /\ Idle.pc = "idle" /\ Idle.cause = "none"
  BY DEF Idle
<1> HIDE DEF e, s
<1>6. log' \in Seq(Events) /\ storage' \in Storages /\ Good(loop')
  BY <1>1, <1>2, <1>3, <1>4, AppendGood
<1>7. TypeInv' /\ LoopInv' /\ CancelInv'
  BY <1>1, <1>2, <1>6 DEF Good, TypeInv, LoopInv, CancelInv
<1>8. NoPolicy \in Policies /\ NoPolicy.pc = "none" /\ NoPolicy.attempts = 0
  BY DEF NoPolicy, Policies
<1>9. UpkeepType' /\ PolicyInv'
  BY <1>1, <1>2, <1>8 DEF UpkeepType, PolicyInv, At
<1>10. Suits(log, e) /\ e.type # "compaction/summary"
  BY <1>1, <1>3 DEF Suits, IsMessage
<1>11. ASSUME Sound(log'), LiveInv', StepsInv',
              \A q \in Seq(Numbers) : \A b : Selects(Surface(log), q, b) /\ Behind(log, q) =>
                 Selects(Surface(log'), q, b) /\ Behind(log', q)
       PROVE  UpkeepInv'
  <2>1. ~At("down")'
    BY <1>2, <1>5 DEF AppendOr, At
  <2>2. CompactionInv'
    BY <1>1, <1>2, <1>11, <2>1 DEF CompactionInv, At
  <2>3. Sound(log)'
    BY <1>11
  <2> QED
    BY <1>7, <1>9, <1>11, <2>2, <2>3 DEF UpkeepInv
<1>12. CASE log' = log /\ loop' = Idle
  <2>1. ~Live' /\ loop'.cause = "none"
    BY <1>5, <1>12 DEF Live, Runs
  <2>2. LiveInv' /\ StepsInv'
    BY <2>1 DEF LiveInv, StepsInv
  <2> QED
    BY <1>1, <1>11, <1>12, <2>2
<1>13. CASE log' = Append(log, e) /\ loop' = s
  <2>1. /\ Sound(log') /\ Turned(log') = t
        /\ \A x : IsClosed(log', x) <=> IsClosed(log, x)
        /\ \A q \in Seq(Numbers) : \A b : Selects(Surface(log), q, b) /\ Behind(log, q) =>
              Selects(Surface(log'), q, b) /\ Behind(log', q)
    BY <1>1, <1>3, <1>10, <1>13, LogAppend
  <2>2. \A i \in DOMAIN log : log[i].turn \in Nat /\ log[i].turn <= Turned(log)
    BY <1>1, EventFields DEF Numbered
  <2>3. \A i \in DOMAIN log : log[i].turn # t
    BY <1>1, <2>2
  <2>4. ~IsClosed(log, t)
    BY <2>3 DEF IsClosed, ClosedTurns
  <2>5. LiveInv'
    BY <1>5, <1>13, <2>1, <2>4 DEF LiveInv
  <2>6. \A i \in DOMAIN log' : ~IsFailure(log[i])'
    <3>1. \A i \in DOMAIN log' : (i \in DOMAIN log /\ log'[i] = log[i]) \/ log'[i] = e
      BY <1>1, <1>3, <1>13, AppendIs
    <3> QED
      BY <1>3, <1>5, <1>13, <2>3, <3>1 DEF IsFailure
  <2>7. Tried' = 0
    <3>1. RetriedSteps(log, t) = {}
      BY <2>3 DEF RetriedSteps
    <3>2. RetriedSteps(log', t) = {}
      BY <1>1, <1>3, <1>13, <3>1, RetriedAppend
    <3> HIDE DEF t
    <3> QED
      BY <1>5, <1>13, <3>2, FS_EmptySet DEF Tried
  <2>8. StepsInv'
    BY <1>1, <1>2, <1>5, <1>8, <1>13, <2>6, <2>7 DEF StepsInv, At
  <2> QED
    BY <1>11, <2>1, <2>5, <2>8
<1> QED
  BY <1>2, <1>12, <1>13 DEF AppendOr

(* A process that dies takes its compaction, its policy and its command    *)
(* with it.                                                                *)
LEMMA CrashKeeps ==
  ASSUME UpkeepInv, HCrash
  PROVE  UpkeepInv'
<1>1. /\ TypeInv /\ log \in Seq(Events) /\ Sound(log) /\ storage \in Storages
      /\ effects \in SUBSET Effects /\ compaction \in Compactions /\ ~compaction.refused
  BY DEF UpkeepInv, TypeInv, UpkeepType, CompactionInv
<1>2. /\ loop' = [Idle EXCEPT !.pc = "down"] /\ running' = FALSE /\ UNCHANGED <<log, effects>>
      /\ storage' = [storage EXCEPT !.crashes = @ + 1, !.broken = FALSE]
      /\ command' = 0 /\ compaction' = Released /\ policy' = NoPolicy
  BY DEF HCrash, Crash
<1>3. Good(loop')
  BY <1>2, IdleGood
<1>4. storage' \in Storages
  <2> DEFINE u == [storage EXCEPT !.crashes = @ + 1]
  <2>1. u \in Storages
    BY <1>1 DEF Storages
  <2>2. storage' = [u EXCEPT !.broken = FALSE]
    BY <1>2
  <2> HIDE DEF u
  <2> QED
    BY <2>1, <2>2 DEF Storages
<1>5. TypeInv' /\ LoopInv' /\ CancelInv'
  BY <1>1, <1>2, <1>3, <1>4 DEF Good, TypeInv, LoopInv, CancelInv
<1>6. compaction' \in Compactions /\ compaction'.by = "none" /\ ~compaction'.refused
  <2>1. << >> \in Seq(Numbers)
    OBVIOUS
  <2> QED
    BY <1>1, <1>2, <2>1 DEF Released, NoCompaction, Compactions
<1>7. policy' \in Policies /\ policy'.pc = "none"
  BY <1>2 DEF NoPolicy, Policies
<1>8. UpkeepType' /\ CompactionInv' /\ PolicyInv'
  BY <1>2, <1>6, <1>7 DEF UpkeepType, CompactionInv, PolicyInv
<1>9. ~Live' /\ loop'.cause = "none"
  BY <1>2 DEF Live, Runs, Idle
<1>10. LiveInv' /\ StepsInv'
  BY <1>9 DEF LiveInv, StepsInv
<1>11. Sound(log)'
  BY <1>1, <1>2
<1> QED
  BY <1>5, <1>8, <1>10, <1>11 DEF UpkeepInv

(* The next one closes what is open, and goes on.                          *)
LEMMA ReloadKeeps ==
  ASSUME UpkeepInv, HReload
  PROVE  UpkeepInv'
<1>1. /\ TypeInv /\ log \in Seq(Events) /\ Sound(log) /\ UpkeepType /\ CompactionInv /\ PolicyInv
  BY DEF UpkeepInv, TypeInv
<1>2. /\ At("down") /\ Loadable(log) /\ log' = log \o Closers(log) /\ loop' = Idle
      /\ UNCHANGED <<running, effects, storage, command, compaction, policy>>
  BY DEF HReload, Reload
<1>3. log' \in Seq(Events) /\ Sound(log)'
  BY <1>1, <1>2, ClosingSound
<1>4. Good(loop')
  BY <1>2, IdleGood
<1>5. TypeInv' /\ LoopInv' /\ CancelInv'
  BY <1>1, <1>2, <1>3, <1>4 DEF Good, TypeInv, LoopInv, CancelInv
<1>6. compaction.by = "none" /\ ~compaction.refused /\ policy.pc = "none"
  BY <1>1, <1>2 DEF CompactionInv, PolicyInv, UpkeepType, Policies, At
<1>7. UpkeepType' /\ CompactionInv' /\ PolicyInv'
  BY <1>1, <1>2, <1>6 DEF UpkeepType, CompactionInv, PolicyInv
<1>8. ~Live' /\ loop'.cause = "none"
  BY <1>2 DEF Live, Runs, Idle
<1>9. LiveInv' /\ StepsInv'
  BY <1>8 DEF LiveInv, StepsInv
<1> QED
  BY <1>3, <1>5, <1>7, <1>9 DEF UpkeepInv

(* Every step keeps the invariant.                                         *)
LEMMA UpkeepStep ==
  ASSUME UpkeepInv, [HNext]_hvars
  PROVE  UpkeepInv'
<1>1. CASE HostRun
  BY <1>1, RunKeeps
<1>2. CASE HLoopStep
  BY <1>2, HLoopKeeps
<1>3. CASE HCancel \/ HEffect \/ UNCHANGED hvars
  BY <1>3, SignalKeeps
<1>4. CASE HCrash
  BY <1>4, CrashKeeps
<1>5. CASE HReload
  BY <1>5, ReloadKeeps
<1>6. CASE RunCommand \/ EndCommand
  BY <1>6, RegistryKeeps
<1>7. CASE Compact
  BY <1>7, CompactKeeps
<1>8. CASE EndCompact
  BY <1>8, EndCompactKeeps
<1>9. CASE Attempt
  BY <1>9, AttemptKeeps
<1>10. CASE Decided
  BY <1>10, DecidedKeeps
<1> QED
  BY <1>1, <1>2, <1>3, <1>4, <1>5, <1>6, <1>7, <1>8, <1>9, <1>10 DEF HNext

(* Whoever appends to the session, and between whichever awaits: the log   *)
(* stays sound, a compaction's selection stays what it was, and each retry *)
(* of the policy has been paid for.                                        *)
THEOREM UpkeepIsInvariant == HSpec => []UpkeepInv
<1>1. HInit => UpkeepInv
  BY InitUpkeep
<1>2. UpkeepInv /\ [HNext]_hvars => UpkeepInv'
  BY UpkeepStep
<1> QED
  BY <1>1, <1>2, PTL DEF HSpec

(* SessionCompactor.compact: what it repeats after its await is enough; a  *)
(* summary it still wants to append is never refused by the session.       *)
THEOREM SummaryIsAccepted == HSpec => []SummariesAccepted
<1>1. UpkeepInv => SummariesAccepted
  BY DEF UpkeepInv, CompactionInv, SummariesAccepted
<1> QED
  BY <1>1, UpkeepIsInvariant, PTL

(* A summary stands for messages of closed turns before it, and never of   *)
(* the last RetainTurns of them.                                           *)
THEOREM RecentTurnsRetained == HSpec => []RetainsRecentTurns
<1>1. UpkeepInv => RetainsRecentTurns
  BY DEF UpkeepInv, Sound, RetainsRecentTurns
<1> QED
  BY <1>1, UpkeepIsInvariant, PTL

(* ContextBudgetPolicy: a step that follows a failed one has a summary     *)
(* between them, and a turn is given no more of them than it allows.       *)
THEOREM RetriesProgress == HSpec => []RetriesMakeProgress
<1>1. UpkeepInv => RetriesMakeProgress
  BY DEF UpkeepInv, Sound, RetriesMakeProgress
<1> QED
  BY <1>1, UpkeepIsInvariant, PTL

(* deriveSessionSurface: no message is lost to the model; it is in the     *)
(* request or stands behind a summary that reaches as far as its turn.     *)
THEOREM HistoryIsCovered == HSpec => []HistoryCovered
<1>1. UpkeepInv => HistoryCovered
  BY OrderCovers DEF UpkeepInv, TypeInv, Sound, HistoryCovered
<1> QED
  BY <1>1, UpkeepIsInvariant, PTL
=============================================================================
