--------------------------- MODULE AgentTurn_proofs ---------------------------
(***************************************************************************)
(* Proofs about AgentTurn, for any initial logs, batches and bounds.       *)
(*                                                                         *)
(* The order of the parts:                                                 *)
(*   - the scans of SessionLog: what one more event does to each, by       *)
(*     induction over the length of the log (LeastNatural);                *)
(*   - the invariant TurnInv, in named parts, and the base of it: types,   *)
(*     the locals of run at each label, the scan of commands;              *)
(*   - the steps, grouped by the event they append (NextIs);               *)
(*   - the log and its closers (Recovered);                                *)
(*   - one lemma ...Step per part of the invariant;                        *)
(*   - the theorems.                                                       *)
(***************************************************************************)
EXTENDS AgentTurn, FiniteSetTheorems, Integers, TLAPS

(* A set of naturals has a least element.  The library states induction    *)
(* over an operator; this is the form over a set, from the                 *)
(* well-foundedness of finite sets under inclusion.                        *)
LEMMA LeastNatural ==
  ASSUME NEW B \in SUBSET Nat, B # {}
  PROVE  \E n \in B : \A m \in B : n <= m
<1> DEFINE R == StrictSubsetOrdering(Nat)
           T == {0 .. n - 1 : n \in B}
<1>1. IsWellFoundedOn(R, FiniteSubsetsOf(Nat))
  BY FS_StrictSubsetOrderingWellFounded
<1>2. T \subseteq FiniteSubsetsOf(Nat)
  <2> SUFFICES ASSUME NEW n \in B PROVE 0 .. n - 1 \in FiniteSubsetsOf(Nat)
    OBVIOUS
  <2>1. IsFiniteSet(0 .. n - 1)
    BY FS_Interval
  <2> QED
    BY <2>1 DEF FiniteSubsetsOf
<1>3. \E x \in T : \A y \in T : <<y, x>> \notin R
  <2>1. T # {}
    OBVIOUS
  <2> HIDE DEF R, T
  <2> QED
    BY <1>1, <1>2, <2>1, WFMin
<1>4. PICK n \in B : \A m \in B : <<0 .. m - 1, 0 .. n - 1>> \notin R
  BY <1>3
<1>5. ASSUME NEW m \in B, m < n PROVE FALSE
  <2>1. 0 .. m - 1 \subseteq 0 .. n - 1 /\ 0 .. m - 1 # 0 .. n - 1
    <3>1. m \in 0 .. n - 1 /\ m \notin 0 .. m - 1
      BY <1>5
    <3> QED
      BY <1>5, <3>1
  <2>2. 0 .. m - 1 \in SUBSET Nat /\ 0 .. n - 1 \in SUBSET Nat
    OBVIOUS
  <2>3. <<0 .. m - 1, 0 .. n - 1>> \in R
    BY <2>1, <2>2 DEF StrictSubsetOrdering
  <2> QED
    BY <1>4, <2>3
<1> QED
  BY <1>5

(* Induction up to n.                                                      *)
LEMMA UpTo ==
  ASSUME NEW n \in Nat, NEW B, 0 \in B, \A i \in 1 .. n : i - 1 \in B => i \in B
  PROVE  0 .. n \subseteq B
<1> DEFINE Missing == (0 .. n) \ B
<1> SUFFICES ASSUME Missing # {} PROVE FALSE
  OBVIOUS
<1>1. Missing \in SUBSET Nat
  OBVIOUS
<1>2. PICK i \in Missing : \A j \in Missing : i <= j
  BY <1>1, LeastNatural
<1>3. i \in 1 .. n /\ i - 1 \notin Missing
  BY <1>1, <1>2
<1> QED
  BY <1>2, <1>3

(* Two functions that agree at 0 and never part again are equal.           *)
LEMMA SameTo ==
  ASSUME NEW n \in Nat, NEW f, NEW g, f[0] = g[0],
         \A i \in 1 .. n : f[i - 1] = g[i - 1] => f[i] = g[i]
  PROVE  f[n] = g[n]
<1> DEFINE B == {i \in 0 .. n : f[i] = g[i]}
<1>1. 0 .. n \subseteq B
  <2>1. 0 \in B /\ \A i \in 1 .. n : i - 1 \in B => i \in B
    OBVIOUS
  <2> HIDE DEF B
  <2> QED
    BY <2>1, UpTo
<1> QED
  BY <1>1
-------------------------------------------------------------------------------
(* The scans of a log take one event after the other.                      *)

(* f holds the surface after each of the first n events of l.              *)
SurfaceUpTo(f, l, n) ==
  f = [i \in 0 .. n |-> IF i = 0 THEN EmptySurface ELSE AddToSurface(f[i - 1], l[i])]

(* The surface of a log, event by event.                                   *)
LEMMA SurfaceRecursion ==
  ASSUME NEW l, NEW n \in Nat
  PROVE  \E f : SurfaceUpTo(f, l, n)
<1> DEFINE B == {k \in 0 .. n : \E f : SurfaceUpTo(f, l, k)}
<1>1. 0 \in B
  <2>1. SurfaceUpTo([i \in 0 .. 0 |-> EmptySurface], l, 0)
    BY DEF SurfaceUpTo
  <2> QED
    BY <2>1
<1>2. ASSUME NEW k \in 1 .. n, k - 1 \in B PROVE k \in B
  <2>1. PICK f : SurfaceUpTo(f, l, k - 1)
    BY <1>2
  <2> DEFINE g == [i \in 0 .. k |-> IF i = k THEN AddToSurface(f[k - 1], l[k]) ELSE f[i]]
  <2>2. ASSUME NEW i \in 0 .. k
        PROVE  g[i] = IF i = 0 THEN EmptySurface ELSE AddToSurface(g[i - 1], l[i])
    <3>1. CASE i = 0
      BY <2>1, <3>1 DEF SurfaceUpTo
    <3>2. CASE i = k
      BY <3>2
    <3>3. CASE i \in 1 .. k - 1
      BY <2>1, <3>3 DEF SurfaceUpTo
    <3> QED
      BY <3>1, <3>2, <3>3
  <2>3. SurfaceUpTo(g, l, k)
    BY <2>2 DEF SurfaceUpTo
  <2> QED
    BY <2>3
<1>3. 0 .. n \subseteq B
  <2> HIDE DEF B
  <2> QED
    BY <1>1, <1>2, UpTo
<1> QED
  BY <1>3

(* It is the last of these.                                                *)
LEMMA SurfaceIsUpTo ==
  ASSUME NEW l, Len(l) \in Nat
  PROVE  \E f : SurfaceUpTo(f, l, Len(l)) /\ Surface(l) = f[Len(l)]
<1> DEFINE g == CHOOSE f : SurfaceUpTo(f, l, Len(l))
<1>1. SurfaceUpTo(g, l, Len(l))
  BY SurfaceRecursion
<1>2. Surface(l) = g[Len(l)]
  BY DEF Surface, Scan, SurfaceUpTo
<1> QED
  BY <1>1, <1>2

(* One more event.                                                         *)
LEMMA SurfaceAppend ==
  ASSUME NEW S, NEW l \in Seq(S), NEW e \in S
  PROVE  Surface(Append(l, e)) = AddToSurface(Surface(l), e)
<1> DEFINE k == Append(l, e)
<1>1. Len(k) = Len(l) + 1 /\ k[Len(k)] = e /\ \A i \in 1 .. Len(l) : l[i] = k[i]
  OBVIOUS
<1>2. Len(l) \in Nat /\ Len(k) \in Nat
  BY <1>1
<1> HIDE DEF k
<1>3. PICK f : SurfaceUpTo(f, l, Len(l)) /\ Surface(l) = f[Len(l)]
  BY <1>2, SurfaceIsUpTo
<1>4. PICK g : SurfaceUpTo(g, k, Len(k)) /\ Surface(k) = g[Len(k)]
  BY <1>2, SurfaceIsUpTo
<1>5. f[Len(l)] = g[Len(l)]
  <2>1. f[0] = g[0]
    BY <1>1, <1>2, <1>3, <1>4 DEF SurfaceUpTo
  <2>2. ASSUME NEW i \in 1 .. Len(l), f[i - 1] = g[i - 1] PROVE f[i] = g[i]
    <3>1. f[i] = AddToSurface(f[i - 1], l[i])
      BY <1>2, <1>3 DEF SurfaceUpTo
    <3>2. g[i] = AddToSurface(g[i - 1], k[i])
      BY <1>1, <1>2, <1>4 DEF SurfaceUpTo
    <3> QED
      BY <1>1, <2>2, <3>1, <3>2
  <2> QED
    BY <1>2, <2>1, <2>2, SameTo
<1>6. g[Len(k)] = AddToSurface(g[Len(l)], k[Len(k)])
  BY <1>1, <1>2, <1>4 DEF SurfaceUpTo
<1> QED
  BY <1>1, <1>3, <1>4, <1>5, <1>6 DEF k

(* No event.                                                               *)
LEMMA SurfaceEmpty ==
  Surface(<< >>) = EmptySurface
<1>1. Len(<< >>) = 0
  OBVIOUS
<1>2. PICK f : SurfaceUpTo(f, << >>, 0) /\ Surface(<< >>) = f[0]
  BY <1>1, SurfaceIsUpTo
<1> QED
  BY <1>2 DEF SurfaceUpTo

(* The same for the scan of commands.                                      *)
CommandUpTo(f, l, n) ==
  f = [i \in 0 .. n |-> IF i = 0 THEN NoCommands ELSE ScanCommand(f[i - 1], l[i])]

(* The same of the scan of commands.                                       *)
LEMMA CommandRecursion ==
  ASSUME NEW l, NEW n \in Nat
  PROVE  \E f : CommandUpTo(f, l, n)
<1> DEFINE B == {k \in 0 .. n : \E f : CommandUpTo(f, l, k)}
<1>1. 0 \in B
  <2>1. CommandUpTo([i \in 0 .. 0 |-> NoCommands], l, 0)
    BY DEF CommandUpTo
  <2> QED
    BY <2>1
<1>2. ASSUME NEW k \in 1 .. n, k - 1 \in B PROVE k \in B
  <2>1. PICK f : CommandUpTo(f, l, k - 1)
    BY <1>2
  <2> DEFINE g == [i \in 0 .. k |-> IF i = k THEN ScanCommand(f[k - 1], l[k]) ELSE f[i]]
  <2>2. ASSUME NEW i \in 0 .. k
        PROVE  g[i] = IF i = 0 THEN NoCommands ELSE ScanCommand(g[i - 1], l[i])
    <3>1. CASE i = 0
      BY <2>1, <3>1 DEF CommandUpTo
    <3>2. CASE i = k
      BY <3>2
    <3>3. CASE i \in 1 .. k - 1
      BY <2>1, <3>3 DEF CommandUpTo
    <3> QED
      BY <3>1, <3>2, <3>3
  <2>3. CommandUpTo(g, l, k)
    BY <2>2 DEF CommandUpTo
  <2> QED
    BY <2>3
<1>3. 0 .. n \subseteq B
  <2> HIDE DEF B
  <2> QED
    BY <1>1, <1>2, UpTo
<1> QED
  BY <1>3

(* It is the last of these.                                                *)
LEMMA CommandIsUpTo ==
  ASSUME NEW l, Len(l) \in Nat
  PROVE  \E f : CommandUpTo(f, l, Len(l)) /\ CommandScan(l) = f[Len(l)]
<1> DEFINE g == CHOOSE f : CommandUpTo(f, l, Len(l))
<1>1. CommandUpTo(g, l, Len(l))
  BY CommandRecursion
<1>2. CommandScan(l) = g[Len(l)]
  BY DEF CommandScan, Scan, CommandUpTo
<1> QED
  BY <1>1, <1>2

(* One more event.                                                         *)
LEMMA CommandAppend ==
  ASSUME NEW S, NEW l \in Seq(S), NEW e \in S
  PROVE  CommandScan(Append(l, e)) = ScanCommand(CommandScan(l), e)
<1> DEFINE k == Append(l, e)
<1>1. Len(k) = Len(l) + 1 /\ k[Len(k)] = e /\ \A i \in 1 .. Len(l) : l[i] = k[i]
  OBVIOUS
<1>2. Len(l) \in Nat /\ Len(k) \in Nat
  BY <1>1
<1> HIDE DEF k
<1>3. PICK f : CommandUpTo(f, l, Len(l)) /\ CommandScan(l) = f[Len(l)]
  BY <1>2, CommandIsUpTo
<1>4. PICK g : CommandUpTo(g, k, Len(k)) /\ CommandScan(k) = g[Len(k)]
  BY <1>2, CommandIsUpTo
<1>5. f[Len(l)] = g[Len(l)]
  <2>1. f[0] = g[0]
    BY <1>1, <1>2, <1>3, <1>4 DEF CommandUpTo
  <2>2. ASSUME NEW i \in 1 .. Len(l), f[i - 1] = g[i - 1] PROVE f[i] = g[i]
    <3>1. f[i] = ScanCommand(f[i - 1], l[i])
      BY <1>2, <1>3 DEF CommandUpTo
    <3>2. g[i] = ScanCommand(g[i - 1], k[i])
      BY <1>1, <1>2, <1>4 DEF CommandUpTo
    <3> QED
      BY <1>1, <2>2, <3>1, <3>2
  <2> QED
    BY <1>2, <2>1, <2>2, SameTo
<1>6. g[Len(k)] = ScanCommand(g[Len(l)], k[Len(k)])
  BY <1>1, <1>2, <1>4 DEF CommandUpTo
<1> QED
  BY <1>1, <1>3, <1>4, <1>5, <1>6 DEF k

(* No event.                                                               *)
LEMMA CommandEmpty ==
  CommandScan(<< >>) = NoCommands
<1>1. Len(<< >>) = 0
  OBVIOUS
<1>2. PICK f : CommandUpTo(f, << >>, 0) /\ CommandScan(<< >>) = f[0]
  BY <1>1, CommandIsUpTo
<1> QED
  BY <1>2 DEF CommandUpTo

(* And for the scan of a turn.                                             *)
TurnUpTo(t, f, l, n) ==
  f = [i \in 0 .. n |-> IF i = 0 THEN NewTail ELSE ScanTail(t, f[i - 1], l[i])]

(* The same of the scan of a turn.                                         *)
LEMMA TurnRecursion ==
  ASSUME NEW t, NEW l, NEW n \in Nat
  PROVE  \E f : TurnUpTo(t, f, l, n)
<1> DEFINE B == {k \in 0 .. n : \E f : TurnUpTo(t, f, l, k)}
<1>1. 0 \in B
  <2>1. TurnUpTo(t, [i \in 0 .. 0 |-> NewTail], l, 0)
    BY DEF TurnUpTo
  <2> QED
    BY <2>1
<1>2. ASSUME NEW k \in 1 .. n, k - 1 \in B PROVE k \in B
  <2>1. PICK f : TurnUpTo(t, f, l, k - 1)
    BY <1>2
  <2> DEFINE g == [i \in 0 .. k |-> IF i = k THEN ScanTail(t, f[k - 1], l[k]) ELSE f[i]]
  <2>2. ASSUME NEW i \in 0 .. k
        PROVE  g[i] = IF i = 0 THEN NewTail ELSE ScanTail(t, g[i - 1], l[i])
    <3>1. CASE i = 0
      BY <2>1, <3>1 DEF TurnUpTo
    <3>2. CASE i = k
      BY <3>2
    <3>3. CASE i \in 1 .. k - 1
      BY <2>1, <3>3 DEF TurnUpTo
    <3> QED
      BY <3>1, <3>2, <3>3
  <2>3. TurnUpTo(t, g, l, k)
    BY <2>2 DEF TurnUpTo
  <2> QED
    BY <2>3
<1>3. 0 .. n \subseteq B
  <2> HIDE DEF B
  <2> QED
    BY <1>1, <1>2, UpTo
<1> QED
  BY <1>3

(* It is the last of these.                                                *)
LEMMA TurnIsUpTo ==
  ASSUME NEW t, NEW l, Len(l) \in Nat
  PROVE  \E f : TurnUpTo(t, f, l, Len(l)) /\ TurnScan(t, l) = f[Len(l)]
<1> DEFINE g == CHOOSE f : TurnUpTo(t, f, l, Len(l))
<1>1. TurnUpTo(t, g, l, Len(l))
  BY TurnRecursion
<1>2. TurnScan(t, l) = g[Len(l)]
  BY DEF TurnScan, Scan, TurnUpTo
<1> QED
  BY <1>1, <1>2

(* One more event.                                                         *)
LEMMA TurnAppend ==
  ASSUME NEW t, NEW S, NEW l \in Seq(S), NEW e \in S
  PROVE  TurnScan(t, Append(l, e)) = ScanTail(t, TurnScan(t, l), e)
<1> DEFINE k == Append(l, e)
<1>1. Len(k) = Len(l) + 1 /\ k[Len(k)] = e /\ \A i \in 1 .. Len(l) : l[i] = k[i]
  OBVIOUS
<1>2. Len(l) \in Nat /\ Len(k) \in Nat
  BY <1>1
<1> HIDE DEF k
<1>3. PICK f : TurnUpTo(t, f, l, Len(l)) /\ TurnScan(t, l) = f[Len(l)]
  BY <1>2, TurnIsUpTo
<1>4. PICK g : TurnUpTo(t, g, k, Len(k)) /\ TurnScan(t, k) = g[Len(k)]
  BY <1>2, TurnIsUpTo
<1>5. f[Len(l)] = g[Len(l)]
  <2>1. f[0] = g[0]
    BY <1>1, <1>2, <1>3, <1>4 DEF TurnUpTo
  <2>2. ASSUME NEW i \in 1 .. Len(l), f[i - 1] = g[i - 1] PROVE f[i] = g[i]
    <3>1. f[i] = ScanTail(t, f[i - 1], l[i])
      BY <1>2, <1>3 DEF TurnUpTo
    <3>2. g[i] = ScanTail(t, g[i - 1], k[i])
      BY <1>1, <1>2, <1>4 DEF TurnUpTo
    <3> QED
      BY <1>1, <2>2, <3>1, <3>2
  <2> QED
    BY <1>2, <2>1, <2>2, SameTo
<1>6. g[Len(k)] = ScanTail(t, g[Len(l)], k[Len(k)])
  BY <1>1, <1>2, <1>4 DEF TurnUpTo
<1> QED
  BY <1>1, <1>3, <1>4, <1>5, <1>6 DEF k

(* No event.                                                               *)
LEMMA TurnEmpty ==
  ASSUME NEW t PROVE TurnScan(t, << >>) = NewTail
<1>1. Len(<< >>) = 0
  OBVIOUS
<1>2. PICK f : TurnUpTo(t, f, << >>, 0) /\ TurnScan(t, << >>) = f[0]
  BY <1>1, TurnIsUpTo
<1> QED
  BY <1>2 DEF TurnUpTo
-------------------------------------------------------------------------------
(* Where the last turn ended, and what follows it.                         *)
EndOf(l) == SelectLastInSeq(l, LAMBDA e : e.type = "turn/end")
StartOf(l) == SelectInSeq(l, LAMBDA e : e.type = "turn/start")

IsEndOf(n, l) ==
  /\ n \in 0 .. Len(l)
  /\ n # 0 => l[n].type = "turn/end"
  /\ \A i \in n + 1 .. Len(l) : l[i].type # "turn/end"

IsStartOf(n, l) ==
  /\ n \in 0 .. Len(l)
  /\ n # 0 => l[n].type = "turn/start"
  /\ \A i \in 1 .. Len(l) : l[i].type = "turn/start" => n # 0 /\ n <= i

(* SelectLastInSeq finds the last end of a turn.                           *)
LEMMA EndOfIs ==
  ASSUME NEW l, Len(l) \in Nat
  PROVE  IsEndOf(EndOf(l), l)
<1> DEFINE I == {i \in 1 .. Len(l) : l[i].type = "turn/end"}
<1>1. CASE I = {}
  BY <1>1 DEF EndOf, SelectLastInSeq, IsEndOf
<1>2. CASE I # {}
  <2> DEFINE B == {Len(l) - i : i \in I}
  <2>1. B \in SUBSET Nat /\ B # {}
    BY <1>2
  <2>2. PICK n \in B : \A m \in B : n <= m
    <3> HIDE DEF B
    <3> QED
      BY <2>1, LeastNatural
  <2>3. PICK i \in I : n = Len(l) - i
    BY <2>2
  <2>4. ASSUME NEW j \in I PROVE i >= j
    <3>1. Len(l) - j \in B
      OBVIOUS
    <3>2. n <= Len(l) - j
      BY <2>2, <3>1
    <3> HIDE DEF B
    <3> QED
      BY <2>3, <3>2
  <2>5. Max(I) \in I /\ \A j \in I : Max(I) >= j
    BY <2>4 DEF Max
  <2>6. EndOf(l) = Max(I)
    BY <1>2 DEF EndOf, SelectLastInSeq
  <2>7. EndOf(l) \in I /\ \A j \in I : EndOf(l) >= j
    BY <2>5, <2>6
  <2> HIDE DEF EndOf
  <2> QED
    BY <2>7 DEF IsEndOf
<1> QED
  BY <1>1, <1>2

(* SelectInSeq finds the first start of a turn.                            *)
LEMMA StartOfIs ==
  ASSUME NEW l, Len(l) \in Nat
  PROVE  IsStartOf(StartOf(l), l)
<1> DEFINE I == {i \in 1 .. Len(l) : l[i].type = "turn/start"}
<1>1. CASE I = {}
  BY <1>1 DEF StartOf, SelectInSeq, IsStartOf
<1>2. CASE I # {}
  <2>1. I \in SUBSET Nat
    OBVIOUS
  <2>2. PICK i \in I : \A j \in I : i <= j
    BY <1>2, <2>1, LeastNatural
  <2>3. Min(I) \in I /\ \A j \in I : Min(I) <= j
    BY <2>2 DEF Min
  <2>4. StartOf(l) = Min(I)
    BY <1>2 DEF StartOf, SelectInSeq
  <2>5. StartOf(l) \in I /\ \A j \in I : StartOf(l) <= j
    BY <2>3, <2>4
  <2> HIDE DEF StartOf
  <2> QED
    BY <2>5 DEF IsStartOf
<1> QED
  BY <1>1, <1>2

(* There is one last end.                                                  *)
LEMMA OneEnd ==
  ASSUME NEW l, Len(l) \in Nat, NEW n, IsEndOf(n, l)
  PROVE  EndOf(l) = n
BY EndOfIs DEF IsEndOf

(* There is one first start.                                               *)
LEMMA OneStart ==
  ASSUME NEW l, Len(l) \in Nat, NEW n, IsStartOf(n, l)
  PROVE  StartOf(l) = n
BY StartOfIs DEF IsStartOf

(* What follows the last end of a turn.                                    *)
LEMMA SuffixIs ==
  ASSUME NEW S, NEW l \in Seq(S)
  PROVE  /\ Suffix(l) \in Seq(S)
         /\ EndOf(l) \in 0 .. Len(l)
         /\ Len(Suffix(l)) = Len(l) - EndOf(l)
         /\ \A i \in 1 .. Len(Suffix(l)) : Suffix(l)[i] = l[EndOf(l) + i]
<1>1. EndOf(l) \in 0 .. Len(l)
  BY EndOfIs DEF IsEndOf
<1>2. Suffix(l) = SubSeq(l, EndOf(l) + 1, Len(l))
  BY DEF Suffix, EndOf
<1> HIDE DEF EndOf
<1> QED
  BY <1>1, <1>2

(* One more event.                                                         *)
LEMMA SuffixAppend ==
  ASSUME NEW S, NEW l \in Seq(S), NEW e \in S
  PROVE  Suffix(Append(l, e)) = IF e.type = "turn/end" THEN << >> ELSE Append(Suffix(l), e)
<1> DEFINE k == Append(l, e)
<1>1. k \in Seq(S) /\ Len(k) = Len(l) + 1 /\ k[Len(k)] = e
      /\ \A i \in 1 .. Len(l) : k[i] = l[i]
  OBVIOUS
<1> HIDE DEF k
<1>2. CASE e.type = "turn/end"
  <2>1. IsEndOf(Len(k), k)
    BY <1>1, <1>2 DEF IsEndOf
  <2>2. EndOf(k) = Len(k)
    BY <1>1, <2>1, OneEnd
  <2>3. Suffix(k) \in Seq(S) /\ Len(Suffix(k)) = 0
    BY <1>1, <2>2, SuffixIs
  <2>4. Suffix(k) = << >>
    BY <2>3
  <2> QED
    BY <1>2, <2>4 DEF k
<1>3. CASE e.type # "turn/end"
  <2>1. IsEndOf(EndOf(l), k)
    <3>1. IsEndOf(EndOf(l), l)
      BY EndOfIs
    <3> HIDE DEF EndOf
    <3>2. ASSUME NEW i \in EndOf(l) + 1 .. Len(k) PROVE k[i].type # "turn/end"
      <4>1. i = Len(k) \/ i \in EndOf(l) + 1 .. Len(l)
        BY <1>1, <3>1 DEF IsEndOf
      <4> QED
        BY <1>1, <1>3, <3>1, <4>1 DEF IsEndOf
    <3> QED
      BY <1>1, <3>1, <3>2 DEF IsEndOf
  <2>2. EndOf(k) = EndOf(l)
    BY <1>1, <2>1, OneEnd
  <2> DEFINE s == Suffix(k)
             r == Append(Suffix(l), e)
  <2>3. /\ s \in Seq(S) /\ Len(s) = Len(l) + 1 - EndOf(l)
        /\ \A i \in 1 .. Len(s) : s[i] = k[EndOf(l) + i]
    BY <1>1, <2>2, SuffixIs
  <2>4. /\ Suffix(l) \in Seq(S) /\ EndOf(l) \in 0 .. Len(l)
        /\ Len(Suffix(l)) = Len(l) - EndOf(l)
        /\ \A i \in 1 .. Len(Suffix(l)) : Suffix(l)[i] = l[EndOf(l) + i]
    BY SuffixIs
  <2>5. r \in Seq(S) /\ Len(r) = Len(s) /\ \A i \in 1 .. Len(s) : r[i] = s[i]
    <3>1. r \in Seq(S) /\ Len(r) = Len(Suffix(l)) + 1 /\ r[Len(r)] = e
          /\ \A i \in 1 .. Len(Suffix(l)) : r[i] = Suffix(l)[i]
      BY <2>4
    <3> HIDE DEF r, s, EndOf, Suffix
    <3>2. ASSUME NEW i \in 1 .. Len(s) PROVE r[i] = s[i]
      <4>1. CASE i = Len(s)
        <5>1. i = Len(r) /\ EndOf(l) + i = Len(k)
          BY <1>1, <2>3, <2>4, <3>1, <4>1
        <5>2. s[i] = k[Len(k)]
          BY <2>3, <4>1, <5>1
        <5> QED
          BY <1>1, <3>1, <5>1, <5>2
      <4>2. CASE i \in 1 .. Len(Suffix(l))
        <5>1. EndOf(l) + i \in 1 .. Len(l)
          BY <2>4, <4>2
        <5> QED
          BY <1>1, <2>3, <2>4, <3>1, <4>2, <5>1
      <4> QED
        BY <2>3, <2>4, <4>1, <4>2
    <3> QED
      BY <2>3, <2>4, <3>1, <3>2
  <2>6. s = r
    <3> HIDE DEF s, r
    <3> QED
      BY <2>3, <2>5
  <2> QED
    BY <1>3, <2>6 DEF k
<1> QED
  BY <1>2, <1>3
-------------------------------------------------------------------------------
(* The types of what the scans keep.                                       *)
Pendings == [call : Calls, started : BOOLEAN,
             approval : {"none", "asked", "allowed-once", "rejected"}, prepared : BOOLEAN]
Tails == [ok : BOOLEAN, step : Nat, pending : Seq(Pendings)]

(* The fields of an event, by its type.                                    *)
LEMMA EventFields ==
  ASSUME NEW e \in Events
  PROVE  /\ e.turn \in Nat
         /\ e.type \notin {"command/run", "command/done"} => e.turn \in Numbers
         /\ e.type \in {"tool/call", "approval/asked", "approval/decided", "sandbox/prepared",
                        "tool/result"} => e.call \in Calls
         /\ e.type \in {"step/start", "step/end"} => e.step \in Numbers
         /\ e.type = "assistant/tool-calls" => e.calls \in Seq(Calls)
         /\ e.type = "approval/decided" => e.outcome \in {"allowed-once", "rejected"}
         /\ e.type = "compaction/summary" => e.shadowed \in Seq(Numbers)
BY DEF Events, Numbers

(* Changing what is recorded of a call leaves a list of pending calls.     *)
LEMMA SetTyped ==
  ASSUME NEW s \in Seq(Pendings), NEW u \in [DOMAIN s -> Pendings]
  PROVE  u \in Seq(Pendings)
<1>1. DOMAIN s = 1 .. Len(s) /\ Len(s) \in Nat
  OBVIOUS
<1> QED
  BY <1>1

(* So does answering it.                                                   *)
LEMMA AnswerTyped ==
  ASSUME NEW tail \in Tails, NEW c
  PROVE  Answer(tail, c) \in Seq(Pendings)
<1> DEFINE s == tail.pending
           n == SelectInSeq(s, LAMBDA p : p.call = c)
           I == {i \in 1 .. Len(s) : s[i].call = c}
<1>1. s \in Seq(Pendings) /\ Len(s) \in Nat
  BY DEF Tails
<1>2. CASE I = {}
  BY <1>1, <1>2 DEF Answer, RemoveFirstMatch
<1>3. CASE I # {}
  <2>1. PICK i \in I : \A j \in I : i <= j
    <3>1. I \in SUBSET Nat
      BY <1>1
    <3> HIDE DEF I
    <3> QED
      BY <1>3, <3>1, LeastNatural
  <2>2. n = Min(I)
    BY <1>3 DEF SelectInSeq
  <2>3. n \in I
    BY <2>1, <2>2 DEF Min
  <2>4. Answer(tail, c) = SubSeq(s, 1, n - 1) \o SubSeq(s, n + 1, Len(s))
    BY <1>3 DEF Answer, RemoveFirstMatch, RemoveAt
  <2> HIDE DEF n, s
  <2> QED
    BY <1>1, <2>3, <2>4
<1> QED
  BY <1>2, <1>3

(* A scan keeps its type.                                                  *)
LEMMA TailType ==
  ASSUME NEW t, NEW tail \in Tails, NEW e \in Events
  PROVE  ScanTail(t, tail, e) \in Tails /\ (~tail.ok => ~ScanTail(t, tail, e).ok)
<1> DEFINE Good(x) == x \in Tails /\ (~tail.ok => ~x.ok)
<1>1. Good(tail) /\ Good(Refuse(tail))
  BY DEF Tails, Refuse
<1>2. ASSUME NEW n \in Nat PROVE Good([tail EXCEPT !.step = n])
  BY DEF Tails
<1>3. ASSUME NEW s \in Seq(Pendings) PROVE Good([tail EXCEPT !.pending = s])
  BY DEF Tails
<1>4. e.type \in {"step/start", "step/end"} => e.step \in Nat
  BY EventFields DEF Numbers
<1>5. ASSUME e.type = "assistant/tool-calls"
      PROVE  [i \in DOMAIN e.calls |-> NewPending(e.calls[i])] \in Seq(Pendings)
  <2>1. e.calls \in Seq(Calls) /\ DOMAIN e.calls = 1 .. Len(e.calls) /\ Len(e.calls) \in Nat
    BY <1>5, EventFields
  <2>2. \A i \in DOMAIN e.calls : NewPending(e.calls[i]) \in Pendings
    BY <2>1 DEF NewPending, Pendings
  <2> QED
    BY <2>1, <2>2
<1>6. ASSUME NEW o \in {"allowed-once", "rejected"}
      PROVE  /\ Set(tail, e.call, LAMBDA p : [p EXCEPT !.started = TRUE]) \in Seq(Pendings)
             /\ Set(tail, e.call, LAMBDA p : [p EXCEPT !.approval = "asked", !.started = FALSE])
                  \in Seq(Pendings)
             /\ Set(tail, e.call, LAMBDA p : [p EXCEPT !.approval = o]) \in Seq(Pendings)
             /\ Set(tail, e.call, LAMBDA p : [p EXCEPT !.prepared = TRUE, !.started = TRUE])
                  \in Seq(Pendings)
  <2>1. tail.pending \in Seq(Pendings)
    BY DEF Tails
  <2>2. \A i \in DOMAIN tail.pending : tail.pending[i] \in Pendings
    BY <2>1
  <2>3. Set(tail, e.call, LAMBDA p : [p EXCEPT !.started = TRUE]) \in [DOMAIN tail.pending -> Pendings]
    BY <2>2 DEF Set, Pendings
  <2>4. Set(tail, e.call, LAMBDA p : [p EXCEPT !.approval = "asked", !.started = FALSE])
          \in [DOMAIN tail.pending -> Pendings]
    BY <2>2 DEF Set, Pendings
  <2>5. Set(tail, e.call, LAMBDA p : [p EXCEPT !.approval = o]) \in [DOMAIN tail.pending -> Pendings]
    BY <2>2 DEF Set, Pendings
  <2>6. Set(tail, e.call, LAMBDA p : [p EXCEPT !.prepared = TRUE, !.started = TRUE])
          \in [DOMAIN tail.pending -> Pendings]
    BY <2>2 DEF Set, Pendings
  <2> QED
    BY <2>1, <2>3, <2>4, <2>5, <2>6, SetTyped
<1>7. Answer(tail, e.call) \in Seq(Pendings)
  BY AnswerTyped
<1>8. e.type = "approval/decided" => e.outcome \in {"allowed-once", "rejected"}
  BY EventFields
<1>9. SUFFICES Good(ScanTail(t, tail, e))
  OBVIOUS
<1> HIDE DEF Good
<1>10. CASE Foreign(t, e)
  BY <1>1, <1>10 DEF ScanTail
<1>11. CASE ~Foreign(t, e)
  <2> USE <1>11 DEF ScanTail
  <2>2. CASE e.type = "step/start"
    BY <1>1, <1>2, <1>4, <2>2
  <2>3. CASE e.type = "assistant/tool-calls"
    BY <1>1, <1>3, <1>5, <2>3
  <2>4. CASE e.type = "tool/call"
    BY <1>1, <1>3, <1>6, <2>4
  <2>5. CASE e.type = "approval/asked"
    BY <1>1, <1>3, <1>6, <2>5
  <2>6. CASE e.type = "approval/decided"
    BY <1>1, <1>3, <1>6, <1>8, <2>6
  <2>7. CASE e.type = "sandbox/prepared"
    BY <1>1, <1>3, <1>6, <2>7
  <2>8. CASE e.type = "tool/result"
    BY <1>1, <1>3, <1>7, <2>8
  <2>9. CASE e.type = "step/end"
    BY <1>1, <1>2, <2>9
  <2>10. CASE e.type = "assistant/message"
    BY <1>1, <2>10
  <2>11. CASE e.type \in {"compaction/summary", "context-budget/decision"}
    BY <1>1, <2>11
  <2>12. CASE e.type \in {"user/message", "turn/error"}
    BY <1>1, <2>12
  <2> QED
    BY <2>2, <2>3, <2>4, <2>5, <2>6, <2>7, <2>8, <2>9, <2>10, <2>11, <2>12
       DEF Events, Foreign
<1> QED
  BY <1>10, <1>11
(* The type of what the scan of a turn finds.                              *)
LEMMA TurnScanType ==
  ASSUME NEW t, NEW l \in Seq(Events)
  PROVE  TurnScan(t, l) \in Tails
<1>1. PICK f : TurnUpTo(t, f, l, Len(l)) /\ TurnScan(t, l) = f[Len(l)]
  BY TurnIsUpTo
<1> DEFINE B == {i \in 0 .. Len(l) : f[i] \in Tails}
<1>0. Len(l) \in Nat
  OBVIOUS
<1>2. 0 \in B
  BY <1>1 DEF TurnUpTo, NewTail, Tails
<1>3. ASSUME NEW i \in 1 .. Len(l), i - 1 \in B PROVE i \in B
  <2>1. f[i] = ScanTail(t, f[i - 1], l[i])
    BY <1>1 DEF TurnUpTo
  <2>2. f[i - 1] \in Tails /\ l[i] \in Events
    BY <1>3
  <2> QED
    BY <2>1, <2>2, TailType
<1>4. 0 .. Len(l) \subseteq B
  <2> HIDE DEF B
  <2> QED
    BY <1>0, <1>2, <1>3, UpTo
<1> QED
  BY <1>1, <1>4

(* TailScan spelt out: s follows the last end of a turn, n is where a turn *)
(* starts in it.                                                           *)
Quiet(s) == \A i \in DOMAIN s : IsMaintenance(s[i])
Blocked(s, n) == \E i \in 1 .. n - 1 : ~IsMaintenance(s[i])
Before(quiet) == IF quiet THEN NewTail ELSE Refuse(NewTail)

(* A log without an open turn is refused when it is not quiet.             *)
LEMMA BeforeOk ==
  ASSUME NEW q
  PROVE  Before(q).ok <=> q
BY DEF Before, NewTail, Refuse

(* The three cases of TailScan, by the place of the first turn/start.      *)
LEMMA TailIs ==
  ASSUME NEW l, NEW s, NEW n, s = Suffix(l), n = StartOf(s)
  PROVE  /\ n = 0 => TailScan(l) = [turn |-> 0, scan |-> Before(Quiet(s))]
         /\ n # 0 /\ Blocked(s, n) => TailScan(l) = [turn |-> s[n].turn, scan |-> Refuse(NewTail)]
         /\ n # 0 /\ ~Blocked(s, n) =>
              TailScan(l) = [turn |-> s[n].turn,
                             scan |-> TurnScan(s[n].turn, SubSeq(s, n + 1, Len(s)))]
<1>1. SelectInSeq(Suffix(l), LAMBDA e : e.type = "turn/start") = n
  BY DEF StartOf
<1>2. CASE n = 0
  BY <1>1, <1>2 DEF TailScan, Before, Quiet
<1>3. CASE n # 0 /\ Blocked(s, n)
  BY <1>1, <1>3 DEF TailScan, Blocked
<1>4. CASE n # 0 /\ ~Blocked(s, n)
  BY <1>1, <1>4 DEF TailScan, Blocked
<1> QED
  BY <1>2, <1>3, <1>4

(* The type of what it finds.                                              *)
LEMMA TailScanType ==
  ASSUME NEW l \in Seq(Events)
  PROVE  TailScan(l).turn \in Nat /\ TailScan(l).scan \in Tails
<1> DEFINE s == Suffix(l)
           n == StartOf(s)
<1>1. s \in Seq(Events) /\ n \in 0 .. Len(s)
  BY SuffixIs, StartOfIs DEF IsStartOf
<1>2. NewTail \in Tails /\ Refuse(NewTail) \in Tails
  <2>1. NewTail \in Tails
    BY DEF NewTail, Tails
  <2> QED
    BY <2>1 DEF Refuse, Tails
<1>3. n # 0 => s[n].turn \in Nat
  <2> SUFFICES ASSUME n # 0 PROVE s[n].turn \in Nat
    OBVIOUS
  <2>1. s[n] \in Events
    BY <1>1
  <2> QED
    BY <2>1, EventFields
<1>4. SubSeq(s, n + 1, Len(s)) \in Seq(Events)
  <2> HIDE DEF s, n
  <2> QED
    BY <1>1
<1>5. TurnScan(s[n].turn, SubSeq(s, n + 1, Len(s))) \in Tails
  BY <1>4, TurnScanType
<1> HIDE DEF n
<1> QED
  BY <1>2, <1>3, <1>5, TailIs DEF n, Before

(* What is left of a sequence without its first events.                    *)
LEMMA RestIs ==
  ASSUME NEW S, NEW s \in Seq(S), NEW n \in 0 .. Len(s)
  PROVE  /\ SubSeq(s, n + 1, Len(s)) \in Seq(S)
         /\ Len(SubSeq(s, n + 1, Len(s))) = Len(s) - n
         /\ \A i \in 1 .. Len(SubSeq(s, n + 1, Len(s))) : SubSeq(s, n + 1, Len(s))[i] = s[n + i]
<1> DEFINE m == n + 1
           rest == SubSeq(s, m, Len(s))
<1>1. m \in 1 .. Len(s) + 1 /\ Len(s) \in Nat /\ Len(s) - m + 1 = Len(s) - n
  OBVIOUS
<1>2. /\ SubSeq(s, m, Len(s)) \in Seq(S) /\ Len(SubSeq(s, m, Len(s))) = Len(s) - m + 1
      /\ \A i \in 1 .. Len(s) - m + 1 : SubSeq(s, m, Len(s))[i] = s[m + i - 1]
  <2> HIDE DEF m
  <2> QED
    BY <1>1
<1>3. rest \in Seq(S) /\ Len(rest) = Len(s) - n
      /\ \A i \in 1 .. Len(s) - n : rest[i] = s[m + i - 1]
  BY <1>1, <1>2
<1>4. \A i \in 1 .. Len(s) - n : m + i - 1 = n + i
  BY <1>1
<1> HIDE DEF rest
<1> QED
  BY <1>3, <1>4 DEF rest

(* One more event.                                                         *)
LEMMA TailAppend ==
  ASSUME NEW l \in Seq(Events), NEW e \in Events
  PROVE  LET now == TailScan(l)
             next == TailScan(Append(l, e))
         IN  /\ e.type = "turn/end" => next = [turn |-> 0, scan |-> NewTail]
             /\ e.type = "turn/start" /\ now.turn = 0
                  => next.turn = e.turn /\ (now.scan.ok => next.scan = NewTail)
             /\ e.type \notin {"turn/start", "turn/end"} /\ now.turn = 0
                  => /\ next.turn = 0
                     /\ next.scan.ok <=> now.scan.ok /\ IsMaintenance(e)
             /\ e.type # "turn/end" /\ now.turn # 0
                  => /\ next.turn = now.turn
                     /\ now.scan.ok => next.scan = ScanTail(now.turn, now.scan, e)
             /\ e.type # "turn/end" /\ ~now.scan.ok => ~next.scan.ok
<1> DEFINE s == Suffix(l)
           n == StartOf(s)
           k == Append(l, e)
           now == TailScan(l)
           next == TailScan(k)
<1>1. s \in Seq(Events) /\ Len(s) \in Nat /\ IsStartOf(n, s) /\ n \in 0 .. Len(s)
  BY SuffixIs, StartOfIs DEF IsStartOf
<1>2. ASSUME NEW i \in 1 .. Len(s) PROVE s[i] \in Events
  BY <1>1
<1>3. n # 0 => s[n].type = "turn/start" /\ s[n].turn \in Numbers
  <2> SUFFICES ASSUME n # 0 PROVE s[n].type = "turn/start" /\ s[n].turn \in Numbers
    OBVIOUS
  <2>1. n \in 1 .. Len(s) /\ s[n].type = "turn/start"
    BY <1>1 DEF IsStartOf
  <2> HIDE DEF s, n
  <2>2. s[n] \in Events
    BY <1>2, <2>1
  <2> QED
    BY <2>1, <2>2, EventFields
<1>4. /\ n = 0 => now = [turn |-> 0, scan |-> Before(Quiet(s))]
      /\ n # 0 /\ Blocked(s, n) => now = [turn |-> s[n].turn, scan |-> Refuse(NewTail)]
      /\ n # 0 /\ ~Blocked(s, n) =>
           now = [turn |-> s[n].turn, scan |-> TurnScan(s[n].turn, SubSeq(s, n + 1, Len(s)))]
  BY TailIs
<1>5. n = 0 <=> now.turn = 0
  BY <1>3, <1>4 DEF Numbers
<1>6. CASE e.type = "turn/end"
  <2>1. Suffix(k) = << >>
    BY <1>6, SuffixAppend
  <2>2. IsStartOf(0, << >>) /\ Len(<< >>) = 0
    BY DEF IsStartOf
  <2>3. StartOf(<< >>) = 0
    BY <2>2, OneStart
  <2>4. next = [turn |-> 0, scan |-> Before(Quiet(<< >>))]
    BY <2>1, <2>3, TailIs
  <2>5. Quiet(<< >>)
    BY DEF Quiet
  <2> HIDE DEF k
  <2> QED
    BY <1>6, <2>4, <2>5 DEF Before, k
<1>7. CASE e.type # "turn/end"
  <2> DEFINE r == Append(s, e)
  <2>1. Suffix(k) = r
    BY <1>7, SuffixAppend
  <2>2. /\ r \in Seq(Events) /\ Len(r) = Len(s) + 1 /\ r[Len(r)] = e
        /\ \A i \in 1 .. Len(s) : r[i] = s[i]
    BY <1>1
  <2> HIDE DEF s, k, r
  <2>3. CASE n # 0
    <3>1. IsStartOf(n, r)
      <4>1. ASSUME NEW i \in 1 .. Len(r), r[i].type = "turn/start" PROVE n <= i
        BY <1>1, <2>2, <2>3, <4>1 DEF IsStartOf
      <4> QED
        BY <1>1, <2>2, <2>3, <4>1 DEF IsStartOf
    <3>2. StartOf(r) = n
      BY <2>2, <3>1, OneStart
    <3>3. r[n] = s[n] /\ n \in 1 .. Len(s)
      BY <1>1, <2>2, <2>3
    <3>4. Blocked(r, n) <=> Blocked(s, n)
      BY <2>2, <3>3 DEF Blocked
    <3>5. CASE Blocked(s, n)
      <4>1. next = [turn |-> s[n].turn, scan |-> Refuse(NewTail)]
        BY <2>1, <2>3, <3>2, <3>3, <3>4, <3>5, TailIs
      <4>2. now = [turn |-> s[n].turn, scan |-> Refuse(NewTail)]
        BY <1>4, <2>3, <3>5
      <4>3. ~Refuse(NewTail).ok
        BY DEF Refuse, NewTail
      <4> HIDE DEF now, next
      <4> QED
        BY <1>5, <1>7, <2>3, <4>1, <4>2, <4>3 DEF now, next, k
    <3>6. CASE ~Blocked(s, n)
      <4> DEFINE a == SubSeq(s, n + 1, Len(s))
                 b == SubSeq(r, n + 1, Len(r))
      <4>1. a \in Seq(Events) /\ b = Append(a, e)
        <5>1. a \in Seq(Events) /\ Len(a) = Len(s) - n
              /\ \A i \in 1 .. Len(a) : a[i] = s[n + i]
          <6>1. n \in 0 .. Len(s) /\ s \in Seq(Events)
            BY <1>1
          <6> HIDE DEF s, n
          <6> QED
            BY <6>1, RestIs
        <5>2. b \in Seq(Events) /\ Len(b) = Len(s) + 1 - n
              /\ \A i \in 1 .. Len(b) : b[i] = r[n + i]
          <6>1. n \in 0 .. Len(r) /\ r \in Seq(Events) /\ Len(r) - n = Len(s) + 1 - n
            BY <1>1, <2>2
          <6> HIDE DEF s, n, r
          <6> QED
            BY <6>1, RestIs
        <5> DEFINE c == Append(a, e)
        <5>3. c \in Seq(Events) /\ Len(c) = Len(a) + 1 /\ c[Len(c)] = e
              /\ \A i \in 1 .. Len(a) : c[i] = a[i]
          BY <5>1
        <5> HIDE DEF a, b, c
        <5>4. ASSUME NEW i \in 1 .. Len(b) PROVE b[i] = c[i]
          <6>1. CASE i = Len(b)
            <7>1. i = Len(c) /\ n + i = Len(r)
              BY <1>1, <2>2, <3>3, <5>1, <5>2, <5>3, <6>1
            <7> QED
              BY <2>2, <5>2, <5>3, <7>1
          <6>2. CASE i \in 1 .. Len(a)
            <7>1. n + i \in 1 .. Len(s)
              BY <1>1, <3>3, <5>1, <6>2
            <7> QED
              BY <2>2, <5>1, <5>2, <5>3, <6>2, <7>1
          <6> QED
            BY <1>1, <3>3, <5>1, <5>2, <6>1, <6>2
        <5>5. b = c
          <6>1. Len(b) = Len(c)
            BY <1>1, <3>3, <5>1, <5>2, <5>3
          <6> QED
            BY <5>2, <5>3, <5>4, <6>1
        <5> QED
          BY <5>1, <5>5 DEF c
      <4>2. next = [turn |-> s[n].turn, scan |-> TurnScan(s[n].turn, b)]
        BY <2>1, <2>3, <3>2, <3>3, <3>4, <3>6, TailIs
      <4>3. now = [turn |-> s[n].turn, scan |-> TurnScan(s[n].turn, a)]
        BY <1>4, <2>3, <3>6
      <4>4. TurnScan(s[n].turn, b) = ScanTail(s[n].turn, TurnScan(s[n].turn, a), e)
        <5> HIDE DEF a, b
        <5> QED
          BY <4>1, TurnAppend
      <4>5. TurnScan(s[n].turn, a) \in Tails
        BY <4>1, TurnScanType
      <4>6. ~now.scan.ok => ~next.scan.ok
        BY <4>2, <4>3, <4>4, <4>5, TailType
      <4>7. next.turn = now.turn /\ next.scan = ScanTail(now.turn, now.scan, e)
        BY <4>2, <4>3, <4>4
      <4>8. now.turn # 0
        BY <1>5, <2>3
      <4> HIDE DEF now, next
      <4> QED
        BY <1>7, <4>6, <4>7, <4>8 DEF now, next, k
    <3> QED
      BY <3>5, <3>6
  <2>4. CASE n = 0
    <3>1. now = [turn |-> 0, scan |-> Before(Quiet(s))]
      BY <1>4, <2>4
    <3>2. \A i \in 1 .. Len(s) : s[i].type # "turn/start"
      BY <1>1, <2>4 DEF IsStartOf
    <3>3. DOMAIN s = 1 .. Len(s) /\ DOMAIN r = 1 .. Len(r)
      BY <1>1, <2>2
    <3>4. CASE e.type = "turn/start"
      <4>1. IsStartOf(Len(r), r)
        BY <1>1, <2>2, <3>2, <3>4 DEF IsStartOf
      <4>2. StartOf(r) = Len(r)
        BY <2>2, <4>1, OneStart
      <4>3. Blocked(r, Len(r)) <=> ~Quiet(s)
        BY <1>1, <2>2, <3>3 DEF Blocked, Quiet
      <4>4. SubSeq(r, Len(r) + 1, Len(r)) = << >>
        BY <1>1, <2>2
      <4>5. TurnScan(e.turn, << >>) = NewTail
        BY TurnEmpty
      <4>6. next = [turn |-> e.turn, scan |-> Before(Quiet(s))]
        <5>1. Len(r) # 0 /\ r[Len(r)].turn = e.turn
          BY <1>1, <2>2
        <5>2. CASE Quiet(s)
          BY <2>1, <4>2, <4>3, <4>4, <4>5, <5>1, <5>2, TailIs DEF Before
        <5>3. CASE ~Quiet(s)
          BY <2>1, <4>2, <4>3, <5>1, <5>3, TailIs DEF Before
        <5> QED
          BY <5>2, <5>3
      <4>7. /\ now.scan = Before(Quiet(s)) /\ now.turn = 0
            /\ next.turn = e.turn /\ next.scan = Before(Quiet(s))
        BY <3>1, <4>6
      <4>8. now.scan.ok => Quiet(s)
        BY <4>7, BeforeOk
      <4>9. Quiet(s) => next.scan = NewTail
        BY <4>7 DEF Before
      <4> HIDE DEF now, next
      <4> QED
        BY <1>7, <3>4, <4>7, <4>8, <4>9 DEF now, next, k
    <3>5. CASE e.type # "turn/start"
      <4>1. IsStartOf(0, r)
        BY <1>1, <2>2, <3>2, <3>5 DEF IsStartOf
      <4>2. StartOf(r) = 0
        BY <2>2, <4>1, OneStart
      <4>3. next = [turn |-> 0, scan |-> Before(Quiet(r))]
        BY <2>1, <4>2, TailIs
      <4>4. Quiet(r) <=> Quiet(s) /\ IsMaintenance(e)
        BY <1>1, <2>2, <3>3 DEF Quiet
      <4>5. /\ now.scan = Before(Quiet(s)) /\ now.turn = 0
            /\ next.scan = Before(Quiet(r)) /\ next.turn = 0
        BY <3>1, <4>3
      <4>6. (now.scan.ok <=> Quiet(s)) /\ (next.scan.ok <=> Quiet(r))
        BY <4>5, BeforeOk
      <4> HIDE DEF now, next
      <4> QED
        BY <1>7, <3>5, <4>4, <4>5, <4>6 DEF now, next, k
    <3> QED
      BY <3>4, <3>5
  <2> QED
    BY <1>1, <2>3, <2>4
<1> QED
  BY <1>6, <1>7
-------------------------------------------------------------------------------
(* The invariant of a turn.                                                *)
Labels == {"idle", "down", "user", "prepare", "model", "recover", "call", "ask", "approve",
           "sandbox", "effect", "settle", "finish", "close", "catch", "end"}
Requests == [call : Calls, started : BOOLEAN]
Loops == [pc : Labels, turn : Nat, step : Nat, open : Nat, pending : Seq(Requests),
          cancelled : BOOLEAN, cause : {"none", "aborted", "failed"},
          result : {"none", "ok", "error"}]
Effects == [turn : Numbers, call : Calls]
Storages == [broken : BOOLEAN, transient : 0 .. MaxTransient, crashes : Nat]

TypeInv ==
  /\ log \in Seq(Events)
  /\ loop \in Loops
  /\ running \in BOOLEAN
  /\ effects \in SUBSET Effects
  /\ storage \in Storages

Runs(s) == s.pc \notin {"idle", "down"}
Live == Runs(loop)
Closed == {"user", "prepare", "recover", "close", "end"}
Opened == {"model", "finish", "call", "ask", "approve", "sandbox", "effect", "settle"}
Executing == {"ask", "approve", "sandbox", "effect", "settle"}
Unasked == {"user", "prepare", "model"}

(* What the locals of run say at each point.                               *)
LoopOk(s) ==
  /\ ~Runs(s) => s.turn = 0 /\ s.open = 0 /\ s.pending = << >> /\ ~s.cancelled
  /\ Runs(s) => s.turn \in Numbers /\ s.step \in Numbers
  /\ s.pc \in Closed => s.open = 0
  /\ s.pc \in Opened => s.open = s.step
  /\ s.open \in {0, s.step}
  /\ s.pending # << >> => s.open = s.step /\ s.pc \in Executing \cup {"call", "catch"}
  /\ s.pc \in Executing => s.pending # << >> /\ s.pending[1].started
  /\ s.pc = "settle" => s.result \in {"ok", "error"}
  /\ s.pc = "call" => \A i \in DOMAIN s.pending : ~s.pending[i].started
  /\ \A i \in DOMAIN s.pending : i # 1 => ~s.pending[i].started
  /\ \A i, j \in DOMAIN s.pending : s.pending[i].call = s.pending[j].call => i = j
  /\ \A i \in DOMAIN s.pending : s.pending[i].call.id[1] = s.step

(* The signal is looked at after every await, and remembered.              *)
CancelOk(s) ==
  /\ s.pc \in {"user", "finish", "close", "call", "ask"} => ~s.cancelled
  /\ s.pc = "catch" => s.cause # "none" /\ (s.cancelled => s.cause = "aborted")
  /\ s.pc = "end" => s.cause = "failed" /\ ~s.cancelled

LoopInv == LoopOk(loop)
CancelInv == CancelOk(loop)

(* What the file holds of the call that is being executed.                 *)
IsRecorded(l, t, c) == \E i \in DOMAIN l : l[i] = ToolCall(t, c)
IsAsked(l, t, c) ==
  \E i, a \in DOMAIN l : i < a /\ l[i] = ToolCall(t, c) /\ l[a] = ApprovalAsked(t, c)
IsAllowed(l, t, c) ==
  \E i, a, j \in DOMAIN l :
    /\ i < a /\ l[i] = ToolCall(t, c) /\ l[a] = ApprovalAsked(t, c)
    /\ a < j /\ l[j] = ApprovalDecided(t, c, "allowed-once")
IsPrepared(l, t, c) ==
  \E i, a, j, k \in DOMAIN l :
    /\ i < a /\ l[i] = ToolCall(t, c) /\ l[a] = ApprovalAsked(t, c)
    /\ a < j /\ l[j] = ApprovalDecided(t, c, "allowed-once")
    /\ j < k /\ l[k] = SandboxPrepared(t, c)

ApprovalInv ==
  /\ At("ask") => IsRecorded(log, loop.turn, Current)
  /\ At("approve") => IsAsked(log, loop.turn, Current)
  /\ At("sandbox") => IsAllowed(log, loop.turn, Current)
  /\ At("effect") /\ Current.kind = "guarded" => IsPrepared(log, loop.turn, Current)
  /\ \A x \in effects : x.call.kind = "guarded" => IsPrepared(log, x.turn, x.call)

(* Turns are numbered in the order they start.                             *)
Turns == Count(log, "turn/start")
NumberInv ==
  /\ Live => loop.turn = Turns
  /\ \A i \in DOMAIN log : log[i].turn <= Turns
  /\ \A x \in effects : x.turn <= Turns

(* A call of the turn in progress that has been answered, or has had an    *)
(* effect, is not ahead.                                                   *)
NextBatch == IF loop.pc \in Unasked THEN loop.step ELSE loop.step + 1
PastInv ==
  Live =>
    /\ \A i \in DOMAIN log : log[i].type = "tool/result" /\ log[i].turn = loop.turn =>
         /\ log[i].call.id[1] < NextBatch
         /\ \A k \in DOMAIN loop.pending : loop.pending[k].call # log[i].call
    /\ \A x \in effects : x.turn = loop.turn =>
         /\ x.call.id[1] < NextBatch
         /\ \A k \in DOMAIN loop.pending : loop.pending[k].call = x.call =>
              loop.pending[k].started /\ loop.pc \notin {"ask", "approve", "sandbox"}

(* What a scan of the log finds open is what the loop has open.            *)
Open == TailScan(log)
PendingNow == Open.scan.pending
OpensAs(tail, s) ==
  LET p == tail.scan.pending
  IN  /\ tail.turn = s.turn /\ tail.scan.step = s.open
      /\ DOMAIN p = DOMAIN s.pending
      /\ \A i \in DOMAIN p : p[i].call = s.pending[i].call
      /\ \A i \in DOMAIN p : ~s.pending[i].started => p[i] = NewPending(p[i].call)
      /\ s.pc = "ask" => p[1].started /\ p[1].approval = "none"
      /\ s.pc = "approve" => p[1].approval = "asked"
      /\ s.pc = "sandbox" => p[1].approval = "allowed-once"
      /\ s.pc \in {"ask", "approve", "sandbox"} => ~p[1].prepared
      /\ s.pc = "effect" => p[1].started
StartedIn(tail, done) ==
  \A x \in done : \A i \in DOMAIN tail.scan.pending :
    x.turn = tail.turn /\ x.call = tail.scan.pending[i].call => tail.scan.pending[i].started
OpenInv ==
  Open.scan.ok => (Live => OpensAs(Open, loop)) /\ StartedIn(Open, effects)

(* Without an append that failed and would have succeeded if retried,      *)
(* nothing is left open, unless the storage is broken.                     *)
One(n) == IF n = 0 THEN 0 ELSE 1
Bracketed(l) ==
  /\ TailScan(l).scan.ok
  /\ Surface(l).openTurn = TailScan(l).turn /\ Surface(l).openStep = TailScan(l).scan.step
  /\ Count(l, "turn/start") = Count(l, "turn/end") + One(TailScan(l).turn)
  /\ Count(l, "step/start") = Count(l, "step/end") + One(TailScan(l).scan.step)
CleanInv ==
  storage.transient = 0 =>
    Bracketed(log) /\ (At("idle") /\ ~storage.broken => Open.turn = 0)

(* The session adds nothing that its own scans refuse.                     *)
CommandInv == CommandScan(log).ok /\ CommandScan(log).open = 0
SurfaceInv == Surface(log).ok

(* Each batch of calls the model has been shown is followed by its         *)
(* results, then by what is pending.                                       *)
IsBatch(s, i) == i \in DOMAIN s /\ s[i].event.type = "assistant/tool-calls"
LastOf(s, i) == i + Len(s[i].event.calls)
PairedWith(s, p, t) ==
  /\ \A i \in DOMAIN s : IsBatch(s, i) =>
       /\ LastOf(s, i) <= Len(s) + Len(p)
       /\ LastOf(s, i) > Len(s) => s[i].turn = t
       /\ \A k \in DOMAIN s[i].event.calls :
            IF i + k <= Len(s)
              THEN /\ s[i + k].event.type = "tool/result"
                   /\ s[i + k].event.call = s[i].event.calls[k]
                   /\ s[i + k].turn = s[i].turn
              ELSE p[i + k - Len(s)].call = s[i].event.calls[k]
  /\ \A i \in DOMAIN s : s[i].event.type = "tool/result" =>
       \E j \in 1 .. i - 1 : IsBatch(s, j) /\ i <= LastOf(s, j)
  /\ p # << >> => \E j \in DOMAIN s : IsBatch(s, j) /\ LastOf(s, j) = Len(s) + Len(p)
PairedInv ==
  storage.transient = 0 => PairedWith(Surface(log).nodes, PendingNow, Open.turn)

TurnInv ==
  /\ TypeInv /\ LoopInv /\ CancelInv /\ ApprovalInv /\ NumberInv /\ PastInv /\ OpenInv
  /\ CleanInv /\ CommandInv /\ SurfaceInv /\ PairedInv /\ HonestResults
-------------------------------------------------------------------------------
(* The locals of run.                                                      *)
LEMMA EventTypes ==
  ASSUME NEW t \in Numbers
  PROVE  /\ {TurnStart(t), UserMessage(t), AssistantMessage(t), TurnError(t)} \subseteq Events
         /\ \A s \in Numbers : StepStart(t, s) \in Events
         /\ \A s \in Numbers, o \in {"tool_calls", "completed", "failed", "aborted", "interrupted"} :
              StepEnd(t, s, o) \in Events
         /\ \A calls \in Seq(Calls) : ToolCalls(t, calls) \in Events
         /\ \A c \in Calls : {ToolCall(t, c), ApprovalAsked(t, c), SandboxPrepared(t, c)} \subseteq Events
         /\ \A c \in Calls, o \in {"allowed-once", "rejected"} : ApprovalDecided(t, c, o) \in Events
         /\ \A c \in Calls, o \in {"ok", "error", "not-started", "outcome-unknown",
                     "cancelled-before-start", "cancelled-outcome-unknown",
                     "failed-before-start", "failed-outcome-unknown"} :
              ToolResult(t, c, o) \in Events
         /\ \A o \in {"completed", "failed", "aborted", "interrupted"} : TurnEnd(t, o) \in Events
<1>1. {TurnStart(t), UserMessage(t), AssistantMessage(t), TurnError(t)} \subseteq Events
  BY DEF Events, TurnStart, UserMessage, AssistantMessage, TurnError
<1>2. \A s \in Numbers : StepStart(t, s) \in Events
  BY DEF Events, StepStart
<1>3. \A s \in Numbers, o \in {"tool_calls", "completed", "failed", "aborted", "interrupted"} :
        StepEnd(t, s, o) \in Events
  BY DEF Events, StepEnd
<1>4. \A calls \in Seq(Calls) : ToolCalls(t, calls) \in Events
  BY DEF Events, ToolCalls
<1>5. \A c \in Calls : {ToolCall(t, c), ApprovalAsked(t, c), SandboxPrepared(t, c)} \subseteq Events
  BY DEF Events, ToolCall, ApprovalAsked, SandboxPrepared
<1>6. \A c \in Calls, o \in {"allowed-once", "rejected"} : ApprovalDecided(t, c, o) \in Events
  BY DEF Events, ApprovalDecided
<1>7. \A c \in Calls, o \in {"ok", "error", "not-started", "outcome-unknown",
                     "cancelled-before-start", "cancelled-outcome-unknown",
                     "failed-before-start", "failed-outcome-unknown"} :
        ToolResult(t, c, o) \in Events
  BY DEF Events, ToolResult
<1>8. \A o \in {"completed", "failed", "aborted", "interrupted"} : TurnEnd(t, o) \in Events
  BY DEF Events, TurnEnd
<1> QED
  BY <1>1, <1>2, <1>3, <1>4, <1>5, <1>6, <1>7, <1>8

(* A count is a number.                                                    *)
LEMMA CountType ==
  ASSUME NEW l \in Seq(Events), NEW type
  PROVE  Count(l, type) \in Nat
<1>1. DOMAIN l = 1 .. Len(l) /\ Len(l) \in Nat
  OBVIOUS
<1>2. IsFiniteSet(1 .. Len(l))
  BY <1>1, FS_Interval
<1>3. IsFiniteSet({i \in DOMAIN l : l[i].type = type})
  BY <1>1, <1>2, FS_Subset
<1> QED
  BY <1>3, FS_CardinalityType DEF Count

(* One more event is counted under its type.                               *)
LEMMA CountAppend ==
  ASSUME NEW l \in Seq(Events), NEW e \in Events, NEW type
  PROVE  Count(Append(l, e), type) = Count(l, type) + (IF e.type = type THEN 1 ELSE 0)
<1> DEFINE k == Append(l, e)
           A == {i \in DOMAIN l : l[i].type = type}
           B == {i \in DOMAIN k : k[i].type = type}
<1>1. /\ DOMAIN l = 1 .. Len(l) /\ Len(l) \in Nat /\ DOMAIN k = 1 .. Len(l) + 1
      /\ k[Len(l) + 1] = e /\ \A i \in 1 .. Len(l) : k[i] = l[i]
  OBVIOUS
<1>2. IsFiniteSet(A)
  <2>1. IsFiniteSet(1 .. Len(l))
    BY <1>1, FS_Interval
  <2> QED
    BY <1>1, <2>1, FS_Subset
<1>3. Count(l, type) = Cardinality(A) /\ Count(k, type) = Cardinality(B) /\ Count(l, type) \in Nat
  BY CountType DEF Count
<1> HIDE DEF k
<1>4. CASE e.type = type
  <2>1. B = A \cup {Len(l) + 1} /\ Len(l) + 1 \notin A
    BY <1>1, <1>4
  <2> HIDE DEF A, B
  <2>2. Cardinality(B) = Cardinality(A) + 1
    BY <1>2, <2>1, FS_AddElement
  <2> QED
    BY <1>3, <1>4, <2>2 DEF k
<1>5. CASE e.type # type
  <2>1. B = A
    BY <1>1, <1>5
  <2> HIDE DEF A, B
  <2> QED
    BY <1>3, <1>5, <2>1 DEF k
<1> QED
  BY <1>4, <1>5

(* An append that fails keeps the types.                                   *)
LEMMA AppendType ==
  ASSUME TypeInv, NEW e \in Events, NEW s \in Loops, NEW f \in Loops, AppendOr(e, s, f)
  PROVE  log' \in Seq(Events) /\ loop' \in Loops /\ storage' \in Storages
<1>1. log' \in Seq(Events)
  BY DEF TypeInv, AppendOr
<1>2. loop' \in Loops
  BY DEF AppendOr
<1>3. storage' \in Storages
  <2>1. \/ storage' = storage
        \/ storage.transient < MaxTransient /\ storage' = [storage EXCEPT !.transient = @ + 1]
        \/ storage' = [storage EXCEPT !.broken = TRUE]
    BY DEF AppendOr
  <2>2. storage \in Storages /\ storage.transient \in Nat
    BY BoundAssumption DEF TypeInv, Storages
  <2>3. storage.transient < MaxTransient =>
          [storage EXCEPT !.transient = storage.transient + 1] \in Storages
    BY <2>2, BoundAssumption DEF Storages
  <2>4. [storage EXCEPT !.broken = TRUE] \in Storages
    BY <2>2 DEF Storages
  <2> QED
    BY <2>1, <2>2, <2>3, <2>4
<1> QED
  BY <1>1, <1>2, <1>3

Good(s) == s \in Loops /\ LoopOk(s) /\ CancelOk(s)

(* Both outcomes of an append keep a good state of the loop.               *)
LEMMA AppendGood ==
  ASSUME TypeInv, NEW e \in Events, NEW s, NEW f, Good(s), Good(f), AppendOr(e, s, f)
  PROVE  log' \in Seq(Events) /\ storage' \in Storages /\ Good(loop')
<1>1. s \in Loops /\ f \in Loops
  BY DEF Good
<1>2. loop' = s \/ loop' = f
  BY DEF AppendOr
<1> QED
  BY <1>1, <1>2, AppendType

(* A loop that does not run is good.                                       *)
LEMMA IdleGood == Good(Idle) /\ Good([Idle EXCEPT !.pc = "down"])
<1> DEFINE down == [Idle EXCEPT !.pc = "down"]
<1>1. << >> \in Seq(Requests)
  OBVIOUS
<1>2. Idle \in Loops /\ down \in Loops
  BY <1>1 DEF Idle, Loops, Labels
<1>3. LoopOk(Idle) /\ LoopOk(down)
  BY DEF Idle, LoopOk, Runs, Closed, Opened, Executing
<1>4. CancelOk(Idle) /\ CancelOk(down)
  BY DEF Idle, CancelOk
<1> QED
  BY <1>2, <1>3, <1>4 DEF Good

(* So is one that has thrown.                                              *)
LEMMA CaughtGood ==
  ASSUME Good(loop), Live
  PROVE  Good(Caught)
<1>1. Caught \in Loops
  BY DEF Good, Loops, Labels, Caught
<1>2. LoopOk(Caught)
  BY DEF Good, Loops, LoopOk, Caught, Live, Runs, Closed, Opened, Executing
<1>3. CancelOk(Caught)
  BY DEF Good, Loops, CancelOk, Caught
<1> QED
  BY <1>1, <1>2, <1>3 DEF Good

(* So is one whose call has returned.                                      *)
LEMMA SettleGood ==
  ASSUME Good(loop), loop.pc \in Executing, NEW r \in {"ok", "error"}
  PROVE  Good(Settle(r))
<1>1. Settle(r) \in Loops
  BY DEF Good, Loops, Labels, Settle
<1>2. LoopOk(Settle(r))
  BY DEF Good, Loops, LoopOk, Settle, Runs, Closed, Opened, Executing
<1>3. CancelOk(Settle(r))
  BY DEF Good, Loops, CancelOk, Settle
<1> QED
  BY <1>1, <1>2, <1>3 DEF Good

(* The next point of the same step.                                        *)
LEMMA GotoGood ==
  ASSUME Good(loop), NEW from, NEW to, loop.pc = from,
         \/ from = "user" /\ to = "prepare"
         \/ from = "model" /\ to = "finish" /\ ~loop.cancelled
         \/ from = "ask" /\ to = "approve"
         \/ from = "approve" /\ to = "sandbox"
         \/ from = "sandbox" /\ to = "effect"
         \/ from = "catch" /\ to = "end" /\ loop.open = 0 /\ loop.pending = << >>
                           /\ loop.cause = "failed"
  PROVE  Good(Goto(to))
<1>1. Goto(to) \in Loops
  BY DEF Good, Loops, Labels, Goto
<1>2. LoopOk(Goto(to))
  BY DEF Good, Loops, LoopOk, Goto, Runs, Closed, Opened, Executing
<1>3. CancelOk(Goto(to))
  BY DEF Good, Loops, CancelOk, Goto
<1> QED
  BY <1>1, <1>2, <1>3 DEF Good

(* So is one that goes on with the next step.                              *)
LEMMA NextStepGood ==
  ASSUME Good(loop), loop.pending = << >>, loop.pc \in {"recover", "call"}
  PROVE  Good(NextStep([loop EXCEPT !.open = 0])) /\ (loop.open = 0 => Good(NextStep(loop)))
<1>1. loop \in Loops /\ loop.step \in Nat /\ loop.step + 1 \in Numbers
  BY DEF Good, Loops, Numbers
<1>2. loop.turn \in Numbers
  BY DEF Good, LoopOk, Runs
<1> DEFINE a == [[loop EXCEPT !.open = 0] EXCEPT !.pc = "prepare", !.step = @ + 1]
           b == [[loop EXCEPT !.open = 0] EXCEPT !.pc = "catch", !.cause = Caught.cause]
           c == [loop EXCEPT !.pc = "prepare", !.step = @ + 1]
           d == [loop EXCEPT !.pc = "catch", !.cause = Caught.cause]
<1>3. Caught.cause = IF loop.cancelled THEN "aborted" ELSE "failed"
  BY <1>1 DEF Caught, Loops
<1>4. Good(a)
  <2>1. a \in Loops
    BY <1>1 DEF Loops, Labels, Numbers
  <2>2. LoopOk(a)
    BY <1>1, <1>2 DEF Loops, LoopOk, Runs, Closed, Opened, Executing, Numbers
  <2>3. CancelOk(a)
    BY <1>1 DEF Loops, CancelOk
  <2> QED
    BY <2>1, <2>2, <2>3 DEF Good
<1>5. Good(b)
  <2>1. b \in Loops
    BY <1>1, <1>3 DEF Loops, Labels, Numbers
  <2>2. LoopOk(b)
    BY <1>1, <1>2, <1>3 DEF Good, Loops, LoopOk, Runs, Closed, Opened, Executing, Numbers
  <2>3. CancelOk(b)
    BY <1>1, <1>3 DEF Loops, CancelOk
  <2> QED
    BY <2>1, <2>2, <2>3 DEF Good
<1>6. loop.open = 0 => Good(c)
  <2> SUFFICES ASSUME loop.open = 0 PROVE Good(c)
    OBVIOUS
  <2>1. c \in Loops
    BY <1>1 DEF Loops, Labels, Numbers
  <2>2. LoopOk(c)
    BY <1>1, <1>2 DEF Loops, LoopOk, Runs, Closed, Opened, Executing, Numbers
  <2>3. CancelOk(c)
    BY <1>1 DEF Loops, CancelOk
  <2> QED
    BY <2>1, <2>2, <2>3 DEF Good
<1>7. loop.open = 0 => Good(d)
  <2> SUFFICES ASSUME loop.open = 0 PROVE Good(d)
    OBVIOUS
  <2>1. d \in Loops
    BY <1>1, <1>3 DEF Loops, Labels, Numbers
  <2>2. LoopOk(d)
    BY <1>1, <1>2, <1>3 DEF Good, Loops, LoopOk, Runs, Closed, Opened, Executing, Numbers
  <2>3. CancelOk(d)
    BY <1>1, <1>3 DEF Loops, CancelOk
  <2> QED
    BY <2>1, <2>2, <2>3 DEF Good
<1>8. [loop EXCEPT !.open = 0].step = loop.step
  BY <1>1 DEF Loops
<1> QED
  BY <1>4, <1>5, <1>6, <1>7, <1>8 DEF NextStep

(* The call being executed.                                                *)
LEMMA CurrentType ==
  ASSUME loop \in Loops, loop.pending # << >>
  PROVE  /\ Current \in Calls /\ Current = loop.pending[1].call
         /\ Len(loop.pending) \in Nat \ {0} /\ DOMAIN loop.pending = 1 .. Len(loop.pending)
         /\ \A i \in DOMAIN loop.pending : loop.pending[i] \in Requests
<1>1. loop.pending \in Seq(Requests)
  BY DEF Loops
<1>2. /\ Len(loop.pending) \in Nat \ {0} /\ DOMAIN loop.pending = 1 .. Len(loop.pending)
      /\ Head(loop.pending) = loop.pending[1]
      /\ \A i \in DOMAIN loop.pending : loop.pending[i] \in Requests
  BY <1>1
<1> QED
  BY <1>2 DEF Current, Requests

(* The batch a model may answer with.                                      *)
LEMMA BatchType ==
  ASSUME NEW batch \in Batches, loop.step \in Numbers
  PROVE  /\ BatchCalls(batch) \in Seq(Calls) /\ BatchCalls(batch) # << >>
         /\ \A k \in DOMAIN BatchCalls(batch) : BatchCalls(batch)[k].id = <<loop.step, k>>
         /\ IsInjective(BatchCalls(batch))
<1> DEFINE n == Len(batch)
           b == BatchCalls(batch)
<1>1. /\ batch \in Seq({"local", "guarded", "unknown"}) /\ n \in Nat \ {0}
      /\ DOMAIN batch = 1 .. n
      /\ \A k \in 1 .. n : batch[k] \in {"local", "guarded", "unknown"}
  BY BatchAssumption
<1>2. b = [k \in 1 .. n |-> [id |-> <<loop.step, k>>, kind |-> batch[k]]]
  BY <1>1 DEF BatchCalls
<1> HIDE DEF b, n
<1>3. \A k \in 1 .. n : [id |-> <<loop.step, k>>, kind |-> batch[k]] \in Calls
  BY <1>1 DEF Calls, Numbers
<1>4. b \in Seq(Calls) /\ Len(b) = n /\ DOMAIN b = 1 .. n
  BY <1>1, <1>2, <1>3
<1>5. \A k \in 1 .. n : b[k].id = <<loop.step, k>>
  BY <1>2
<1>6. IsInjective(b)
  BY <1>4, <1>5 DEF IsInjective
<1> QED
  BY <1>1, <1>4, <1>5, <1>6 DEF b

Ask1(batch) ==
  [loop EXCEPT !.pc = "call",
     !.pending = [k \in DOMAIN BatchCalls(batch) |->
                    [call |-> BatchCalls(batch)[k], started |-> FALSE]]]

(* The batch a model answers with becomes the pending calls.               *)
LEMMA BatchGood ==
  ASSUME Good(loop), At("model"), ~loop.cancelled, NEW batch \in Batches
  PROVE  /\ Good(Ask1(batch))
         /\ Ask1(batch).pending = [k \in DOMAIN BatchCalls(batch) |->
                                     [call |-> BatchCalls(batch)[k], started |-> FALSE]]
<1> DEFINE b == BatchCalls(batch)
           p == [k \in DOMAIN b |-> [call |-> b[k], started |-> FALSE]]
           s == [loop EXCEPT !.pc = "call", !.pending = p]
<1>1. loop \in Loops /\ loop.turn \in Numbers /\ loop.step \in Numbers /\ loop.open = loop.step
      /\ loop.pc = "model"
  BY DEF Good, LoopOk, Runs, At, Opened
<1>2. /\ b \in Seq(Calls) /\ b # << >> /\ DOMAIN b = 1 .. Len(b) /\ Len(b) \in Nat
      /\ \A k \in DOMAIN b : b[k].id = <<loop.step, k>> /\ b[k] \in Calls
  BY <1>1, BatchType
<1> HIDE DEF b
<1>3. p \in Seq(Requests) /\ DOMAIN p = DOMAIN b
      /\ \A k \in DOMAIN p : p[k].call = b[k] /\ ~p[k].started
  <2>1. \A k \in 1 .. Len(b) : [call |-> b[k], started |-> FALSE] \in Requests
    BY <1>2 DEF Requests
  <2> QED
    BY <1>2, <2>1
<1> HIDE DEF p
<1>4. s \in Loops /\ s.pending = p /\ s.pc = "call" /\ s.open = loop.open /\ s.step = loop.step
      /\ s.turn = loop.turn /\ s.cancelled = loop.cancelled
  BY <1>1, <1>3 DEF Loops, Labels
<1>5. \A i, j \in DOMAIN p : p[i].call = p[j].call => i = j
  BY <1>2, <1>3
<1>6. \A i \in DOMAIN p : p[i].call.id[1] = loop.step
  BY <1>2, <1>3
<1> HIDE DEF s
<1>7. LoopOk(s)
  BY <1>1, <1>3, <1>4, <1>5, <1>6 DEF LoopOk, Runs, Closed, Opened, Executing
<1>8. CancelOk(s)
  BY <1>1, <1>4 DEF CancelOk
<1>9. s = Ask1(batch)
  BY DEF s, p, b, Ask1
<1> QED
  BY <1>4, <1>7, <1>8, <1>9 DEF Good, p, b

(* The first call of the batch begins.                                     *)
LEMMA StartedGood ==
  ASSUME Good(loop), At("call"), loop.pending # << >>,
         NEW s \in {Settle("error"), Goto("effect"), Goto("ask")}
  PROVE  /\ Good(Started(s))
         /\ Started(s).pending = [loop.pending EXCEPT ![1].started = TRUE]
<1>1. loop \in Loops /\ loop.turn \in Numbers /\ loop.step \in Numbers /\ loop.open = loop.step
      /\ ~loop.cancelled /\ loop.pc = "call"
  BY DEF Good, LoopOk, CancelOk, Runs, At, Opened
<1> DEFINE p == loop.pending
           q == [p EXCEPT ![1].started = TRUE]
<1>2. /\ DOMAIN p = 1 .. Len(p) /\ Len(p) \in Nat \ {0} /\ p \in Seq(Requests)
      /\ \A i \in DOMAIN p : p[i] \in Requests
  BY <1>1, CurrentType DEF Loops
<1>3. /\ q \in Seq(Requests) /\ DOMAIN q = DOMAIN p
      /\ \A i \in DOMAIN p : q[i].call = p[i].call /\ (i # 1 => q[i] = p[i])
      /\ q[1].started
  <2>1. q[1] = [p[1] EXCEPT !.started = TRUE] /\ DOMAIN q = DOMAIN p
        /\ \A i \in DOMAIN p : i # 1 => q[i] = p[i]
    BY <1>2
  <2>2. p[1] \in Requests
    BY <1>2
  <2>3. q[1] \in Requests /\ q[1].call = p[1].call /\ q[1].started
    <3> HIDE DEF p, q
    <3> QED
      BY <2>1, <2>2 DEF Requests
  <2>4. \A i \in 1 .. Len(p) : q[i] \in Requests
    BY <1>2, <2>1, <2>3
  <2>5. q \in [1 .. Len(p) -> Requests]
    BY <1>2, <2>1, <2>4
  <2> QED
    BY <1>2, <2>1, <2>3, <2>5
<1>4. s \in Loops /\ s.pending = p /\ s.open = loop.open /\ s.step = loop.step
      /\ s.turn = loop.turn /\ s.cancelled = loop.cancelled /\ s.pc \in {"settle", "effect", "ask"}
      /\ (s.pc = "settle" => s.result = "error")
  BY <1>1 DEF Loops, Labels, Settle, Goto
<1> DEFINE u == [s EXCEPT !.pending[1].started = TRUE]
<1>5. u \in Loops /\ u.pending = q /\ u.open = loop.open /\ u.step = loop.step
      /\ u.turn = loop.turn /\ u.cancelled = loop.cancelled /\ u.pc \in {"settle", "effect", "ask"}
      /\ (u.pc = "settle" => u.result = "error")
  <2>1. u = [s EXCEPT !.pending = [s.pending EXCEPT ![1].started = TRUE]]
    OBVIOUS
  <2>2. u = [s EXCEPT !.pending = q]
    BY <1>4, <2>1
  <2> HIDE DEF u, q, p
  <2> QED
    BY <1>3, <1>4, <2>2 DEF Loops
<1>6. /\ \A i \in DOMAIN p : i # 1 => ~p[i].started
      /\ \A i, j \in DOMAIN p : p[i].call = p[j].call => i = j
      /\ \A i \in DOMAIN p : p[i].call.id[1] = loop.step
  BY DEF Good, LoopOk
<1> HIDE DEF u, q, p
<1>7. LoopOk(u)
  <2>1. /\ u.pending # << >> /\ u.pending[1].started
        /\ \A i \in DOMAIN u.pending : i # 1 => ~u.pending[i].started
        /\ \A i, j \in DOMAIN u.pending : u.pending[i].call = u.pending[j].call => i = j
        /\ \A i \in DOMAIN u.pending : u.pending[i].call.id[1] = u.step
    BY <1>2, <1>3, <1>5, <1>6
  <2> QED
    BY <1>1, <1>5, <2>1 DEF LoopOk, Runs, Closed, Opened, Executing
<1>8. CancelOk(u)
  BY <1>1, <1>5 DEF CancelOk
<1>9. Started(s) = u
  BY DEF Started, u
<1> QED
  BY <1>5, <1>7, <1>8, <1>9 DEF Good, q, p

(* The first call of the batch is answered.                                *)
LEMMA AnsweredGood ==
  ASSUME Good(loop), loop.pending # << >>,
         NEW s, \/ loop.pc = "settle" /\ ~loop.cancelled
                   /\ s = [loop EXCEPT !.pc = "call", !.pending = Tail(@)]
                \/ loop.pc = "catch" /\ s = [loop EXCEPT !.pending = Tail(@)]
  PROVE  Good(s) /\ s.pending = Tail(loop.pending)
<1>1. loop \in Loops /\ loop.turn \in Numbers /\ loop.step \in Numbers /\ loop.open = loop.step
  BY DEF Good, LoopOk, Runs
<1> DEFINE p == loop.pending
           q == Tail(p)
<1>2. /\ DOMAIN p = 1 .. Len(p) /\ Len(p) \in Nat \ {0} /\ p \in Seq(Requests)
  BY <1>1, CurrentType DEF Loops
<1>3. /\ q \in Seq(Requests) /\ DOMAIN q = 1 .. Len(p) - 1
      /\ \A i \in DOMAIN q : i + 1 \in DOMAIN p /\ q[i] = p[i + 1]
  BY <1>2
<1>4. s \in Loops /\ s.pending = q /\ s.open = loop.open /\ s.step = loop.step
      /\ s.turn = loop.turn /\ s.cancelled = loop.cancelled /\ s.cause = loop.cause
      /\ s.pc = IF loop.pc = "settle" THEN "call" ELSE "catch"
  <2> HIDE DEF q
  <2> QED
    BY <1>1, <1>3 DEF Loops, Labels, q
<1>5. /\ \A i \in DOMAIN p : i # 1 => ~p[i].started
      /\ \A i, j \in DOMAIN p : p[i].call = p[j].call => i = j
      /\ \A i \in DOMAIN p : p[i].call.id[1] = loop.step
  BY DEF Good, LoopOk
<1> HIDE DEF q, p
<1>6. /\ \A i \in DOMAIN q : ~q[i].started
      /\ \A i, j \in DOMAIN q : q[i].call = q[j].call => i = j
      /\ \A i \in DOMAIN q : q[i].call.id[1] = loop.step
  <2>1. \A i \in DOMAIN q : i \in Nat \ {0} /\ i + 1 # 1
    BY <1>2, <1>3
  <2>2. \A i, j \in DOMAIN q : i + 1 = j + 1 => i = j
    BY <1>2, <1>3
  <2> QED
    BY <1>3, <1>5, <2>1, <2>2
<1>7. LoopOk(s)
  BY <1>1, <1>4, <1>6 DEF LoopOk, Runs, Closed, Opened, Executing
<1>8. CancelOk(s)
  BY <1>4 DEF CancelOk, Good
<1> QED
  BY <1>4, <1>7, <1>8 DEF Good, q, p

(* What else the loop becomes.                                             *)
LEMMA OtherGood ==
  ASSUME Good(loop)
  PROVE  /\ loop.pc = "prepare" => Good([loop EXCEPT !.pc = "model", !.open = loop.step])
         /\ loop.pc = "finish" => Good([loop EXCEPT !.pc = "close", !.open = 0])
         /\ loop.pc = "model" => Good([loop EXCEPT !.pc = "recover", !.open = 0])
         /\ loop.pc = "model" => Good([loop EXCEPT !.pc = "catch", !.cause = "aborted"])
         /\ loop.pc = "catch" /\ loop.pending = << >> => Good([loop EXCEPT !.open = 0])
         /\ loop.pc \in Awaiting \ {"idle", "down"} => Good([loop EXCEPT !.cancelled = TRUE])
         /\ \A t \in Numbers :
              Good([Idle EXCEPT !.pc = "user", !.turn = t, !.step = 1])
<1> DEFINE a == [loop EXCEPT !.pc = "model", !.open = loop.step]
           b == [loop EXCEPT !.pc = "close", !.open = 0]
           c == [loop EXCEPT !.pc = "recover", !.open = 0]
           d == [loop EXCEPT !.pc = "catch", !.cause = "aborted"]
           e == [loop EXCEPT !.open = 0]
           f == [loop EXCEPT !.cancelled = TRUE]
<1>1. loop \in Loops /\ LoopOk(loop) /\ CancelOk(loop)
  BY DEF Good
<1>2. loop.pc = "prepare" => Good(a)
  <2> SUFFICES ASSUME loop.pc = "prepare" PROVE Good(a)
    OBVIOUS
  <2>1. a \in Loops
    BY <1>1 DEF Loops, Labels
  <2>2. LoopOk(a)
    BY <1>1 DEF LoopOk, Loops, Runs, Closed, Opened, Executing
  <2>3. CancelOk(a)
    BY <1>1 DEF CancelOk, Loops
  <2> QED
    BY <2>1, <2>2, <2>3 DEF Good
<1>3. loop.pc = "finish" => Good(b)
  <2> SUFFICES ASSUME loop.pc = "finish" PROVE Good(b)
    OBVIOUS
  <2>1. b \in Loops
    BY <1>1 DEF Loops, Labels
  <2>2. LoopOk(b)
    BY <1>1 DEF LoopOk, Loops, Runs, Closed, Opened, Executing
  <2>3. CancelOk(b)
    BY <1>1 DEF CancelOk, Loops
  <2> QED
    BY <2>1, <2>2, <2>3 DEF Good
<1>4. loop.pc = "model" => Good(c)
  <2> SUFFICES ASSUME loop.pc = "model" PROVE Good(c)
    OBVIOUS
  <2>1. c \in Loops
    BY <1>1 DEF Loops, Labels
  <2>2. LoopOk(c)
    BY <1>1 DEF LoopOk, Loops, Runs, Closed, Opened, Executing
  <2>3. CancelOk(c)
    BY <1>1 DEF CancelOk, Loops
  <2> QED
    BY <2>1, <2>2, <2>3 DEF Good
<1>5. loop.pc = "model" => Good(d)
  <2> SUFFICES ASSUME loop.pc = "model" PROVE Good(d)
    OBVIOUS
  <2>1. d \in Loops
    BY <1>1 DEF Loops, Labels
  <2>2. LoopOk(d)
    BY <1>1 DEF LoopOk, Loops, Runs, Closed, Opened, Executing
  <2>3. CancelOk(d)
    BY <1>1 DEF CancelOk, Loops
  <2> QED
    BY <2>1, <2>2, <2>3 DEF Good
<1>6. loop.pc = "catch" /\ loop.pending = << >> => Good(e)
  <2> SUFFICES ASSUME loop.pc = "catch", loop.pending = << >> PROVE Good(e)
    OBVIOUS
  <2>1. e \in Loops
    BY <1>1 DEF Loops, Labels
  <2>2. LoopOk(e)
    BY <1>1 DEF LoopOk, Loops, Runs, Closed, Opened, Executing
  <2>3. CancelOk(e)
    BY <1>1 DEF CancelOk, Loops
  <2> QED
    BY <2>1, <2>2, <2>3 DEF Good
<1>7. loop.pc \in Awaiting \ {"idle", "down"} => Good(f)
  <2> SUFFICES ASSUME loop.pc \in Awaiting \ {"idle", "down"} PROVE Good(f)
    OBVIOUS
  <2>1. f \in Loops
    BY <1>1 DEF Loops, Labels
  <2>2. LoopOk(f)
    BY <1>1 DEF LoopOk, Loops, Runs, Closed, Opened, Executing, Awaiting
  <2>3. CancelOk(f)
    BY <1>1 DEF CancelOk, Loops, Awaiting
  <2> QED
    BY <2>1, <2>2, <2>3 DEF Good
<1>8. ASSUME NEW t \in Numbers
      PROVE  Good([Idle EXCEPT !.pc = "user", !.turn = t, !.step = 1])
  <2> DEFINE g == [Idle EXCEPT !.pc = "user", !.turn = t, !.step = 1]
  <2>1. g \in Loops
    BY IdleGood DEF Good, Loops, Labels, Numbers
  <2>2. LoopOk(g)
    BY DEF LoopOk, Idle, Runs, Closed, Opened, Executing, Numbers
  <2>3. CancelOk(g)
    BY DEF CancelOk, Idle
  <2> QED
    BY <2>1, <2>2, <2>3 DEF Good
<1> QED
  BY <1>2, <1>3, <1>4, <1>5, <1>6, <1>7, <1>8

(* The outcome the catch block writes is none of a call that succeeded.    *)
LEMMA CaughtResultType ==
  ASSUME NEW p
  PROVE  CaughtResult(p) \in {"cancelled-outcome-unknown", "cancelled-before-start",
                              "failed-outcome-unknown", "failed-before-start"}
         /\ (CaughtResult(p) \in NeverStarted => ~p.started)
BY DEF CaughtResult, NeverStarted

(* What an append of the loop leaves behind.                               *)
Fine == log' \in Seq(Events) /\ storage' \in Storages /\ Good(loop')

(* Every step of the loop keeps it good.                                   *)
LEMMA LoopSteps ==
  ASSUME TypeInv, LoopInv, CancelInv, LoopStep
  PROVE  Fine
<1>1. /\ Good(loop) /\ loop \in Loops /\ Good(Idle)
      /\ log \in Seq(Events) /\ storage \in Storages
  BY IdleGood DEF TypeInv, LoopInv, CancelInv, Good
<1>2. ASSUME Live PROVE loop.turn \in Numbers /\ loop.step \in Numbers /\ Good(Caught)
  BY <1>1, <1>2, CaughtGood DEF Live, Good, LoopOk
<1>3. ASSUME loop.pending # << >> PROVE Current \in Calls
  BY <1>1, <1>3, CurrentType
<1>4. ASSUME loop.pc \in Executing
      PROVE  loop.pending # << >> /\ \A r \in {"ok", "error"} : Good(Settle(r))
  BY <1>1, <1>4, SettleGood DEF Good, LoopOk
<1> USE DEF At
<1>5. CASE RunUser
  <2>1. Live /\ UserMessage(loop.turn) \in Events
    BY <1>2, <1>5, EventTypes DEF RunUser, Live, Runs
  <2>2. Good(Goto("prepare"))
    BY <1>1, <1>5, GotoGood DEF RunUser
  <2> QED
    BY <1>1, <1>5, <2>1, <2>2, AppendGood DEF RunUser, Fine
<1>6. CASE BeginStep
  <2>1. Live /\ StepStart(loop.turn, loop.step) \in Events
    BY <1>2, <1>6, EventTypes DEF BeginStep, Live, Runs
  <2> QED
    BY <1>1, <1>2, <1>6, <2>1, OtherGood, AppendGood DEF BeginStep, Fine
<1>7. CASE PrepareFails \/ GiveUp
  BY <1>1, <1>2, <1>7 DEF PrepareFails, GiveUp, Fine, Live, Runs
<1>8. CASE ModelMessage
  <2>1. Live /\ AssistantMessage(loop.turn) \in Events
    BY <1>2, <1>8, EventTypes DEF ModelMessage, Live, Runs
  <2>2. Good(Goto("finish"))
    BY <1>1, <1>8, GotoGood DEF ModelMessage
  <2> QED
    BY <1>1, <1>2, <1>8, <2>1, <2>2, AppendGood DEF ModelMessage, Fine
<1>9. CASE FinishStep
  <2>1. Live /\ StepEnd(loop.turn, loop.step, "completed") \in Events
    BY <1>2, <1>9, EventTypes DEF FinishStep, Live, Runs
  <2> QED
    BY <1>1, <1>2, <1>9, <2>1, OtherGood, AppendGood DEF FinishStep, Fine
<1>10. CASE FinishTurn
  <2>1. Live /\ TurnEnd(loop.turn, "completed") \in Events
    BY <1>2, <1>10, EventTypes DEF FinishTurn, Live, Runs
  <2> QED
    BY <1>1, <1>2, <1>10, <2>1, AppendGood DEF FinishTurn, Fine
<1>11. CASE ModelCalls
  <2>1. PICK batch \in Batches : AppendOr(ToolCalls(loop.turn, BatchCalls(batch)), Ask1(batch), Caught)
    BY <1>11 DEF ModelCalls, Ask1
  <2>2. Live /\ loop.step \in Numbers /\ loop.turn \in Numbers
    BY <1>2, <1>11 DEF ModelCalls, Live, Runs
  <2>3. ToolCalls(loop.turn, BatchCalls(batch)) \in Events
    BY <2>2, BatchType, EventTypes
  <2>4. Good(Ask1(batch))
    BY <1>1, <1>11, BatchGood DEF ModelCalls
  <2> QED
    BY <1>2, <2>1, <2>2, <2>3, <2>4, AppendGood DEF Fine
<1>12. CASE ModelFails
  <2>1. Live /\ StepEnd(loop.turn, loop.step, "failed") \in Events
    BY <1>2, <1>12, EventTypes DEF ModelFails, Live, Runs
  <2> QED
    BY <1>1, <1>2, <1>12, <2>1, OtherGood, AppendGood DEF ModelFails, Fine
<1>13. CASE ModelAborts
  BY <1>1, <1>13, OtherGood DEF ModelAborts, Fine
<1>14. CASE Retry
  <2>1. loop.open = 0 /\ loop.pending = << >>
    BY <1>1, <1>14 DEF Retry, Good, LoopOk, Closed, Executing
  <2> QED
    BY <1>1, <1>14, <2>1, NextStepGood DEF Retry, Fine
<1>15. CASE BeginCall
  <2>1. Live /\ ToolCall(loop.turn, Current) \in Events /\ Current.kind \in {"local", "guarded", "unknown"}
    BY <1>2, <1>3, <1>15, EventTypes DEF BeginCall, Live, Runs, Calls
  <2> DEFINE s == CASE Current.kind = "unknown" -> Started(Settle("error"))
                    [] Current.kind = "local" -> Started(Goto("effect"))
                    [] Current.kind = "guarded" -> Started(Goto("ask"))
  <2>2. Good(s)
    BY <1>1, <1>15, <2>1, StartedGood DEF BeginCall
  <2>3. AppendOr(ToolCall(loop.turn, Current), s, Caught)
    BY <1>15 DEF BeginCall
  <2> HIDE DEF s
  <2> QED
    BY <1>2, <2>1, <2>2, <2>3, AppendGood DEF Fine
<1>16. CASE EndStep
  <2>1. Live /\ StepEnd(loop.turn, loop.step, "tool_calls") \in Events
    BY <1>2, <1>16, EventTypes DEF EndStep, Live, Runs
  <2>2. Good(NextStep([loop EXCEPT !.open = 0]))
    BY <1>1, <1>16, NextStepGood DEF EndStep
  <2> QED
    BY <1>2, <1>16, <2>1, <2>2, AppendGood DEF EndStep, Fine
<1>17. CASE Ask
  <2>1. Live /\ ApprovalAsked(loop.turn, Current) \in Events
    BY <1>2, <1>3, <1>4, <1>17, EventTypes DEF Ask, Live, Runs, Executing
  <2>2. Good(Goto("approve")) /\ Good(Settle("error"))
    BY <1>1, <1>4, <1>17, GotoGood DEF Ask, Executing
  <2> QED
    BY <1>17, <2>1, <2>2, AppendGood DEF Ask, Fine
<1>18. CASE Decide
  <2>1. PICK o \in {"allowed-once", "rejected"} :
          AppendOr(ApprovalDecided(loop.turn, Current, o),
                   IF o = "allowed-once" THEN Goto("sandbox") ELSE Settle("error"), Settle("error"))
    BY <1>18 DEF Decide
  <2>2. Live /\ ApprovalDecided(loop.turn, Current, o) \in Events
    BY <1>2, <1>3, <1>4, <1>18, EventTypes DEF Decide, Live, Runs, Executing
  <2>3. Good(Goto("sandbox")) /\ Good(Settle("error"))
    BY <1>1, <1>4, <1>18, GotoGood DEF Decide, Executing
  <2> QED
    BY <2>1, <2>2, <2>3, AppendGood DEF Fine
<1>19. CASE Prepare
  <2>1. Live /\ SandboxPrepared(loop.turn, Current) \in Events
    BY <1>2, <1>3, <1>4, <1>19, EventTypes DEF Prepare, Live, Runs, Executing
  <2>2. Good(Goto("effect")) /\ Good(Settle("error"))
    BY <1>1, <1>4, <1>19, GotoGood DEF Prepare, Executing
  <2> QED
    BY <1>19, <2>1, <2>2, AppendGood DEF Prepare, Fine
<1>20. CASE PrepareRefused \/ EffectReturns
  BY <1>1, <1>4, <1>20 DEF PrepareRefused, EffectReturns, Executing, Fine
<1>21. CASE ExecuteAborts
  BY <1>1, <1>2, <1>21 DEF ExecuteAborts, Live, Runs, Fine
<1>22. CASE EndCall
  <2>1. loop.pending # << >>
    BY <1>4, <1>22 DEF EndCall, Executing
  <2>2. loop.result \in {"ok", "error"} => ToolResult(loop.turn, Current, loop.result) \in Events
    BY <1>2, <1>3, <1>22, <2>1, EventTypes DEF EndCall, Live, Runs
  <2> DEFINE s == [loop EXCEPT !.pc = "call", !.pending = Tail(@)]
  <2>3. Good(s)
    BY <1>1, <1>22, <2>1, AnsweredGood DEF EndCall
  <2>4. Good(Caught)
    BY <1>2, <1>22 DEF EndCall, Live, Runs
  <2>5. loop.result \in {"ok", "error"}
    BY <1>1, <1>22 DEF EndCall, Good, LoopOk
  <2>6. AppendOr(ToolResult(loop.turn, Current, loop.result), s, Caught)
    BY <1>22 DEF EndCall
  <2> HIDE DEF s
  <2> QED
    BY <2>2, <2>3, <2>4, <2>5, <2>6, AppendGood DEF Fine
<1>23. CASE CatchResult
  <2> DEFINE r == CaughtResult(Head(loop.pending))
             s == [loop EXCEPT !.pending = Tail(@)]
  <2>1. ToolResult(loop.turn, Current, r) \in Events
    BY <1>2, <1>3, <1>23, CaughtResultType, EventTypes DEF CatchResult, Live, Runs
  <2>2. Good(s)
    BY <1>1, <1>23, AnsweredGood DEF CatchResult
  <2>3. AppendOr(ToolResult(loop.turn, Current, r), s, Idle)
    BY <1>23 DEF CatchResult
  <2> HIDE DEF s, r
  <2> QED
    BY <1>1, <2>1, <2>2, <2>3, AppendGood DEF Fine
<1>24. CASE CatchStep
  <2>1. loop.open \in Numbers /\ loop.cause \in {"aborted", "failed"}
    BY <1>1, <1>2, <1>24 DEF CatchStep, Good, LoopOk, CancelOk, Loops, Live, Runs
  <2>2. StepEnd(loop.turn, loop.open, loop.cause) \in Events
    BY <1>2, <1>24, <2>1, EventTypes DEF CatchStep, Live, Runs
  <2> QED
    BY <1>1, <1>24, <2>2, OtherGood, AppendGood DEF CatchStep, Fine
<1>25. CASE CatchError
  <2>1. TurnError(loop.turn) \in Events
    BY <1>2, <1>25, EventTypes DEF CatchError, Live, Runs
  <2>2. Good(Goto("end"))
    BY <1>1, <1>25, GotoGood DEF CatchError
  <2> QED
    BY <1>1, <1>25, <2>1, <2>2, AppendGood DEF CatchError, Fine
<1>26. CASE CatchEnd
  <2>1. loop.cause \in {"aborted", "failed"} /\ loop.turn \in Numbers
    BY <1>1, <1>2, <1>26 DEF CatchEnd, Good, CancelOk, Live, Runs
  <2>2. TurnEnd(loop.turn, loop.cause) \in Events
    BY <2>1, EventTypes
  <2> QED
    BY <1>1, <1>26, <2>2, AppendGood DEF CatchEnd, Fine
<1> QED
  BY <1>5, <1>6, <1>7, <1>8, <1>9, <1>10, <1>11, <1>12, <1>13, <1>14, <1>15, <1>16, <1>17,
     <1>18, <1>19, <1>20, <1>21, <1>22, <1>23, <1>24, <1>25, <1>26 DEF LoopStep
-------------------------------------------------------------------------------
(* The steps, by what they do to the log.                                  *)
Same == loop'.turn = loop.turn /\ loop'.open = loop.open /\ loop'.pending = loop.pending
Later == Live' /\ NextBatch \in Nat /\ NextBatch' \in Nat /\ NextBatch <= NextBatch'
Appends(e) ==
  /\ e \in Events
  /\ ~storage.broken
  /\ log' = Append(log, e) /\ storage' = storage /\ effects' = effects

Spoilt == storage'.broken \/ storage'.transient # 0
Still ==
  /\ log' = log /\ effects' = effects
  /\ storage.transient <= storage'.transient
  /\ \/ loop'.pc = "down"
     \/ /\ loop'.pc = "idle"
        /\ Spoilt \/ (At("idle") /\ storage' = storage)
     \/ /\ Live /\ Same /\ Later
        /\ loop'.pc = loop.pc \/ loop'.pc \notin {"ask", "approve", "sandbox", "effect"}
Starts ==
  /\ At("idle") /\ Appends(TurnStart(Turns + 1))
  /\ loop' = [Idle EXCEPT !.pc = "user", !.turn = Turns + 1, !.step = 1]
Says ==
  /\ Live /\ loop.pending = << >>
  /\ \/ Appends(UserMessage(loop.turn))
     \/ Appends(AssistantMessage(loop.turn)) /\ loop.open # 0
     \/ Appends(TurnError(loop.turn))
  /\ Same /\ Later /\ loop'.pc \in {"prepare", "finish", "end"}
StepStarts ==
  /\ Live /\ loop.open = 0 /\ loop.pending = << >>
  /\ Appends(StepStart(loop.turn, loop.step))
  /\ loop'.turn = loop.turn /\ loop'.open = loop.step /\ loop'.pending = loop.pending
  /\ Later /\ loop'.pc = "model"
StepEnds ==
  /\ Live /\ loop.open # 0 /\ loop.pending = << >>
  /\ \E o : Appends(StepEnd(loop.turn, loop.open, o))
  /\ loop'.turn = loop.turn /\ loop'.open = 0 /\ loop'.pending = loop.pending
  /\ Later /\ loop'.pc \in {"close", "recover", "prepare", "catch"}
Ends ==
  /\ Live /\ loop.open = 0 /\ loop.pending = << >>
  /\ \E o : Appends(TurnEnd(loop.turn, o))
  /\ loop' = Idle
Answers ==
  /\ Live /\ loop.pending # << >>
  /\ \E o : /\ Appends(ToolResult(loop.turn, Current, o))
            /\ o \in NeverStarted => ~loop.pending[1].started
  /\ loop'.turn = loop.turn /\ loop'.open = loop.open /\ loop'.pending = Tail(loop.pending)
  /\ Later /\ loop'.pc \in {"call", "catch"}
Requested ==
  /\ At("model") /\ loop.pending = << >> /\ loop.open # 0
  /\ \E batch \in Batches :
       /\ Appends(ToolCalls(loop.turn, BatchCalls(batch)))
       /\ loop'.pending = [k \in DOMAIN BatchCalls(batch) |->
                             [call |-> BatchCalls(batch)[k], started |-> FALSE]]
  /\ loop'.turn = loop.turn /\ loop'.open = loop.open /\ loop'.step = loop.step
  /\ Later /\ loop'.pc = "call"
Recorded ==
  /\ At("call") /\ loop.pending # << >>
  /\ Appends(ToolCall(loop.turn, Current))
  /\ loop'.pending = [loop.pending EXCEPT ![1].started = TRUE]
  /\ loop'.turn = loop.turn /\ loop'.open = loop.open /\ loop'.step = loop.step
  /\ Later /\ loop'.pc \in {"settle", "effect", "ask"}
  /\ loop'.pc = "effect" => Current.kind # "guarded"
Asked ==
  At("ask") /\ Appends(ApprovalAsked(loop.turn, Current)) /\ Same /\ Later /\ loop'.pc = "approve"
Judged ==
  /\ At("approve") /\ Same /\ Later
  /\ \E o \in {"allowed-once", "rejected"} :
       /\ Appends(ApprovalDecided(loop.turn, Current, o))
       /\ loop'.pc = IF o = "allowed-once" THEN "sandbox" ELSE "settle"
Readied ==
  At("sandbox") /\ Appends(SandboxPrepared(loop.turn, Current)) /\ Same /\ Later
  /\ loop'.pc = "effect"

(* An append takes effect, or leaves a trace in the storage.               *)
LEMMA Splits ==
  ASSUME TypeInv, NEW e \in Events, NEW s, NEW f, AppendOr(e, s, f), effects' = effects
  PROVE  \/ Appends(e) /\ loop' = s
         \/ /\ log' = log /\ effects' = effects /\ loop' = f
            /\ storage.transient <= storage'.transient /\ Spoilt
<1>1. storage \in [broken : BOOLEAN, transient : Nat, crashes : Nat]
  BY BoundAssumption DEF TypeInv, Storages
<1> QED
  BY <1>1 DEF AppendOr, Appends, Spoilt

(* A run that throws outside its try block.                                *)
LEMMA StillIdle ==
  ASSUME log' = log, effects' = effects, loop' = Idle,
         storage.transient <= storage'.transient, Spoilt
  PROVE  Still
<1>1. loop'.pc = "idle"
  BY DEF Idle
<1> QED
  BY <1>1 DEF Still

(* An await that fails.                                                    *)
Fails ==
  \/ loop' = Caught
  \/ loop.pc \in Executing /\ \E r : loop' = Settle(r)
  \/ loop.pc = "model" /\ loop' = [loop EXCEPT !.pc = "catch", !.cause = "aborted"]

(* An await that fails changes nothing but where the loop is.              *)
LEMMA StillCaught ==
  ASSUME TypeInv, Live, log' = log, effects' = effects,
         Fails, storage.transient <= storage'.transient
  PROVE  Still
<1>1. loop \in Loops /\ loop.step \in Nat
  BY DEF TypeInv, Loops
<1>2. Same /\ loop'.pc \in {"catch", "settle"} /\ loop'.step = loop.step
      /\ (loop'.pc = "settle" => loop.pc \in Executing)
  BY <1>1 DEF Loops, Fails, Caught, Settle, Same
<1>3. Later
  BY <1>1, <1>2 DEF Later, NextBatch, Live, Runs, Unasked, Executing
<1> QED
  BY <1>2, <1>3 DEF Still

(* Each step of the loop is one of these.                                  *)
LEMMA LoopStepIs ==
  ASSUME TypeInv, LoopInv, CancelInv, LoopStep
  PROVE  \/ Still \/ Says \/ StepStarts \/ StepEnds \/ Ends \/ Answers
         \/ Requested \/ Recorded \/ Asked \/ Judged \/ Readied
<1>1. /\ Good(loop) /\ loop \in Loops /\ loop.step \in Nat /\ Good(loop')
      /\ log \in Seq(Events) /\ storage \in Storages
  BY LoopSteps DEF TypeInv, LoopInv, CancelInv, Good, Loops, Fine
<1>2. Live => loop.turn \in Numbers /\ loop.step \in Numbers
  BY <1>1 DEF Live, Good, LoopOk
<1>3. loop.pending # << >> => Current \in Calls
  BY <1>1, CurrentType
<1>4. loop.pc \in Executing => loop.pending # << >>
  BY <1>1 DEF Good, LoopOk
<1>5. storage.transient <= storage.transient
  BY <1>1, BoundAssumption DEF Storages
<1> USE DEF At
<1>6. CASE RunUser
  <2>1. Live /\ UserMessage(loop.turn) \in Events /\ loop.pending = << >>
    BY <1>1, <1>2, <1>6, EventTypes DEF RunUser, Live, Runs, Good, LoopOk, Executing
  <2>2. \/ Appends(UserMessage(loop.turn)) /\ loop' = Goto("prepare")
        \/ Still
    BY <1>6, <2>1, Splits, StillIdle DEF RunUser
  <2>3. loop' = Goto("prepare") => Same /\ Later /\ loop'.pc = "prepare"
    BY <1>1, <1>6 DEF RunUser, Goto, Same, Later, Live, Runs, NextBatch, Unasked, Loops
  <2> QED
    BY <2>1, <2>2, <2>3 DEF Says
<1>7. CASE BeginStep
  <2>1. Live /\ StepStart(loop.turn, loop.step) \in Events /\ loop.pending = << >> /\ loop.open = 0
    BY <1>1, <1>2, <1>7, EventTypes DEF BeginStep, Live, Runs, Good, LoopOk, Executing, Closed
  <2> DEFINE s == [loop EXCEPT !.pc = "model", !.open = loop.step]
  <2>2. \/ Appends(StepStart(loop.turn, loop.step)) /\ loop' = s
        \/ Still
    BY <1>7, <2>1, Splits, StillCaught DEF Fails, BeginStep
  <2>3. loop' = s => /\ loop'.turn = loop.turn /\ loop'.open = loop.step /\ loop'.pending = loop.pending
                     /\ Later /\ loop'.pc = "model"
    BY <1>1, <1>7 DEF BeginStep, Later, Live, Runs, NextBatch, Unasked, Loops
  <2> QED
    BY <2>1, <2>2, <2>3 DEF StepStarts
<1>8. CASE PrepareFails \/ GiveUp \/ ModelAborts \/ ExecuteAborts
  <2>1. Live
    BY <1>8 DEF PrepareFails, GiveUp, ModelAborts, ExecuteAborts, Live, Runs
  <2> QED
    BY <1>5, <1>8, <2>1, StillCaught DEF Fails, PrepareFails, GiveUp, ModelAborts, ExecuteAborts
<1>9. CASE ModelMessage
  <2>1. /\ Live /\ AssistantMessage(loop.turn) \in Events /\ loop.pending = << >>
        /\ loop.open # 0
    BY <1>1, <1>2, <1>9, EventTypes DEF ModelMessage, Live, Runs, Good, LoopOk, Executing, Opened, Numbers
  <2>2. \/ Appends(AssistantMessage(loop.turn)) /\ loop' = Goto("finish")
        \/ Still
    BY <1>9, <2>1, Splits, StillCaught DEF Fails, ModelMessage
  <2>3. loop' = Goto("finish") => Same /\ Later /\ loop'.pc = "finish"
    BY <1>1, <1>9 DEF ModelMessage, Goto, Same, Later, Live, Runs, NextBatch, Unasked, Loops
  <2> QED
    BY <2>1, <2>2, <2>3 DEF Says
<1>10. CASE FinishStep \/ ModelFails
  <2>1. /\ Live /\ loop.pending = << >> /\ loop.open # 0 /\ loop.open = loop.step
        /\ \A o \in {"failed", "completed"} : StepEnd(loop.turn, loop.step, o) \in Events
    BY <1>1, <1>2, <1>10, EventTypes
    DEF FinishStep, ModelFails, Live, Runs, Good, LoopOk, Executing, Opened, Numbers
  <2> DEFINE s == [loop EXCEPT !.pc = "close", !.open = 0]
             r == [loop EXCEPT !.pc = "recover", !.open = 0]
  <2>2. \/ /\ \E o : Appends(StepEnd(loop.turn, loop.open, o))
           /\ (FinishStep /\ loop' = s) \/ (ModelFails /\ loop' = r)
        \/ Still
    BY <1>10, <2>1, Splits, StillCaught DEF Fails, FinishStep, ModelFails
  <2>3. (FinishStep /\ loop' = s) \/ (ModelFails /\ loop' = r) =>
          /\ loop'.turn = loop.turn /\ loop'.open = 0 /\ loop'.pending = loop.pending
          /\ Later /\ loop'.pc \in {"close", "recover"}
    <3>1. CASE FinishStep /\ loop' = s
      BY <1>1, <3>1 DEF FinishStep, Later, Live, Runs, NextBatch, Unasked, Loops
    <3>2. CASE ModelFails /\ loop' = r
      BY <1>1, <3>2 DEF ModelFails, Later, Live, Runs, NextBatch, Unasked, Loops
    <3> QED
      BY <3>1, <3>2
  <2> HIDE DEF s, r
  <2> QED
    BY <2>1, <2>2, <2>3 DEF StepEnds
<1>11. CASE FinishTurn
  <2>1. /\ Live /\ loop.pending = << >> /\ loop.open = 0
        /\ TurnEnd(loop.turn, "completed") \in Events
    BY <1>1, <1>2, <1>11, EventTypes
    DEF FinishTurn, Live, Runs, Good, LoopOk, Executing, Closed
  <2>2. \/ Appends(TurnEnd(loop.turn, "completed")) /\ loop' = Idle
        \/ Still
    BY <1>11, <2>1, Splits, StillCaught DEF Fails, FinishTurn
  <2> QED
    BY <2>1, <2>2 DEF Ends
<1>12. CASE ModelCalls
  <2>1. PICK batch \in Batches : AppendOr(ToolCalls(loop.turn, BatchCalls(batch)), Ask1(batch), Caught)
    BY <1>12 DEF ModelCalls, Ask1
  <2>2. /\ Live /\ loop.step \in Numbers /\ loop.turn \in Numbers /\ loop.pending = << >>
        /\ loop.open # 0
    BY <1>1, <1>2, <1>12 DEF ModelCalls, Live, Runs, Good, LoopOk, Executing, Opened, Numbers
  <2>3. ToolCalls(loop.turn, BatchCalls(batch)) \in Events
    BY <2>2, BatchType, EventTypes
  <2>4. \/ Appends(ToolCalls(loop.turn, BatchCalls(batch))) /\ loop' = Ask1(batch)
        \/ Still
    BY <1>12, <2>1, <2>2, <2>3, Splits, StillCaught DEF Fails, ModelCalls
  <2>5. Ask1(batch).pending = [k \in DOMAIN BatchCalls(batch) |->
                                     [call |-> BatchCalls(batch)[k], started |-> FALSE]]
    BY <1>1, <1>12, BatchGood DEF ModelCalls
  <2>6. loop' = Ask1(batch) =>
          /\ loop'.turn = loop.turn /\ loop'.open = loop.open /\ loop'.step = loop.step
          /\ Later /\ loop'.pc = "call"
    BY <1>1, <1>12 DEF ModelCalls, Ask1, Later, Live, Runs, NextBatch, Unasked, Loops
  <2> QED
    BY <1>12, <2>2, <2>4, <2>5, <2>6 DEF Requested, ModelCalls
<1>13. CASE Retry
  <2>1. /\ Live /\ Same /\ loop'.pc \in {"prepare", "catch"}
        /\ loop'.step = IF loop'.pc = "prepare" THEN loop.step + 1 ELSE loop.step
    BY <1>1, <1>13 DEF Retry, NextStep, Loops, Same, Live, Runs
  <2>2. Later
    BY <1>1, <1>13, <2>1 DEF Retry, Later, Live, Runs, NextBatch, Unasked
  <2> QED
    BY <1>5, <1>13, <2>1, <2>2 DEF Retry, Still
<1>14. CASE BeginCall
  <2>1. /\ Live /\ ToolCall(loop.turn, Current) \in Events /\ loop.pending # << >>
        /\ loop.pc = "call" /\ Current.kind \in {"local", "guarded", "unknown"}
    BY <1>2, <1>3, <1>14, EventTypes DEF BeginCall, Live, Runs, Calls
  <2> DEFINE s == CASE Current.kind = "unknown" -> Started(Settle("error"))
                    [] Current.kind = "local" -> Started(Goto("effect"))
                    [] Current.kind = "guarded" -> Started(Goto("ask"))
  <2>2. \A u \in {Settle("error"), Goto("effect"), Goto("ask")} :
          Started(u).pending = [loop.pending EXCEPT ![1].started = TRUE]
    BY <1>1, <2>1, StartedGood
  <2>3. /\ s.pending = [loop.pending EXCEPT ![1].started = TRUE]
        /\ s.pc \in {"settle", "effect", "ask"}
        /\ s.pc = "effect" => Current.kind # "guarded"
        /\ s.turn = loop.turn /\ s.open = loop.open /\ s.step = loop.step
    BY <1>1, <2>1, <2>2 DEF Started, Settle, Goto, Loops
  <2>4. AppendOr(ToolCall(loop.turn, Current), s, Caught)
    BY <1>14 DEF BeginCall
  <2> HIDE DEF s
  <2>5. (Appends(ToolCall(loop.turn, Current)) /\ loop' = s) \/ Still
    BY <1>14, <2>1, <2>4, Splits, StillCaught DEF Fails, BeginCall
  <2>6. loop' = s => Later
    BY <1>1, <2>1, <2>3 DEF Later, Live, Runs, NextBatch, Unasked
  <2> QED
    BY <2>1, <2>3, <2>5, <2>6 DEF Recorded
<1>15. CASE EndStep
  <2>1. /\ Live /\ loop.pending = << >> /\ loop.open # 0 /\ loop.open = loop.step
        /\ StepEnd(loop.turn, loop.step, "tool_calls") \in Events
    BY <1>1, <1>2, <1>15, EventTypes
    DEF EndStep, Live, Runs, Good, LoopOk, Opened, Numbers
  <2> DEFINE s == NextStep([loop EXCEPT !.open = 0])
  <2>2. /\ s.turn = loop.turn /\ s.open = 0 /\ s.pending = loop.pending
        /\ s.pc \in {"prepare", "catch"}
        /\ s.step = IF s.pc = "prepare" THEN loop.step + 1 ELSE loop.step
    BY <1>1 DEF NextStep, Loops
  <2>3. AppendOr(StepEnd(loop.turn, loop.step, "tool_calls"), s, Caught)
    BY <1>15 DEF EndStep
  <2> HIDE DEF s
  <2>4. (Appends(StepEnd(loop.turn, loop.step, "tool_calls")) /\ loop' = s) \/ Still
    BY <1>15, <2>1, <2>3, Splits, StillCaught DEF Fails, EndStep
  <2>5. loop' = s => Later
    BY <1>1, <1>15, <2>2 DEF EndStep, Later, Live, Runs, NextBatch, Unasked
  <2> QED
    BY <2>1, <2>2, <2>4, <2>5 DEF StepEnds
<1>16. CASE Ask
  <2>1. Live /\ ApprovalAsked(loop.turn, Current) \in Events /\ loop.pc \in Executing
    BY <1>2, <1>3, <1>4, <1>16, EventTypes DEF Ask, Live, Runs, Executing
  <2>2. (Appends(ApprovalAsked(loop.turn, Current)) /\ loop' = Goto("approve")) \/ Still
    BY <1>16, <2>1, Splits, StillCaught DEF Fails, Ask
  <2>3. loop' = Goto("approve") => Same /\ Later /\ loop'.pc = "approve"
    BY <1>1, <1>16 DEF Ask, Goto, Same, Later, Live, Runs, NextBatch, Unasked, Loops
  <2> QED
    BY <1>16, <2>2, <2>3 DEF Asked, Ask
<1>17. CASE Decide
  <2>1. PICK o \in {"allowed-once", "rejected"} :
          AppendOr(ApprovalDecided(loop.turn, Current, o),
                   IF o = "allowed-once" THEN Goto("sandbox") ELSE Settle("error"), Settle("error"))
    BY <1>17 DEF Decide
  <2>2. Live /\ ApprovalDecided(loop.turn, Current, o) \in Events /\ loop.pc \in Executing
    BY <1>2, <1>3, <1>4, <1>17, EventTypes DEF Decide, Live, Runs, Executing
  <2> DEFINE s == IF o = "allowed-once" THEN Goto("sandbox") ELSE Settle("error")
  <2>3. (Appends(ApprovalDecided(loop.turn, Current, o)) /\ loop' = s) \/ Still
    BY <1>17, <2>1, <2>2, Splits, StillCaught DEF Fails, Decide
  <2>4. loop' = s => Same /\ Later /\ loop'.pc = IF o = "allowed-once" THEN "sandbox" ELSE "settle"
    BY <1>1, <1>17 DEF Decide, Goto, Settle, Same, Later, Live, Runs, NextBatch, Unasked, Loops
  <2> HIDE DEF s
  <2> QED
    BY <1>17, <2>3, <2>4 DEF Judged, Decide
<1>18. CASE Prepare
  <2>1. Live /\ SandboxPrepared(loop.turn, Current) \in Events /\ loop.pc \in Executing
    BY <1>2, <1>3, <1>4, <1>18, EventTypes DEF Prepare, Live, Runs, Executing
  <2>2. (Appends(SandboxPrepared(loop.turn, Current)) /\ loop' = Goto("effect")) \/ Still
    BY <1>18, <2>1, Splits, StillCaught DEF Fails, Prepare
  <2>3. loop' = Goto("effect") => Same /\ Later /\ loop'.pc = "effect"
    BY <1>1, <1>18 DEF Prepare, Goto, Same, Later, Live, Runs, NextBatch, Unasked, Loops
  <2> QED
    BY <1>18, <2>2, <2>3 DEF Readied, Prepare
<1>19. CASE PrepareRefused \/ EffectReturns
  <2>1. Live /\ loop.pc \in Executing
    BY <1>19 DEF PrepareRefused, EffectReturns, Live, Runs, Executing
  <2> QED
    BY <1>5, <1>19, <2>1, StillCaught DEF Fails, PrepareRefused, EffectReturns
<1>20. CASE EndCall
  <2>1. /\ Live /\ loop.pending # << >> /\ loop.result \in {"ok", "error"}
    BY <1>1, <1>4, <1>20 DEF EndCall, Live, Runs, Executing, Good, LoopOk
  <2>2. ToolResult(loop.turn, Current, loop.result) \in Events
    BY <1>2, <1>3, <2>1, EventTypes
  <2> DEFINE s == [loop EXCEPT !.pc = "call", !.pending = Tail(@)]
  <2>3. (Appends(ToolResult(loop.turn, Current, loop.result)) /\ loop' = s) \/ Still
    BY <1>20, <2>1, <2>2, Splits, StillCaught DEF Fails, EndCall
  <2>4. loop' = s =>
          /\ loop'.turn = loop.turn /\ loop'.open = loop.open /\ loop'.pending = Tail(loop.pending)
          /\ Later /\ loop'.pc = "call"
    BY <1>1, <1>20 DEF EndCall, Later, Live, Runs, NextBatch, Unasked, Loops
  <2>5. loop.result \notin NeverStarted
    BY <2>1 DEF NeverStarted
  <2> HIDE DEF s
  <2> QED
    BY <2>1, <2>3, <2>4, <2>5 DEF Answers
<1>21. CASE CatchResult
  <2> DEFINE r == CaughtResult(Head(loop.pending))
             s == [loop EXCEPT !.pending = Tail(@)]
  <2>1. Live /\ loop.pending # << >> /\ ToolResult(loop.turn, Current, r) \in Events
    BY <1>2, <1>3, <1>21, CaughtResultType, EventTypes DEF CatchResult, Live, Runs
  <2>2. r \in NeverStarted => ~loop.pending[1].started
    <3>1. Head(loop.pending) = loop.pending[1]
      BY <1>1, <2>1 DEF Loops
    <3> QED
      BY <3>1, CaughtResultType
  <2> HIDE DEF r
  <2>3. (Appends(ToolResult(loop.turn, Current, r)) /\ loop' = s) \/ Still
    BY <1>21, <2>1, Splits, StillIdle DEF CatchResult, r
  <2>4. loop' = s =>
          /\ loop'.turn = loop.turn /\ loop'.open = loop.open /\ loop'.pending = Tail(loop.pending)
          /\ Later /\ loop'.pc = "catch"
    BY <1>1, <1>21 DEF CatchResult, Later, Live, Runs, NextBatch, Unasked, Loops
  <2> HIDE DEF s
  <2> QED
    BY <2>1, <2>2, <2>3, <2>4 DEF Answers
<1>22. CASE CatchStep
  <2>1. Live /\ loop.pending = << >> /\ loop.open # 0 /\ loop.open \in Numbers
        /\ loop.cause \in {"aborted", "failed"}
    BY <1>1, <1>2, <1>22 DEF CatchStep, Good, LoopOk, CancelOk, Loops, Live, Runs
  <2>2. StepEnd(loop.turn, loop.open, loop.cause) \in Events
    BY <1>2, <2>1, EventTypes
  <2> DEFINE s == [loop EXCEPT !.open = 0]
  <2>3. (Appends(StepEnd(loop.turn, loop.open, loop.cause)) /\ loop' = s) \/ Still
    BY <1>22, <2>1, <2>2, Splits, StillIdle DEF CatchStep
  <2>4. loop' = s =>
          /\ loop'.turn = loop.turn /\ loop'.open = 0 /\ loop'.pending = loop.pending
          /\ Later /\ loop'.pc = "catch"
    BY <1>1, <1>22 DEF CatchStep, Later, Live, Runs, NextBatch, Unasked, Loops
  <2> HIDE DEF s
  <2> QED
    BY <2>1, <2>3, <2>4 DEF StepEnds
<1>23. CASE CatchError
  <2>1. Live /\ loop.pending = << >> /\ TurnError(loop.turn) \in Events
    BY <1>2, <1>23, EventTypes DEF CatchError, Live, Runs
  <2>2. (Appends(TurnError(loop.turn)) /\ loop' = Goto("end")) \/ Still
    BY <1>23, <2>1, Splits, StillIdle DEF CatchError
  <2>3. loop' = Goto("end") => Same /\ Later /\ loop'.pc = "end"
    BY <1>1, <1>23 DEF CatchError, Goto, Same, Later, Live, Runs, NextBatch, Unasked, Loops
  <2> QED
    BY <2>1, <2>2, <2>3 DEF Says
<1>24. CASE CatchEnd
  <2>1. /\ Live /\ loop.pending = << >> /\ loop.open = 0 /\ loop.cause \in {"aborted", "failed"}
    BY <1>1, <1>24 DEF CatchEnd, Good, LoopOk, CancelOk, Live, Runs, Closed, Executing
  <2>2. TurnEnd(loop.turn, loop.cause) \in Events
    BY <1>2, <2>1, EventTypes
  <2>3. (Appends(TurnEnd(loop.turn, loop.cause)) /\ loop' = Idle) \/ Still
    BY <1>24, <2>1, <2>2, Splits, StillIdle DEF CatchEnd
  <2> QED
    BY <2>1, <2>3 DEF Ends
<1> QED
  BY <1>6, <1>7, <1>8, <1>9, <1>10, <1>11, <1>12, <1>13, <1>14, <1>15, <1>16, <1>17,
     <1>18, <1>19, <1>20, <1>21, <1>22, <1>23, <1>24 DEF LoopStep
-------------------------------------------------------------------------------
(* What the other two scans return.                                        *)
Nodes == [sequence : Nat, turn : Nat, event : Events]
Surfaces == [ok : BOOLEAN, nodes : Seq(Nodes), at : Nat, summaries : SUBSET Nat,
             closed : SUBSET Nat, openTurn : Nat, openStep : Nat]
CommandScans == [ok : BOOLEAN, turn : Nat, open : Nat]

(* A surface keeps its type.                                               *)
LEMMA AddType ==
  ASSUME NEW surface \in Surfaces, NEW e \in Events
  PROVE  AddToSurface(surface, e) \in Surfaces
<1> DEFINE s == [surface EXCEPT !.at = @ + 1]
<1>1. s \in Surfaces /\ s.at \in Nat /\ s.nodes \in Seq(Nodes) /\ s.nodes = surface.nodes
  BY DEF Surfaces
<1>2. e.turn \in Nat /\ (e.type \in {"step/start", "step/end"} => e.step \in Nat)
  BY EventFields DEF Numbers
<1>3. Node(s.at, e) \in Nodes
  BY <1>1, <1>2 DEF Node, Nodes
<1> DEFINE r == AddToSurface(surface, e)
<1> HIDE DEF s
<1>4. CASE IsMessage(e)
  <2>1. r = [s EXCEPT !.nodes = Append(s.nodes, Node(s.at, e))]
    BY <1>4 DEF AddToSurface, s, IsMessage
  <2>2. Append(s.nodes, Node(s.at, e)) \in Seq(Nodes)
    BY <1>1, <1>3
  <2> QED
    BY <1>1, <2>1, <2>2 DEF Surfaces
<1>5. CASE e.type = "turn/start"
  <2>1. r = [s EXCEPT !.openTurn = e.turn]
    BY <1>5 DEF AddToSurface, s, IsMessage
  <2> QED
    BY <1>1, <1>2, <2>1 DEF Surfaces
<1>6. CASE e.type = "turn/end"
  <2>1. r = [s EXCEPT !.closed = s.closed \cup {e.turn},
                      !.openTurn = IF s.openTurn = e.turn THEN 0 ELSE s.openTurn]
    BY <1>6 DEF AddToSurface, s, IsMessage
  <2> DEFINE closed == s.closed \cup {e.turn}
             turn == IF s.openTurn = e.turn THEN 0 ELSE s.openTurn
  <2>2. closed \in SUBSET Nat /\ turn \in Nat
    BY <1>1, <1>2 DEF Surfaces
  <2> HIDE DEF closed, turn
  <2>3. r = [s EXCEPT !.closed = closed, !.openTurn = turn]
    BY <2>1 DEF closed, turn
  <2> DEFINE u == [s EXCEPT !.closed = closed]
  <2>4. u \in Surfaces
    BY <1>1, <2>2 DEF Surfaces
  <2>5. r = [u EXCEPT !.openTurn = turn]
    BY <2>3
  <2> HIDE DEF u
  <2> QED
    BY <2>2, <2>4, <2>5 DEF Surfaces
<1>7. CASE e.type = "step/start"
  <2>1. r = [s EXCEPT !.openStep = e.step]
    BY <1>7 DEF AddToSurface, s, IsMessage
  <2> QED
    BY <1>1, <1>2, <1>7, <2>1 DEF Surfaces
<1>8. CASE e.type = "step/end"
  <2>1. r = [s EXCEPT !.openStep = IF s.openStep = e.step THEN 0 ELSE s.openStep]
    BY <1>8 DEF AddToSurface, s, IsMessage
  <2> DEFINE step == IF s.openStep = e.step THEN 0 ELSE s.openStep
  <2>2. step \in Nat
    BY <1>1, <1>2, <1>8 DEF Surfaces
  <2> HIDE DEF step
  <2> QED
    BY <1>1, <2>1, <2>2 DEF Surfaces, step
<1>9. CASE e.type = "compaction/summary"
  <2>1. CASE ~SummaryFits(surface, e)
    <3>1. r = [s EXCEPT !.ok = FALSE]
      BY <1>9, <2>1 DEF AddToSurface, s, IsMessage
    <3> QED
      BY <1>1, <3>1 DEF Surfaces
  <2>2. CASE SummaryFits(surface, e)
    <3>1. r = [s EXCEPT !.nodes = Shadow(s, e), !.summaries = s.summaries \cup {s.at}]
      BY <1>9, <2>2 DEF AddToSurface, s, IsMessage
    <3>2. Len(e.shadowed) \in 1 .. Len(s.nodes)
      BY <1>1, <2>2 DEF SummaryFits
    <3>3. SubSeq(s.nodes, Len(e.shadowed) + 1, Len(s.nodes)) \in Seq(Nodes)
      BY <1>1, <3>2
    <3>4. Shadow(s, e) \in Seq(Nodes)
      BY <1>3, <3>3 DEF Shadow
    <3> DEFINE summaries == s.summaries \cup {s.at}
    <3>5. summaries \in SUBSET Nat
      BY <1>1 DEF Surfaces
    <3> HIDE DEF summaries
    <3>6. r = [s EXCEPT !.nodes = Shadow(s, e), !.summaries = summaries]
      BY <3>1 DEF summaries
    <3> DEFINE u == [s EXCEPT !.nodes = Shadow(s, e)]
    <3>7. u \in Surfaces
      BY <1>1, <3>4 DEF Surfaces
    <3>8. r = [u EXCEPT !.summaries = summaries]
      BY <3>6
    <3> HIDE DEF u
    <3> QED
      BY <3>5, <3>7, <3>8 DEF Surfaces
  <2> QED
    BY <2>1, <2>2
<1>10. CASE e.type = "context-budget/decision" /\ e.outcome = "compacted"
  <2>1. r = [s EXCEPT !.ok = s.ok /\ e.summary \in s.summaries]
    BY <1>10 DEF AddToSurface, s, IsMessage
  <2> QED
    BY <1>1, <2>1 DEF Surfaces
<1>11. CASE ~(IsMessage(e) \/ e.type \in {"turn/start", "turn/end", "step/start", "step/end",
                                         "compaction/summary"}
             \/ (e.type = "context-budget/decision" /\ e.outcome = "compacted"))
  <2>1. r = s
    BY <1>11 DEF AddToSurface, s
  <2> QED
    BY <1>1, <2>1
<1> QED
  BY <1>4, <1>5, <1>6, <1>7, <1>8, <1>9, <1>10, <1>11

(* The type of a surface.                                                  *)
LEMMA SurfaceType ==
  ASSUME NEW l \in Seq(Events)
  PROVE  Surface(l) \in Surfaces
<1>1. PICK f : SurfaceUpTo(f, l, Len(l)) /\ Surface(l) = f[Len(l)]
  BY SurfaceIsUpTo
<1> DEFINE B == {i \in 0 .. Len(l) : f[i] \in Surfaces}
<1>0. Len(l) \in Nat
  OBVIOUS
<1>2. 0 \in B
  <2>1. EmptySurface \in Surfaces
    <3>1. << >> \in Seq(Nodes)
      OBVIOUS
    <3> QED
      BY <3>1 DEF EmptySurface, Surfaces
  <2> QED
    BY <1>1, <2>1 DEF SurfaceUpTo
<1>3. ASSUME NEW i \in 1 .. Len(l), i - 1 \in B PROVE i \in B
  <2>1. f[i] = AddToSurface(f[i - 1], l[i])
    BY <1>1 DEF SurfaceUpTo
  <2>2. f[i - 1] \in Surfaces /\ l[i] \in Events
    BY <1>3
  <2> QED
    BY <2>1, <2>2, AddType
<1>4. 0 .. Len(l) \subseteq B
  <2> HIDE DEF B
  <2> QED
    BY <1>0, <1>2, <1>3, UpTo
<1> QED
  BY <1>0, <1>1, <1>4

(* The scan of commands keeps its type.                                    *)
LEMMA ScanCommandType ==
  ASSUME NEW s \in CommandScans, NEW e, e.turn \in Nat,
         e.type = "command/run" => e.command \in Nat
  PROVE  ScanCommand(s, e) \in CommandScans
<1> DEFINE r == ScanCommand(s, e)
<1>1. s.ok \in BOOLEAN /\ s.turn \in Nat /\ s.open \in Nat
  BY DEF CommandScans
<1>2. CASE e.type = "turn/start"
  <2>1. r = [s EXCEPT !.ok = s.ok /\ s.open = 0, !.turn = e.turn]
    BY <1>2 DEF ScanCommand
  <2> QED
    BY <1>1, <2>1 DEF CommandScans
<1>3. CASE e.type = "turn/end"
  <2>1. r = [s EXCEPT !.turn = IF s.turn = e.turn THEN 0 ELSE s.turn]
    BY <1>3 DEF ScanCommand
  <2> QED
    BY <1>1, <2>1 DEF CommandScans
<1>4. CASE e.type = "command/run"
  <2>1. r = [s EXCEPT !.ok = s.ok /\ s.turn = 0 /\ s.open = 0, !.open = e.command]
    BY <1>4 DEF ScanCommand
  <2> QED
    BY <1>1, <1>4, <2>1 DEF CommandScans
<1>5. CASE e.type = "command/done"
  <2> DEFINE ok == s.ok /\ s.turn = 0 /\ s.open = e.command
  <2>1. r = [s EXCEPT !.ok = ok, !.open = 0]
    BY <1>5 DEF ScanCommand
  <2>2. ok \in BOOLEAN
    OBVIOUS
  <2> HIDE DEF ok
  <2> DEFINE u == [s EXCEPT !.ok = ok]
  <2>3. u \in CommandScans
    BY <1>1, <2>2 DEF CommandScans
  <2>4. r = [u EXCEPT !.open = 0]
    BY <2>1
  <2> HIDE DEF u
  <2> QED
    BY <2>3, <2>4 DEF CommandScans
<1>6. CASE e.type \notin {"turn/start", "turn/end", "command/run", "command/done"}
  BY <1>6 DEF ScanCommand
<1> QED
  BY <1>2, <1>3, <1>4, <1>5, <1>6

(* The type of what it finds.                                              *)
LEMMA CommandType ==
  ASSUME NEW l \in Seq(Events)
  PROVE  CommandScan(l) \in CommandScans
<1>1. PICK f : CommandUpTo(f, l, Len(l)) /\ CommandScan(l) = f[Len(l)]
  BY CommandIsUpTo
<1> DEFINE B == {i \in 0 .. Len(l) : f[i] \in CommandScans}
<1>0. Len(l) \in Nat
  OBVIOUS
<1>2. 0 \in B
  BY <1>1 DEF CommandUpTo, NoCommands, CommandScans
<1>3. ASSUME NEW i \in 1 .. Len(l), i - 1 \in B PROVE i \in B
  <2>1. f[i] = ScanCommand(f[i - 1], l[i])
    BY <1>1 DEF CommandUpTo
  <2>2. f[i - 1] \in CommandScans /\ l[i] \in Events
    BY <1>3
  <2>3. l[i].turn \in Nat
    BY <2>2, EventFields
  <2>4. l[i].type = "command/run" => l[i].command \in Nat
    BY <2>2 DEF Events, Numbers
  <2> QED
    BY <2>1, <2>2, <2>3, <2>4, ScanCommandType
<1>4. 0 .. Len(l) \subseteq B
  <2> HIDE DEF B
  <2> QED
    BY <1>0, <1>2, <1>3, UpTo
<1> QED
  BY <1>0, <1>1, <1>4

(* An event that is no command leaves the scan of commands as it is, and   *)
(* one that is no summary and no decision the surface well formed.         *)
LEMMA CommandKeeps ==
  ASSUME NEW l \in Seq(Events), NEW e \in Events, e.type \notin {"command/run", "command/done"},
         CommandScan(l).ok, CommandScan(l).open = 0
  PROVE  CommandScan(Append(l, e)).ok /\ CommandScan(Append(l, e)).open = 0
<1>1. CommandScan(Append(l, e)) = ScanCommand(CommandScan(l), e)
  BY CommandAppend
<1>2. CommandScan(l) \in CommandScans
  BY CommandType
<1> QED
  BY <1>1, <1>2 DEF ScanCommand, CommandScans

(* What an event that is no maintenance does to the surface.               *)
LEMMA SurfaceKeeps ==
  ASSUME NEW l \in Seq(Events), NEW e \in Events,
         e.type \notin {"compaction/summary", "context-budget/decision"}
  PROVE  LET now == Surface(l)
             next == Surface(Append(l, e))
         IN  /\ next.ok = now.ok
             /\ next.nodes = IF IsMessage(e) THEN Append(now.nodes, Node(now.at + 1, e)) ELSE now.nodes
             /\ next.openTurn = CASE e.type = "turn/start" -> e.turn
                                  [] e.type = "turn/end" /\ now.openTurn = e.turn -> 0
                                  [] OTHER -> now.openTurn
             /\ next.openStep = CASE e.type = "step/start" -> e.step
                                  [] e.type = "step/end" /\ now.openStep = e.step -> 0
                                  [] OTHER -> now.openStep
<1> DEFINE now == Surface(l)
           next == Surface(Append(l, e))
<1>1. next = AddToSurface(now, e)
  BY SurfaceAppend
<1>2. now \in Surfaces
  BY SurfaceType
<1> DEFINE s == [now EXCEPT !.at = @ + 1]
<1>3. /\ s.ok = now.ok /\ s.nodes = now.nodes /\ s.openTurn = now.openTurn
      /\ s.openStep = now.openStep /\ s.at = now.at + 1 /\ s \in Surfaces
  <2> HIDE DEF now
  <2>1. now.at \in Nat /\ now.at + 1 \in Nat
    BY <1>2 DEF Surfaces
  <2>2. s \in Surfaces
    BY <1>2, <2>1 DEF Surfaces
  <2>3. /\ s.ok = now.ok /\ s.nodes = now.nodes /\ s.openTurn = now.openTurn
        /\ s.openStep = now.openStep /\ s.at = now.at + 1
    BY <1>2 DEF Surfaces
  <2> QED
    BY <2>2, <2>3
<1> HIDE DEF now, next
<1> DEFINE nodes == IF IsMessage(e) THEN Append(now.nodes, Node(now.at + 1, e)) ELSE now.nodes
           turn == CASE e.type = "turn/start" -> e.turn
                     [] e.type = "turn/end" /\ now.openTurn = e.turn -> 0
                     [] OTHER -> now.openTurn
           step == CASE e.type = "step/start" -> e.step
                     [] e.type = "step/end" /\ now.openStep = e.step -> 0
                     [] OTHER -> now.openStep
           Goal == /\ next.ok = now.ok /\ next.nodes = nodes
                   /\ next.openTurn = turn /\ next.openStep = step
<1>4. ASSUME IsMessage(e) PROVE Goal
  <2>1. next = [s EXCEPT !.nodes = Append(s.nodes, Node(s.at, e))]
    BY <1>1, <1>4 DEF AddToSurface, IsMessage
  <2>2. nodes = Append(now.nodes, Node(now.at + 1, e)) /\ turn = now.openTurn /\ step = now.openStep
    BY <1>4 DEF IsMessage
  <2> HIDE DEF s, nodes, turn, step
  <2> QED
    BY <1>3, <2>1, <2>2 DEF Surfaces
<1>5. ASSUME e.type = "turn/start" PROVE Goal
  <2>1. next = [s EXCEPT !.openTurn = e.turn]
    BY <1>1, <1>5 DEF AddToSurface, IsMessage
  <2>2. nodes = now.nodes /\ turn = e.turn /\ step = now.openStep
    BY <1>5 DEF IsMessage
  <2> HIDE DEF s, nodes, turn, step
  <2> QED
    BY <1>3, <2>1, <2>2 DEF Surfaces
<1>6. ASSUME e.type = "turn/end" PROVE Goal
  <2>1. next = [s EXCEPT !.closed = s.closed \cup {e.turn},
                         !.openTurn = IF s.openTurn = e.turn THEN 0 ELSE s.openTurn]
    BY <1>1, <1>6 DEF AddToSurface, IsMessage
  <2>2. nodes = now.nodes /\ turn = (IF now.openTurn = e.turn THEN 0 ELSE now.openTurn)
        /\ step = now.openStep
    BY <1>6 DEF IsMessage
  <2> HIDE DEF s, nodes, turn, step
  <2> QED
    BY <1>3, <2>1, <2>2 DEF Surfaces
<1>7. ASSUME e.type = "step/start" PROVE Goal
  <2>1. next = [s EXCEPT !.openStep = e.step]
    BY <1>1, <1>7 DEF AddToSurface, IsMessage
  <2>2. nodes = now.nodes /\ turn = now.openTurn /\ step = e.step
    BY <1>7 DEF IsMessage
  <2> HIDE DEF s, nodes, turn, step
  <2> QED
    BY <1>3, <2>1, <2>2 DEF Surfaces
<1>8. ASSUME e.type = "step/end" PROVE Goal
  <2>1. next = [s EXCEPT !.openStep = IF s.openStep = e.step THEN 0 ELSE s.openStep]
    BY <1>1, <1>8 DEF AddToSurface, IsMessage
  <2>2. nodes = now.nodes /\ turn = now.openTurn
        /\ step = IF now.openStep = e.step THEN 0 ELSE now.openStep
    BY <1>8 DEF IsMessage
  <2> HIDE DEF s, nodes, turn, step
  <2> QED
    BY <1>3, <2>1, <2>2 DEF Surfaces
<1>9. ASSUME ~IsMessage(e) /\ e.type \notin {"turn/start", "turn/end", "step/start", "step/end"} PROVE Goal
  <2>1. next = s
    BY <1>1, <1>9 DEF AddToSurface
  <2>2. nodes = now.nodes /\ turn = now.openTurn /\ step = now.openStep
    BY <1>9
  <2> HIDE DEF s, nodes, turn, step
  <2> QED
    BY <1>3, <2>1, <2>2
<1>10. Goal
  <2> HIDE DEF Goal
  <2> QED
    BY <1>4, <1>5, <1>6, <1>7, <1>8, <1>9
<1> QED
  BY <1>10 DEF now, next
-------------------------------------------------------------------------------
(* The other steps.                                                        *)
Acts ==
  /\ At("effect")
  /\ log' = log /\ loop' = loop /\ storage' = storage
  /\ effects' = effects \cup {[turn |-> loop.turn, call |-> Current]}


(* A new process closes what the scan found open.                          *)
LEMMA ClosersAre ==
  ASSUME NEW l \in Seq(Events), CommandScan(l).open = 0
  PROVE  LET turn == TailScan(l).turn
             tail == TailScan(l).scan
             r == [i \in DOMAIN tail.pending |->
                     ToolResult(turn, tail.pending[i].call,
                       IF tail.pending[i].started THEN "outcome-unknown" ELSE "not-started")]
         IN  /\ turn = 0 => Closers(l) = << >>
             /\ turn # 0 =>
                  /\ turn \in Numbers /\ TurnEnd(turn, "interrupted") \in Events
                  /\ r \in Seq(Events) /\ Len(r) = Len(tail.pending)
                  /\ Closers(l) =
                       IF tail.step = 0 THEN Append(r, TurnEnd(turn, "interrupted"))
                         ELSE Append(Append(r, StepEnd(turn, tail.step, "interrupted")),
                                     TurnEnd(turn, "interrupted"))
                  /\ tail.step # 0 => StepEnd(turn, tail.step, "interrupted") \in Events
<1> DEFINE turn == TailScan(l).turn
           tail == TailScan(l).scan
           r == [i \in DOMAIN tail.pending |->
                     ToolResult(turn, tail.pending[i].call,
                       IF tail.pending[i].started THEN "outcome-unknown" ELSE "not-started")]
           out(i) == IF tail.pending[i].started THEN "outcome-unknown" ELSE "not-started"
           end == TurnEnd(turn, "interrupted")
           step == StepEnd(turn, tail.step, "interrupted")
<1>1. turn \in Nat /\ tail \in Tails /\ tail.pending \in Seq(Pendings) /\ tail.step \in Nat
  BY TailScanType DEF Tails
<1>2. turn = 0 => Closers(l) = << >>
  <2> SUFFICES ASSUME turn = 0 PROVE Closers(l) = << >>
    OBVIOUS
  <2>1. Closers(l) = << >> \o << >>
    BY DEF Closers
  <2> QED
    BY <2>1
<1>3. turn # 0 => turn \in Numbers
  BY <1>1 DEF Numbers
<1>4. Closers(l) = << >> \o (IF turn = 0 THEN << >>
                ELSE r \o (IF tail.step = 0 THEN << >> ELSE <<step>>) \o <<end>>)
  BY DEF Closers
<1> HIDE DEF turn, tail, step, end
<1>5. ASSUME turn # 0
      PROVE  /\ end \in Events /\ (tail.step # 0 => step \in Events)
             /\ r \in Seq(Events) /\ Len(r) = Len(tail.pending)
  <2>1. end \in Events
    BY <1>3, <1>5, EventTypes DEF end
  <2>2. tail.step # 0 => step \in Events
    BY <1>1, <1>3, <1>5, EventTypes DEF step, Numbers
  <2>3. ASSUME NEW i \in DOMAIN tail.pending
        PROVE  ToolResult(turn, tail.pending[i].call, out(i)) \in Events
    <3>1. tail.pending[i] \in Pendings
      BY <1>1
    <3>2. tail.pending[i].call \in Calls
      BY <3>1 DEF Pendings
    <3> QED
      BY <1>3, <1>5, <3>2, EventTypes
  <2>4. DOMAIN tail.pending = 1 .. Len(tail.pending) /\ Len(tail.pending) \in Nat
    BY <1>1
  <2>5. r \in Seq(Events) /\ Len(r) = Len(tail.pending)
    BY <2>3, <2>4
  <2> QED
    BY <2>1, <2>2, <2>5
<1>6. ASSUME turn # 0
      PROVE  Closers(l) = IF tail.step = 0 THEN Append(r, end) ELSE Append(Append(r, step), end)
  <2>1. /\ end \in Events /\ (tail.step # 0 => step \in Events) /\ r \in Seq(Events)
    BY <1>5, <1>6
  <2> HIDE DEF r
  <2>2. Closers(l) = << >> \o (r \o (IF tail.step = 0 THEN << >> ELSE <<step>>) \o <<end>>)
    BY <1>4, <1>6
  <2>3. CASE tail.step = 0
    <3>1. Closers(l) = << >> \o ((r \o << >>) \o <<end>>)
      BY <2>2, <2>3
    <3>2. << >> \o ((r \o << >>) \o <<end>>) = Append(r, end)
      BY <2>1
    <3> QED
      BY <2>3, <3>1, <3>2
  <2>4. CASE tail.step # 0
    <3>1. Closers(l) = << >> \o ((r \o <<step>>) \o <<end>>)
      BY <2>2, <2>4
    <3>2. r \o <<step>> = Append(r, step) /\ Append(r, step) \in Seq(Events)
      BY <2>1, <2>4
    <3>3. << >> \o (Append(r, step) \o <<end>>) = Append(Append(r, step), end)
      BY <2>1, <3>2
    <3> QED
      BY <2>4, <3>1, <3>2, <3>3
  <2> QED
    BY <2>3, <2>4
<1> QED
  BY <1>2, <1>3, <1>5, <1>6 DEF turn, tail, end, step

(* A log that grows by results only.                                       *)
Brackets == {"turn/start", "turn/end", "step/start", "step/end"}
Grown(l, k, n, r) ==
  /\ k \in Seq(Events)
  /\ CommandScan(k).ok /\ CommandScan(k).open = 0
  /\ Surface(k).ok = Surface(l).ok
  /\ Surface(k).openTurn = Surface(l).openTurn /\ Surface(k).openStep = Surface(l).openStep
  /\ Len(Surface(k).nodes) = Len(Surface(l).nodes) + n
  /\ \A i \in 1 .. Len(Surface(l).nodes) : Surface(k).nodes[i] = Surface(l).nodes[i]
  /\ \A i \in 1 .. n : /\ Surface(k).nodes[Len(Surface(l).nodes) + i].event = r[i]
                       /\ Surface(k).nodes[Len(Surface(l).nodes) + i].turn = r[i].turn
  /\ \A type \in Brackets : Count(k, type) = Count(l, type)

(* One more result.                                                        *)
LEMMA GrownStep ==
  ASSUME NEW l \in Seq(Events), NEW k, NEW n \in Nat, NEW r \in Seq(Events), Grown(l, k, n, r),
         n + 1 \in DOMAIN r, r[n + 1].type = "tool/result"
  PROVE  Grown(l, Append(k, r[n + 1]), n + 1, r)
<1> DEFINE e == r[n + 1]
           m == Append(k, e)
           now == Surface(k)
           next == Surface(m)
           base == Surface(l).nodes
<1>1. e \in Events /\ k \in Seq(Events) /\ m \in Seq(Events)
  BY DEF Grown
<1>2. CommandScan(m).ok /\ CommandScan(m).open = 0
  BY <1>1, CommandKeeps DEF Grown
<1>3. /\ next.ok = now.ok /\ next.nodes = Append(now.nodes, Node(now.at + 1, e))
      /\ next.openTurn = now.openTurn /\ next.openStep = now.openStep
  BY <1>1, SurfaceKeeps DEF IsMessage
<1>4. now.nodes \in Seq(Nodes) /\ base \in Seq(Nodes) /\ now.at \in Nat
  BY <1>1, SurfaceType DEF Surfaces
<1>5. /\ Len(now.nodes) = Len(base) + n
      /\ \A i \in 1 .. Len(base) : now.nodes[i] = base[i]
      /\ \A i \in 1 .. n : now.nodes[Len(base) + i].event = r[i] /\ now.nodes[Len(base) + i].turn = r[i].turn
  BY DEF Grown
<1>6. \A type \in Brackets : Count(m, type) = Count(l, type)
  <2> TAKE type \in Brackets
  <2>1. Count(m, type) = Count(k, type) + (IF e.type = type THEN 1 ELSE 0)
    BY <1>1, CountAppend
  <2>2. Count(k, type) = Count(l, type) /\ Count(k, type) \in Nat /\ e.type # type
    BY <1>1, CountType DEF Grown, Brackets
  <2> QED
    BY <2>1, <2>2
<1> DEFINE x == Node(now.at + 1, e)
<1>7. x.event = e /\ x.turn = e.turn
  BY DEF Node
<1> HIDE DEF now, next, base, m, x
<1>8. /\ Len(next.nodes) = Len(base) + (n + 1)
      /\ \A i \in 1 .. Len(base) : next.nodes[i] = base[i]
      /\ \A i \in 1 .. n : next.nodes[Len(base) + i] = now.nodes[Len(base) + i]
      /\ next.nodes[Len(base) + (n + 1)] = x
  <2>1. next.nodes = Append(now.nodes, x) /\ now.nodes \in Seq(Nodes) /\ Len(base) \in Nat
        /\ Len(now.nodes) = Len(base) + n
    BY <1>3, <1>4, <1>5 DEF x
  <2>2. Len(next.nodes) = Len(now.nodes) + 1 /\ next.nodes[Len(now.nodes) + 1] = x
        /\ \A i \in 1 .. Len(now.nodes) : next.nodes[i] = now.nodes[i]
    BY <2>1
  <2>3. Len(now.nodes) + 1 = Len(base) + (n + 1)
    BY <2>1
  <2>4. \A i \in 1 .. Len(base) : i \in 1 .. Len(now.nodes)
    BY <2>1
  <2>5. \A i \in 1 .. n : Len(base) + i \in 1 .. Len(now.nodes)
    BY <2>1
  <2> QED
    BY <1>5, <2>2, <2>3, <2>4, <2>5
<1>9. \A i \in 1 .. n + 1 : next.nodes[Len(base) + i].event = r[i] /\ next.nodes[Len(base) + i].turn = r[i].turn
  <2> TAKE i \in 1 .. n + 1
  <2>1. CASE i = n + 1
    BY <1>7, <1>8, <2>1
  <2>2. CASE i \in 1 .. n
    BY <1>5, <1>8, <2>2
  <2> QED
    BY <2>1, <2>2
<1>10. now.ok = Surface(l).ok /\ now.openTurn = Surface(l).openTurn /\ now.openStep = Surface(l).openStep
  BY DEF Grown, now
<1> QED
  BY <1>1, <1>2, <1>3, <1>6, <1>8, <1>9, <1>10 DEF Grown, base, next, m

(* Any number of results.                                                  *)
LEMMA GrownTo ==
  ASSUME NEW l \in Seq(Events), NEW r \in Seq(Events), CommandScan(l).ok, CommandScan(l).open = 0,
         \A i \in DOMAIN r : r[i].type = "tool/result"
  PROVE  Grown(l, l \o r, Len(r), r)
<1> DEFINE k(i) == l \o SubSeq(r, 1, i)
           B == {i \in 0 .. Len(r) : Grown(l, k(i), i, r)}
<1>1. Len(r) \in Nat /\ DOMAIN r = 1 .. Len(r)
  OBVIOUS
<1>2. 0 \in B
  <2>1. k(0) = l
    OBVIOUS
  <2>2. Surface(l).nodes \in Seq(Nodes)
    BY SurfaceType DEF Surfaces
  <2>3. Grown(l, l, 0, r)
    BY <2>2 DEF Grown
  <2> HIDE DEF k
  <2> QED
    BY <1>1, <2>1, <2>3
<1>3. ASSUME NEW i \in 1 .. Len(r), i - 1 \in B PROVE i \in B
  <2> DEFINE n == i - 1
  <2>1. n \in Nat /\ n + 1 = i /\ n \in 0 .. Len(r) /\ Grown(l, k(n), n, r)
    BY <1>3
  <2>2. k(i) = Append(k(n), r[i])
    <3> DEFINE a == SubSeq(r, 1, n)
    <3>1. SubSeq(r, 1, i) = Append(a, r[i])
      BY <2>1
    <3>2. a \in Seq(Events) /\ r[i] \in Events
      BY <2>1
    <3> HIDE DEF a
    <3>3. l \o Append(a, r[i]) = Append(l \o a, r[i])
      BY <3>2
    <3> QED
      BY <3>1, <3>3 DEF a
  <2>3. Grown(l, Append(k(n), r[i]), i, r)
    <3> HIDE DEF n, k
    <3> QED
      BY <1>1, <2>1, GrownStep
  <2>4. i \in 0 .. Len(r)
    BY <1>1
  <2> HIDE DEF k, n
  <2>5. Grown(l, k(i), i, r)
    BY <2>2, <2>3
  <2> QED
    BY <2>4, <2>5
<1>4. 0 .. Len(r) \subseteq B
  <2> HIDE DEF B
  <2> QED
    BY <1>1, <1>2, <1>3, UpTo
<1>5. k(Len(r)) = l \o r
  BY <1>1
<1>6. Len(r) \in B
  <2> HIDE DEF B
  <2> QED
    BY <1>1, <1>4
<1>7. Grown(l, k(Len(r)), Len(r), r)
  <2> HIDE DEF k
  <2> QED
    BY <1>6
<1> HIDE DEF k
<1> QED
  BY <1>5, <1>7

(* The log a new process goes on with.                                     *)
Results(l) ==
  [i \in DOMAIN TailScan(l).scan.pending |->
     ToolResult(TailScan(l).turn, TailScan(l).scan.pending[i].call,
       IF TailScan(l).scan.pending[i].started THEN "outcome-unknown" ELSE "not-started")]

(* The log and its closers: everything is closed, every call answered.     *)
LEMMA Recovered ==
  ASSUME NEW l \in Seq(Events), CommandScan(l).ok, CommandScan(l).open = 0, TailScan(l).turn # 0
  PROVE  LET k == l \o Closers(l)
             turn == TailScan(l).turn
             step == TailScan(l).scan.step
             p == TailScan(l).scan.pending
             base == Surface(l).nodes
         IN  /\ k \in Seq(Events)
             /\ CommandScan(k).ok /\ CommandScan(k).open = 0
             /\ TailScan(k) = [turn |-> 0, scan |-> NewTail]
             /\ Surface(k).ok = Surface(l).ok
             /\ Surface(k).openTurn = IF Surface(l).openTurn = turn THEN 0 ELSE Surface(l).openTurn
             /\ Surface(k).openStep = IF Surface(l).openStep = step THEN 0 ELSE Surface(l).openStep
             /\ Len(Surface(k).nodes) = Len(base) + Len(p)
             /\ \A i \in 1 .. Len(base) : Surface(k).nodes[i] = base[i]
             /\ \A i \in 1 .. Len(p) :
                  /\ Surface(k).nodes[Len(base) + i].event = Results(l)[i]
                  /\ Surface(k).nodes[Len(base) + i].turn = turn
             /\ Count(k, "turn/start") = Count(l, "turn/start")
             /\ Count(k, "turn/end") = Count(l, "turn/end") + 1
             /\ Count(k, "step/start") = Count(l, "step/start")
             /\ Count(k, "step/end") = Count(l, "step/end") + (IF step = 0 THEN 0 ELSE 1)
             /\ Len(k) >= Len(l)
             /\ \A i \in 1 .. Len(l) : k[i] = l[i]
             /\ \A i \in Len(l) + 1 .. Len(k) :
                  /\ k[i].turn = turn
                  /\ k[i].type = "tool/result" => \E j \in DOMAIN p : k[i] = Results(l)[j]
<1> DEFINE turn == TailScan(l).turn
           tail == TailScan(l).scan
           step == tail.step
           p == tail.pending
           r == Results(l)
           end == TurnEnd(turn, "interrupted")
           stop == StepEnd(turn, step, "interrupted")
           a == l \o r
           b == Append(a, stop)
           k == l \o Closers(l)
           base == Surface(l).nodes
           m == IF step = 0 THEN a ELSE b
<1>1. /\ turn \in Numbers /\ end \in Events /\ r \in Seq(Events) /\ Len(r) = Len(p)
      /\ Closers(l) = IF step = 0 THEN Append(r, end) ELSE Append(Append(r, stop), end)
      /\ (step # 0 => stop \in Events)
  BY ClosersAre DEF Results
<1>2. tail \in Tails /\ p \in Seq(Pendings) /\ step \in Nat
  BY TailScanType DEF Tails
<1>3. \A i \in DOMAIN r : r[i].type = "tool/result" /\ r[i].turn = turn
  BY DEF Results, ToolResult
<1>4. Grown(l, a, Len(r), r)
  <2> HIDE DEF r
  <2> QED
    BY <1>1, <1>3, GrownTo
<1> HIDE DEF r
<1>5. a \in Seq(Events) /\ m \in Seq(Events) /\ k = Append(m, end)
  <2>1. a \in Seq(Events) /\ (step # 0 => b \in Seq(Events))
    BY <1>1
  <2>2. CASE step = 0
    <3>1. l \o Append(r, end) = Append(a, end)
      BY <1>1
    <3> QED
      BY <1>1, <2>1, <2>2, <3>1
  <2>3. CASE step # 0
    <3> DEFINE c == Append(r, stop)
    <3>1. c \in Seq(Events) /\ l \o c = b
      BY <1>1, <2>3
    <3> HIDE DEF c
    <3>2. l \o Append(c, end) = Append(b, end)
      <4>1. end \in Events
        BY <1>1
      <4> HIDE DEF b, end
      <4>2. l \o Append(c, end) = Append(l \o c, end)
        BY <3>1, <4>1
      <4> QED
        BY <3>1, <4>2
    <3>3. Closers(l) = Append(c, end)
      BY <1>1, <2>3 DEF c
    <3> QED
      BY <2>1, <2>3, <3>2, <3>3
  <2> QED
    BY <2>2, <2>3
<1>6. end.type = "turn/end" /\ end.turn = turn /\ stop.type = "step/end" /\ stop.turn = turn
      /\ stop.step = step
  BY DEF TurnEnd, StepEnd
<1> HIDE DEF a, b, end, stop, k, turn, tail, base
<1>7. /\ CommandScan(a).ok /\ CommandScan(a).open = 0 /\ Surface(a).ok = Surface(l).ok
      /\ Surface(a).openTurn = Surface(l).openTurn /\ Surface(a).openStep = Surface(l).openStep
      /\ Len(Surface(a).nodes) = Len(base) + Len(p)
      /\ \A i \in 1 .. Len(base) : Surface(a).nodes[i] = base[i]
      /\ \A i \in 1 .. Len(p) : /\ Surface(a).nodes[Len(base) + i].event = r[i]
                                /\ Surface(a).nodes[Len(base) + i].turn = r[i].turn
      /\ \A type \in Brackets : Count(a, type) = Count(l, type) /\ Count(a, type) \in Nat
  BY <1>1, <1>4, <1>5, CountType DEF Grown, base
<1>8. /\ CommandScan(m).ok /\ CommandScan(m).open = 0 /\ Surface(m).ok = Surface(l).ok
      /\ Surface(m).openTurn = Surface(l).openTurn
      /\ Surface(m).openStep = IF Surface(l).openStep = step THEN 0 ELSE Surface(l).openStep
      /\ Surface(m).nodes = Surface(a).nodes
      /\ \A type \in Brackets : Count(m, type) = Count(l, type)
            + (IF step # 0 /\ type = "step/end" THEN 1 ELSE 0)
  <2>1. CASE step = 0
    <3>1. m = a
      BY <2>1
    <3> HIDE DEF m
    <3> QED
      BY <1>7, <2>1, <3>1
  <2>2. CASE step # 0
    <3>1. m = Append(a, stop) /\ stop \in Events
      BY <1>1, <2>2 DEF b
    <3> HIDE DEF m
    <3>2. CommandScan(m).ok /\ CommandScan(m).open = 0
      BY <1>5, <1>6, <1>7, <3>1, CommandKeeps
    <3>3. /\ Surface(m).ok = Surface(a).ok /\ Surface(m).nodes = Surface(a).nodes
          /\ Surface(m).openTurn = Surface(a).openTurn
          /\ Surface(m).openStep = IF Surface(a).openStep = step THEN 0 ELSE Surface(a).openStep
      BY <1>5, <1>6, <3>1, SurfaceKeeps DEF IsMessage
    <3>4. \A type \in Brackets : Count(m, type) = Count(a, type)
            + (IF step # 0 /\ type = "step/end" THEN 1 ELSE 0)
      BY <1>5, <1>6, <2>2, <3>1, CountAppend
    <3> QED
      BY <1>7, <3>2, <3>3, <3>4
  <2> QED
    BY <2>1, <2>2
<1> HIDE DEF m
<1>9. /\ CommandScan(k).ok /\ CommandScan(k).open = 0
      /\ TailScan(k) = [turn |-> 0, scan |-> NewTail]
      /\ Surface(k).ok = Surface(m).ok /\ Surface(k).nodes = Surface(m).nodes
      /\ Surface(k).openTurn = IF Surface(m).openTurn = turn THEN 0 ELSE Surface(m).openTurn
      /\ Surface(k).openStep = Surface(m).openStep
  <2>1. CommandScan(k).ok /\ CommandScan(k).open = 0
    BY <1>1, <1>5, <1>6, <1>8, CommandKeeps
  <2>2. TailScan(k) = [turn |-> 0, scan |-> NewTail]
    BY <1>1, <1>5, <1>6, TailAppend
  <2>3. /\ Surface(k).ok = Surface(m).ok /\ Surface(k).nodes = Surface(m).nodes
        /\ Surface(k).openTurn = IF Surface(m).openTurn = turn THEN 0 ELSE Surface(m).openTurn
        /\ Surface(k).openStep = Surface(m).openStep
    <3>1. ~IsMessage(end) /\ end.type \notin {"turn/start", "step/start", "step/end"}
      BY <1>6 DEF IsMessage
    <3>2. /\ Surface(k).ok = Surface(m).ok /\ Surface(k).nodes = Surface(m).nodes
          /\ Surface(k).openTurn = CASE end.type = "turn/start" -> end.turn
                                  [] end.type = "turn/end" /\ Surface(m).openTurn = end.turn -> 0
                                  [] OTHER -> Surface(m).openTurn
          /\ Surface(k).openStep = CASE end.type = "step/start" -> end.step
                                  [] end.type = "step/end" /\ Surface(m).openStep = end.step -> 0
                                  [] OTHER -> Surface(m).openStep
      BY <1>1, <1>5, <1>6, <3>1, SurfaceKeeps
    <3> QED
      BY <1>6, <3>1, <3>2
  <2> QED
    BY <2>1, <2>2, <2>3
<1>10. \A type \in Brackets : Count(k, type) = Count(m, type) + (IF type = "turn/end" THEN 1 ELSE 0)
  BY <1>1, <1>5, <1>6, CountAppend
<1>11. /\ Count(k, "turn/start") = Count(l, "turn/start")
       /\ Count(k, "turn/end") = Count(l, "turn/end") + 1
       /\ Count(k, "step/start") = Count(l, "step/start")
       /\ Count(k, "step/end") = Count(l, "step/end") + (IF step = 0 THEN 0 ELSE 1)
  <2>1. \A type \in Brackets : Count(l, type) \in Nat
    BY CountType
  <2> QED
    BY <1>8, <1>10, <2>1 DEF Brackets
<1>12. /\ Len(k) >= Len(l) /\ \A i \in 1 .. Len(l) : k[i] = l[i]
       /\ \A i \in Len(l) + 1 .. Len(k) :
            \/ k[i] = end \/ k[i] = stop
            \/ i - Len(l) \in DOMAIN r /\ k[i] = r[i - Len(l)]
  <2>0. Len(l) \in Nat /\ Len(r) \in Nat
    BY <1>1
  <2>1. Len(a) = Len(l) + Len(r) /\ (\A i \in 1 .. Len(l) : a[i] = l[i])
        /\ \A i \in Len(l) + 1 .. Len(a) : i - Len(l) \in DOMAIN r /\ a[i] = r[i - Len(l)]
    <3>1. Len(a) = Len(l) + Len(r) /\ \A i \in 1 .. Len(l) : a[i] = l[i]
      BY <1>1 DEF a
    <3>2. ASSUME NEW i \in Len(l) + 1 .. Len(a)
          PROVE  i - Len(l) \in DOMAIN r /\ a[i] = r[i - Len(l)]
      <4>1. i - Len(l) \in 1 .. Len(r) /\ i \in 1 .. Len(l) + Len(r) /\ ~(i <= Len(l))
        BY <2>0, <3>1
      <4> QED
        BY <1>1, <4>1 DEF a
    <3> QED
      BY <3>1, <3>2
  <2>2. CASE step = 0
    <3>1. k = Append(a, end)
      BY <1>5, <2>2 DEF m
    <3>2. Len(k) = Len(a) + 1 /\ k[Len(a) + 1] = end /\ \A i \in 1 .. Len(a) : k[i] = a[i]
      BY <1>5, <3>1
    <3>3. \A i \in Len(l) + 1 .. Len(k) : i = Len(a) + 1 \/ i \in Len(l) + 1 .. Len(a)
      BY <2>0, <2>1, <3>2
    <3>4. \A i \in 1 .. Len(l) : i \in 1 .. Len(a)
      BY <2>0, <2>1
    <3>5. \A i \in Len(l) + 1 .. Len(a) : i \in 1 .. Len(a)
      BY <2>0, <2>1
    <3> QED
      BY <2>0, <2>1, <3>2, <3>3, <3>4, <3>5
  <2>3. CASE step # 0
    <3>1. k = Append(b, end) /\ b = Append(a, stop) /\ stop \in Events
      BY <1>1, <1>5, <2>3 DEF m, b
    <3>2. Len(b) = Len(a) + 1 /\ b[Len(a) + 1] = stop /\ \A i \in 1 .. Len(a) : b[i] = a[i]
      BY <1>5, <3>1
    <3>3. Len(k) = Len(b) + 1 /\ k[Len(b) + 1] = end /\ \A i \in 1 .. Len(b) : k[i] = b[i]
      BY <1>1, <1>5, <3>1
    <3>4. \A i \in Len(l) + 1 .. Len(k) : i = Len(b) + 1 \/ i = Len(a) + 1 \/ i \in Len(l) + 1 .. Len(a)
      BY <2>0, <2>1, <3>2, <3>3
    <3>5. \A i \in 1 .. Len(l) : i \in 1 .. Len(a) /\ i \in 1 .. Len(b)
      BY <2>0, <2>1, <3>2
    <3>6. \A i \in Len(l) + 1 .. Len(a) : i \in 1 .. Len(a) /\ i \in 1 .. Len(b)
      BY <2>0, <2>1, <3>2
    <3>7. Len(a) + 1 \in 1 .. Len(b)
      BY <2>0, <2>1, <3>2
    <3> QED
      BY <2>0, <2>1, <3>2, <3>3, <3>4, <3>5, <3>6, <3>7
  <2> QED
    BY <2>2, <2>3
<1>13. ASSUME NEW i \in Len(l) + 1 .. Len(k)
       PROVE  k[i].turn = turn /\ (k[i].type = "tool/result" => \E j \in DOMAIN p : k[i] = r[j])
  <2>1. DOMAIN r = DOMAIN p
    BY DEF Results, r, p, tail
  <2> QED
    BY <1>3, <1>6, <1>12, <2>1
<1>14. \A i \in 1 .. Len(p) : i \in DOMAIN r
  BY <1>1, <1>2
<1>15. k \in Seq(Events)
  BY <1>1, <1>5
<1>16. /\ Len(Surface(k).nodes) = Len(base) + Len(p)
       /\ \A i \in 1 .. Len(base) : Surface(k).nodes[i] = base[i]
       /\ \A i \in 1 .. Len(p) : /\ Surface(k).nodes[Len(base) + i].event = r[i]
                                 /\ Surface(k).nodes[Len(base) + i].turn = turn
  <2>1. Surface(k).nodes = Surface(a).nodes
    BY <1>8, <1>9
  <2>2. /\ Len(Surface(a).nodes) = Len(base) + Len(p)
        /\ \A i \in 1 .. Len(base) : Surface(a).nodes[i] = base[i]
    BY <1>7
  <2>3. \A i \in 1 .. Len(p) : /\ Surface(a).nodes[Len(base) + i].event = r[i]
                                /\ Surface(a).nodes[Len(base) + i].turn = turn
    BY <1>3, <1>7, <1>14
  <2> QED
    BY <2>1, <2>2, <2>3
<1> QED
  BY <1>8, <1>9, <1>11, <1>12, <1>13, <1>15, <1>16 DEF k, turn, tail, r, base
-------------------------------------------------------------------------------
(* Every step is one of these.                                             *)
LEMMA NextIs ==
  ASSUME TypeInv, LoopInv, CancelInv, [Next]_vars
  PROVE  \/ Still \/ Starts \/ Says \/ StepStarts \/ StepEnds \/ Ends \/ Answers
         \/ Requested \/ Recorded \/ Asked \/ Judged \/ Readied
         \/ Acts \/ Reload
<1>1. /\ loop \in Loops /\ Good(loop) /\ loop.step \in Nat
      /\ log \in Seq(Events) /\ storage \in Storages
  BY DEF TypeInv, LoopInv, CancelInv, Good, Loops
<1>2. storage.transient <= storage.transient
  BY <1>1, BoundAssumption DEF Storages
<1>3. CASE LoopStep
  BY <1>3, LoopStepIs
<1>4. CASE Run
  <2>1. Turns \in Nat /\ Turns + 1 \in Numbers
    BY <1>1, CountType DEF Turns, Numbers
  <2>2. TurnStart(Turns + 1) \in Events
    BY <2>1, EventTypes
  <2> DEFINE s == [Idle EXCEPT !.pc = "user", !.turn = Turns + 1, !.step = 1]
  <2>3. At("idle") /\ AppendOr(TurnStart(Turns + 1), s, Idle) /\ effects' = effects
    BY <1>4 DEF Run, Turns
  <2> HIDE DEF s
  <2>4. (Appends(TurnStart(Turns + 1)) /\ loop' = s) \/ Still
    BY <2>2, <2>3, Splits, StillIdle
  <2> QED
    BY <2>3, <2>4 DEF Starts, s
<1>5. CASE Cancel
  <2>1. Live /\ Same /\ loop'.pc = loop.pc /\ loop'.step = loop.step
    BY <1>1, <1>5 DEF Cancel, Loops, Same, Live, Runs, Awaiting
  <2>2. Later
    BY <1>1, <2>1 DEF Later, Live, Runs, NextBatch
  <2> QED
    BY <1>2, <1>5, <2>1, <2>2 DEF Cancel, Still
<1>6. CASE Effect
  BY <1>6 DEF Effect, Acts
<1>7. CASE Crash
  <2>1. loop'.pc = "down"
    BY <1>7 DEF Crash, Idle
  <2>2. storage'.transient = storage.transient
    BY <1>1, <1>7 DEF Crash, Storages
  <2> QED
    BY <1>2, <1>7, <2>1, <2>2 DEF Crash, Still
<1>8. CASE UNCHANGED vars
  <2>1. Live => Same /\ Later /\ loop'.pc = loop.pc
    BY <1>1, <1>8 DEF vars, Same, Later, Live, Runs, NextBatch
  <2>2. Live \/ loop'.pc = "down" \/ (At("idle") /\ loop'.pc = "idle")
    BY <1>8 DEF vars, Live, Runs, At
  <2> QED
    BY <1>2, <1>8, <2>1, <2>2 DEF vars, Still
<1> QED
  BY <1>3, <1>4, <1>5, <1>6, <1>7, <1>8 DEF Next

(* The log, the loop and the scan of commands.                             *)
BaseInv == TypeInv /\ LoopInv /\ CancelInv /\ CommandInv

(* The logs a session starts with.                                         *)
LEMMA InitBase ==
  ASSUME Init
  PROVE  BaseInv /\ Surface(log).ok /\ TailScan(log).scan.ok /\ TailScan(log).turn = 0
<1>1. /\ log \in Seq(Events) /\ Surface(log).ok /\ CommandScan(log).ok /\ TailScan(log).scan.ok
      /\ CommandScan(log).open = 0 /\ TailScan(log).turn = 0
  BY LogAssumption DEF Init, Loadable
<1>2. storage \in Storages
  <2>1. 0 \in 0 .. MaxTransient
    BY BoundAssumption
  <2> QED
    BY <2>1 DEF Init, Storages
<1>3. loop \in Loops /\ LoopOk(loop) /\ CancelOk(loop)
  BY IdleGood DEF Init, Good
<1>4. running \in BOOLEAN /\ effects \in SUBSET Effects
  BY DEF Init
<1> QED
  BY <1>1, <1>2, <1>3, <1>4 DEF BaseInv, TypeInv, LoopInv, CancelInv, CommandInv

(* One more event that is no command.                                      *)
LEMMA CommandAppended ==
  ASSUME BaseInv, NEW e, Appends(e), e.type \notin {"command/run", "command/done"}
  PROVE  CommandInv'
<1>1. CommandScan(Append(log, e)).ok /\ CommandScan(Append(log, e)).open = 0
  BY CommandKeeps DEF BaseInv, TypeInv, CommandInv, Appends
<1> QED
  BY <1>1 DEF CommandInv, Appends

(* A new process adds the closers of the open turn, or nothing.            *)
LEMMA ReloadIs ==
  ASSUME BaseInv, Reload
  PROVE  /\ Loadable(log) /\ loop' = Idle /\ effects' = effects /\ storage' = storage
         /\ log' \in Seq(Events)
         /\ Open.turn = 0 => log' = log
         /\ Open.turn # 0 => log' = log \o Closers(log)
<1>1. log \in Seq(Events) /\ CommandScan(log).ok /\ CommandScan(log).open = 0
  BY DEF BaseInv, TypeInv, CommandInv
<1>2. log' = log \o Closers(log)
  BY DEF Reload
<1>3. CASE Open.turn = 0
  <2>1. Closers(log) = << >>
    BY <1>1, <1>3, ClosersAre DEF Open
  <2>2. log \o << >> = log
    BY <1>1
  <2> QED
    BY <1>1, <1>2, <1>3, <2>1, <2>2 DEF Reload
<1>4. CASE Open.turn # 0
  <2>1. log \o Closers(log) \in Seq(Events)
    BY <1>1, <1>4, Recovered DEF Open
  <2> QED
    BY <1>2, <1>4, <2>1 DEF Reload
<1> QED
  BY <1>3, <1>4


(* The flag of the session.                                                *)
LEMMA RunningType ==
  ASSUME running \in BOOLEAN, LoopStep
  PROVE  running' \in BOOLEAN /\ effects' = effects
<1>1. CASE \/ RunUser \/ BeginStep \/ PrepareFails \/ ModelMessage \/ FinishStep \/ ModelFails
           \/ ModelAborts \/ Retry \/ GiveUp
  BY <1>1 DEF RunUser, BeginStep, PrepareFails, ModelMessage, FinishStep, ModelFails,
     ModelAborts, Retry, GiveUp
<1>2. CASE \/ BeginCall \/ EndStep \/ Ask \/ Prepare \/ PrepareRefused
           \/ EffectReturns \/ ExecuteAborts \/ EndCall
  BY <1>2 DEF BeginCall, EndStep, Ask, Prepare, PrepareRefused,
     EffectReturns, ExecuteAborts, EndCall
<1>3. CASE ModelCalls \/ Decide
  BY <1>3 DEF ModelCalls, Decide
<1>4. CASE FinishTurn \/ CatchResult \/ CatchStep \/ CatchError
  BY <1>4 DEF FinishTurn, CatchResult, CatchStep, CatchError
<1>5. CASE CatchEnd
  BY <1>5 DEF CatchEnd
<1> QED
  BY <1>1, <1>2, <1>3, <1>4, <1>5 DEF LoopStep

(* The loop writes no command.                                             *)
LEMMA CommandStep ==
  ASSUME BaseInv,
         \/ Still \/ Starts \/ Says \/ StepStarts \/ StepEnds \/ Ends \/ Answers
         \/ Requested \/ Recorded \/ Asked \/ Judged \/ Readied \/ Acts
  PROVE  CommandInv'
<1>1. CASE Still \/ Acts
  BY <1>1 DEF Still, Acts, BaseInv, CommandInv
<1>2. CASE Starts
  BY <1>2, CommandAppended DEF Starts, TurnStart
<1>3. CASE Says
  BY <1>3, CommandAppended DEF Says, UserMessage, AssistantMessage, TurnError
<1>4. CASE StepStarts
  BY <1>4, CommandAppended DEF StepStarts, StepStart
<1>5. CASE StepEnds
  BY <1>5, CommandAppended DEF StepEnds, StepEnd
<1>6. CASE Ends
  BY <1>6, CommandAppended DEF Ends, TurnEnd
<1>7. CASE Answers
  BY <1>7, CommandAppended DEF Answers, ToolResult
<1>8. CASE Requested
  BY <1>8, CommandAppended DEF Requested, ToolCalls
<1>9. CASE Recorded
  BY <1>9, CommandAppended DEF Recorded, ToolCall
<1>10. CASE Asked
  BY <1>10, CommandAppended DEF Asked, ApprovalAsked
<1>11. CASE Judged
  BY <1>11, CommandAppended DEF Judged, ApprovalDecided
<1>12. CASE Readied
  BY <1>12, CommandAppended DEF Readied, SandboxPrepared
<1> QED
  BY <1>1, <1>2, <1>3, <1>4, <1>5, <1>6, <1>7, <1>8, <1>9, <1>10, <1>11, <1>12

(* Every step keeps the base.                                              *)
LEMMA BaseStep ==
  ASSUME BaseInv, [Next]_vars
  PROVE  BaseInv'
<1>1. TypeInv /\ LoopInv /\ CancelInv /\ Good(loop) /\ loop \in Loops /\ storage \in Storages
  BY DEF BaseInv, TypeInv, LoopInv, CancelInv, Good
<1>2. CASE LoopStep
  <2>1. Fine /\ running' \in BOOLEAN /\ effects' = effects
    BY <1>1, <1>2, LoopSteps, RunningType DEF TypeInv
  <2>2. TypeInv' /\ LoopInv' /\ CancelInv'
    BY <1>1, <2>1 DEF Fine, Good, TypeInv, LoopInv, CancelInv
  <2>3. CommandInv'
    BY <1>1, <1>2, LoopStepIs, CommandStep
  <2> QED
    BY <2>2, <2>3 DEF BaseInv
<1>3. CASE Run
  <2>1. Turns + 1 \in Numbers
    BY <1>1, CountType DEF Turns, Numbers, TypeInv
  <2>2. TurnStart(Turns + 1) \in Events
    BY <2>1, EventTypes
  <2> DEFINE s == [Idle EXCEPT !.pc = "user", !.turn = Turns + 1, !.step = 1]
  <2>3. AppendOr(TurnStart(Turns + 1), s, Idle) /\ effects' = effects /\ running' = TRUE
    BY <1>3 DEF Run, Turns
  <2>4. Good(s) /\ Good(Idle)
    BY <1>1, <2>1, OtherGood, IdleGood
  <2> HIDE DEF s
  <2>5. log' \in Seq(Events) /\ storage' \in Storages /\ Good(loop')
    BY <1>1, <2>2, <2>3, <2>4, AppendGood
  <2>6. TypeInv' /\ LoopInv' /\ CancelInv'
    BY <1>1, <2>3, <2>5 DEF Good, TypeInv, LoopInv, CancelInv
  <2>7. \/ Appends(TurnStart(Turns + 1)) \/ log' = log
    BY <1>1, <2>2, <2>3, Splits
  <2>8. CommandInv'
    BY <2>7, CommandAppended DEF TurnStart, BaseInv, CommandInv
  <2> QED
    BY <2>6, <2>8 DEF BaseInv
<1>4. CASE Cancel
  <2>1. Good(loop')
    BY <1>1, <1>4, OtherGood DEF Cancel
  <2>2. TypeInv' /\ LoopInv' /\ CancelInv'
    BY <1>1, <1>4, <2>1 DEF Cancel, Good, TypeInv, LoopInv, CancelInv
  <2> QED
    BY <1>4, <2>2 DEF Cancel, BaseInv, CommandInv
<1>5. CASE Effect
  <2>1. loop.turn \in Numbers /\ Current \in Calls
    BY <1>1, <1>5, CurrentType DEF Effect, At, Good, LoopOk, Runs, Executing
  <2>2. [turn |-> loop.turn, call |-> Current] \in Effects
    BY <2>1 DEF Effects
  <2>3. effects' \in SUBSET Effects
    BY <1>1, <1>5, <2>2 DEF Effect, TypeInv
  <2> QED
    BY <1>1, <1>5, <2>3 DEF Effect, TypeInv, LoopInv, CancelInv, BaseInv, CommandInv
<1>6. CASE Crash
  <2>1. Good(loop')
    BY <1>6, IdleGood DEF Crash
  <2>2. storage' \in Storages
    <3> DEFINE u == [storage EXCEPT !.crashes = @ + 1]
    <3>1. u \in Storages
      BY <1>1 DEF Storages
    <3>2. storage' = [u EXCEPT !.broken = FALSE]
      BY <1>6 DEF Crash
    <3> HIDE DEF u
    <3> QED
      BY <3>1, <3>2 DEF Storages
  <2>3. TypeInv' /\ LoopInv' /\ CancelInv'
    BY <1>1, <1>6, <2>1, <2>2 DEF Crash, Good, TypeInv, LoopInv, CancelInv
  <2> QED
    BY <1>6, <2>3 DEF Crash, BaseInv, CommandInv
<1>7. CASE Reload
  <2>1. Good(loop')
    BY <1>7, IdleGood DEF Reload
  <2>2. log' \in Seq(Events) /\ (log' = log \/ (log' = log \o Closers(log) /\ Open.turn # 0))
    BY <1>7, ReloadIs
  <2>3. TypeInv' /\ LoopInv' /\ CancelInv'
    BY <1>1, <1>7, <2>1, <2>2 DEF Reload, Good, TypeInv, LoopInv, CancelInv
  <2>4. CommandInv'
    <3>1. CASE log' = log
      BY <3>1 DEF BaseInv, CommandInv
    <3>2. CASE log' = log \o Closers(log) /\ Open.turn # 0
      <4>1. CommandScan(log \o Closers(log)).ok /\ CommandScan(log \o Closers(log)).open = 0
        BY <1>1, <3>2, Recovered DEF BaseInv, TypeInv, CommandInv, Open
      <4> QED
        BY <3>2, <4>1 DEF CommandInv
    <3> QED
      BY <2>2, <3>1, <3>2
  <2> QED
    BY <2>3, <2>4 DEF BaseInv
<1>8. CASE UNCHANGED vars
  BY <1>8 DEF vars, BaseInv, TypeInv, LoopInv, CancelInv, CommandInv
<1> QED
  BY <1>2, <1>3, <1>4, <1>5, <1>6, <1>7, <1>8 DEF Next

(* The types, the locals of run and the scan of commands, throughout.      *)
THEOREM BaseIsInvariant == Spec => []BaseInv
<1>1. Init => BaseInv
  BY InitBase
<1>2. BaseInv /\ [Next]_vars => BaseInv'
  BY BaseStep
<1> QED
  BY <1>1, <1>2, PTL DEF Spec
-------------------------------------------------------------------------------
(* Once the signal has aborted, what is appended answers a call as         *)
(* cancelled or ends the step or the turn as aborted.                      *)
LEMMA CancelStep ==
  ASSUME BaseInv, [Next]_vars, loop.cancelled, log' # log
  PROVE  \/ Last(log').type = "tool/result" /\ Last(log').outcome \in CancelledResults
         \/ Last(log') \in {StepEnd(loop.turn, loop.step, "aborted"),
                            TurnEnd(loop.turn, "aborted")}
<1>1. /\ log \in Seq(Events) /\ LoopOk(loop) /\ CancelOk(loop) /\ loop \in Loops
  BY DEF BaseInv, TypeInv, LoopInv, CancelInv
<1>2. Live /\ loop.pc \in {"prepare", "model", "recover", "approve", "sandbox", "effect", "settle", "catch"}
  BY <1>1 DEF LoopOk, CancelOk, Runs, Live, Loops, Labels
<1>3. ASSUME NEW e, log' = Append(log, e) PROVE Last(log') = e
  BY <1>1, <1>3 DEF Last
<1>4. CASE CatchResult
  <2>1. log' = Append(log, ToolResult(loop.turn, Current, CaughtResult(Head(loop.pending))))
    BY <1>4 DEF CatchResult, AppendOr
  <2>2. Last(log') = ToolResult(loop.turn, Current, CaughtResult(Head(loop.pending)))
    BY <1>3, <2>1
  <2>3. CaughtResult(Head(loop.pending)) \in CancelledResults
    BY <1>1, <1>4 DEF CatchResult, At, CancelOk, CaughtResult, CancelledResults
  <2> QED
    BY <2>2, <2>3 DEF ToolResult
<1>5. CASE CatchStep
  <2>1. log' = Append(log, StepEnd(loop.turn, loop.open, loop.cause)) /\ loop.open = loop.step
    BY <1>1, <1>5 DEF CatchStep, AppendOr, LoopOk
  <2>2. loop.cause = "aborted"
    BY <1>1, <1>5 DEF CatchStep, At, CancelOk
  <2> QED
    BY <1>3, <2>1, <2>2
<1>6. CASE CatchEnd
  <2>1. log' = Append(log, TurnEnd(loop.turn, loop.cause))
    BY <1>6 DEF CatchEnd, AppendOr
  <2>2. loop.cause = "aborted"
    BY <1>1, <1>6 DEF CatchEnd, At, CancelOk
  <2> QED
    BY <1>3, <2>1, <2>2
<1>7. CASE CatchError
  BY <1>1, <1>7 DEF CatchError, At, CancelOk
<1>8. ~(RunUser \/ BeginStep \/ ModelMessage \/ FinishStep \/ FinishTurn \/ ModelCalls
        \/ ModelFails \/ BeginCall \/ EndStep \/ Ask \/ Decide \/ Prepare \/ EndCall)
  BY <1>2 DEF RunUser, BeginStep, ModelMessage, FinishStep, FinishTurn, ModelCalls,
     ModelFails, BeginCall, EndStep, Ask, Decide, Prepare, EndCall, At
<1>9. ~(PrepareFails \/ ModelAborts \/ Retry \/ GiveUp \/ PrepareRefused \/ EffectReturns
        \/ ExecuteAborts)
  BY DEF PrepareFails, ModelAborts, Retry, GiveUp, PrepareRefused, EffectReturns, ExecuteAborts
<1>10. ~(Run \/ Cancel \/ Effect \/ Crash \/ Reload \/ UNCHANGED vars)
  BY <1>2 DEF Run, Cancel, Effect, Crash, Reload, vars, At, Live, Runs
<1> QED
  BY <1>4, <1>5, <1>6, <1>7, <1>8, <1>9, <1>10 DEF Next, LoopStep

(* A run whose signal has aborted starts nothing, and however far it gets  *)
(* before the storage fails or the process dies, it says of every call, of *)
(* the step and of the turn that they were cancelled: the step that ends   *)
(* the turn included (catch block of AgentLoop.run).                       *)
THEOREM CancelStops == Spec => CancelStopsWork
<1>1. BaseInv /\ [Next]_vars =>
        [loop.cancelled /\ log' # log =>
         \/ Last(log').type = "tool/result" /\ Last(log').outcome \in CancelledResults
         \/ Last(log') \in {StepEnd(loop.turn, loop.step, "aborted"),
                            TurnEnd(loop.turn, "aborted")}]_vars
  BY CancelStep
<1> QED
  BY <1>1, BaseIsInvariant, PTL DEF Spec, CancelStopsWork
-------------------------------------------------------------------------------
(* The log only grows.                                                     *)
Extends(l, k) == /\ k \in Seq(Events) /\ Len(l) <= Len(k)
                 /\ \A i \in 1 .. Len(l) : k[i] = l[i]

(* An append extends the log.                                              *)
LEMMA AppendExtends ==
  ASSUME NEW l \in Seq(Events), NEW e \in Events
  PROVE  /\ Extends(l, l) /\ Extends(l, Append(l, e))
         /\ Len(Append(l, e)) = Len(l) + 1 /\ Append(l, e)[Len(l) + 1] = e
         /\ DOMAIN Append(l, e) = DOMAIN l \cup {Len(l) + 1} /\ DOMAIN l = 1 .. Len(l)
         /\ Len(l) \in Nat
BY DEF Extends

(* The log only grows.                                                     *)
LEMMA Grows ==
  ASSUME BaseInv, [Next]_vars
  PROVE  Extends(log, log')
<1>1. log \in Seq(Events) /\ TypeInv /\ LoopInv /\ CancelInv
  BY DEF BaseInv, TypeInv
<1>2. CASE Reload
  <2>1. log' = log \/ (log' = log \o Closers(log) /\ Open.turn # 0)
    BY <1>2, ReloadIs
  <2>2. CASE log' = log
    BY <1>1, <2>2 DEF Extends
  <2>3. CASE log' = log \o Closers(log) /\ Open.turn # 0
    <3> DEFINE k == log \o Closers(log)
    <3>1. k \in Seq(Events) /\ Len(k) >= Len(log) /\ \A i \in 1 .. Len(log) : k[i] = log[i]
      BY <1>1, <2>3, Recovered DEF BaseInv, CommandInv, Open
    <3>2. Len(log) \in Nat /\ Len(k) \in Nat
      BY <1>1, <3>1
    <3> HIDE DEF k
    <3>3. Extends(log, k)
      BY <3>1, <3>2 DEF Extends
    <3> QED
      BY <2>3, <3>3 DEF k
  <2> QED
    BY <2>1, <2>2, <2>3
<1>3. ASSUME NEW e, Appends(e) PROVE Extends(log, log')
  BY <1>1, <1>3, AppendExtends DEF Appends
<1>4. CASE Still \/ Acts
  BY <1>1, <1>4 DEF Still, Acts, Extends
<1>5. CASE \/ Starts \/ Says \/ StepStarts \/ StepEnds \/ Ends \/ Answers
           \/ Requested \/ Recorded \/ Asked \/ Judged \/ Readied
  BY <1>3, <1>5 DEF Starts, Says, StepStarts, StepEnds, Ends, Answers,
     Requested, Recorded, Asked, Judged, Readied
<1> QED
  BY <1>1, <1>2, <1>4, <1>5, NextIs

(* What is recorded stays recorded.                                        *)
LEMMA Remains ==
  ASSUME NEW l \in Seq(Events), NEW k, Extends(l, k), NEW t, NEW c
  PROVE  /\ IsRecorded(l, t, c) => IsRecorded(k, t, c)
         /\ IsAsked(l, t, c) => IsAsked(k, t, c)
         /\ IsAllowed(l, t, c) => IsAllowed(k, t, c)
         /\ IsPrepared(l, t, c) => IsPrepared(k, t, c)
<1>1. DOMAIN l = 1 .. Len(l) /\ DOMAIN k = 1 .. Len(k) /\ Len(l) \in Nat /\ Len(k) \in Nat
  BY DEF Extends
<1>2. \A i \in DOMAIN l : i \in DOMAIN k /\ k[i] = l[i]
  BY <1>1 DEF Extends
<1> QED
  BY <1>2 DEF IsRecorded, IsAsked, IsAllowed, IsPrepared

(* Every step of execute has its record in the file before the next.       *)
LEMMA ApprovalStep ==
  ASSUME BaseInv, ApprovalInv, [Next]_vars
  PROVE  ApprovalInv'
<1>1. /\ log \in Seq(Events) /\ TypeInv /\ LoopInv /\ CancelInv /\ loop \in Loops
      /\ Extends(log, log')
  BY Grows DEF BaseInv, TypeInv
<1>2. \A t, c : /\ IsRecorded(log, t, c) => IsRecorded(log', t, c)
                /\ IsAsked(log, t, c) => IsAsked(log', t, c)
                /\ IsAllowed(log, t, c) => IsAllowed(log', t, c)
                /\ IsPrepared(log, t, c) => IsPrepared(log', t, c)
  BY <1>1, Remains
<1> DEFINE Effective == \A x \in effects : x.call.kind = "guarded" => IsPrepared(log', x.turn, x.call)
           Busy == loop'.pc \in {"ask", "approve", "sandbox", "effect"}
<1>3. Effective
  BY <1>2 DEF ApprovalInv
<1>4. ASSUME effects' = effects, ~Busy PROVE ApprovalInv'
  BY <1>3, <1>4 DEF ApprovalInv, At
<1>5. \/ Still \/ Starts \/ Says \/ StepStarts \/ StepEnds \/ Ends \/ Answers
      \/ Requested \/ Recorded \/ Asked \/ Judged \/ Readied \/ Acts \/ Reload
  BY <1>1, NextIs
<1>6. Same => loop'.turn = loop.turn /\ Current' = Current
  BY DEF Same, Current
<1>7. CASE Still
  <2>1. CASE Busy
    <3>1. Same /\ loop'.pc = loop.pc /\ effects' = effects
      BY <1>7, <2>1 DEF Still
    <3> QED
      BY <1>2, <1>3, <1>6, <3>1 DEF ApprovalInv, At
  <2> QED
    BY <1>4, <1>7, <2>1 DEF Still
<1>8. CASE Starts \/ Says \/ StepStarts \/ StepEnds \/ Ends \/ Answers \/ Requested
  <2>1. effects' = effects
    BY <1>8 DEF Starts, Says, StepStarts, StepEnds, Ends, Answers, Requested, Appends
  <2>2. ~Busy
    <3>1. Starts => loop'.pc = "user"
      BY DEF Starts, Idle
    <3>2. Ends => loop'.pc = "idle"
      BY DEF Ends, Idle
    <3> QED
      BY <1>8, <3>1, <3>2 DEF Says, StepStarts, StepEnds, Answers, Requested
  <2> QED
    BY <1>4, <2>1, <2>2
<1>9. CASE Recorded
  <2>1. loop.pending # << >> /\ Len(loop.pending) \in Nat \ {0} /\ loop.pending \in Seq(Requests)
        /\ loop.pending[1] \in Requests /\ Current = loop.pending[1].call
    BY <1>1, <1>9, CurrentType DEF Recorded, Loops
  <2>2. Current' = Current
    <3> DEFINE p == loop.pending
               q == [p EXCEPT ![1].started = TRUE]
    <3>1. q[1] = [p[1] EXCEPT !.started = TRUE]
      BY <2>1
    <3>2. q[1].call = p[1].call
      <4> HIDE DEF q, p
      <4> QED
        BY <2>1, <3>1 DEF Requests, p
    <3>3. Head(loop'.pending) = q[1]
      BY <1>9 DEF Recorded
    <3> QED
      BY <2>1, <3>2, <3>3 DEF Current
  <2>3. log'[Len(log) + 1] = ToolCall(loop.turn, Current) /\ Len(log) + 1 \in DOMAIN log'
    BY <1>1, <1>9, AppendExtends DEF Recorded, Appends
  <2>4. IsRecorded(log', loop.turn, Current)
    BY <2>3 DEF IsRecorded
  <2>5. loop'.turn = loop.turn /\ loop'.pc \in {"settle", "effect", "ask"} /\ effects' = effects
        /\ (loop'.pc = "effect" => Current.kind # "guarded")
    BY <1>9 DEF Recorded, Appends
  <2> QED
    BY <1>3, <2>2, <2>4, <2>5 DEF ApprovalInv, At
<1>10. CASE Asked
  <2>1. /\ Appends(ApprovalAsked(loop.turn, Current)) /\ loop'.pc = "approve" /\ Same
        /\ loop.pc = "ask" /\ effects' = effects
    BY <1>10 DEF Asked, Appends, At
  <2>2. PICK i \in DOMAIN log : log[i] = ToolCall(loop.turn, Current)
    BY <2>1 DEF ApprovalInv, At, IsRecorded
  <2>3. /\ log'[Len(log) + 1] = ApprovalAsked(loop.turn, Current)
        /\ Len(log) + 1 \in DOMAIN log' /\ i \in DOMAIN log'
        /\ DOMAIN log = 1 .. Len(log) /\ Len(log) \in Nat
    BY <1>1, <2>1, AppendExtends DEF Appends
  <2>4. log'[i] = log[i] /\ i < Len(log) + 1
    BY <1>1, <2>3 DEF Extends
  <2>5. IsAsked(log', loop.turn, Current)
    BY <2>2, <2>3, <2>4 DEF IsAsked
  <2> QED
    BY <1>3, <1>6, <2>1, <2>5 DEF ApprovalInv, At
<1>11. CASE Judged
  <2>1. PICK o \in {"allowed-once", "rejected"} :
          /\ Appends(ApprovalDecided(loop.turn, Current, o))
          /\ loop'.pc = IF o = "allowed-once" THEN "sandbox" ELSE "settle"
    BY <1>11 DEF Judged
  <2>2. Same /\ effects' = effects /\ loop.pc = "approve"
    BY <1>11, <2>1 DEF Judged, Appends, At
  <2>3. IsAsked(log, loop.turn, Current)
    BY <2>2 DEF ApprovalInv, At
  <2>4. o = "allowed-once" => IsAllowed(log', loop.turn, Current)
    <3> SUFFICES ASSUME o = "allowed-once" PROVE IsAllowed(log', loop.turn, Current)
      OBVIOUS
    <3>1. PICK i, a \in DOMAIN log :
            i < a /\ log[i] = ToolCall(loop.turn, Current)
              /\ log[a] = ApprovalAsked(loop.turn, Current)
      BY <2>3 DEF IsAsked
    <3>2. /\ log'[Len(log) + 1] = ApprovalDecided(loop.turn, Current, "allowed-once")
          /\ Len(log) + 1 \in DOMAIN log' /\ i \in DOMAIN log' /\ a \in DOMAIN log'
          /\ DOMAIN log = 1 .. Len(log) /\ Len(log) \in Nat
      BY <1>1, <2>1, AppendExtends DEF Appends
    <3>3. log'[i] = log[i] /\ log'[a] = log[a] /\ a < Len(log) + 1
      BY <1>1, <3>2 DEF Extends
    <3> QED
      BY <3>1, <3>2, <3>3 DEF IsAllowed
  <2> QED
    BY <1>3, <1>6, <2>1, <2>2, <2>4 DEF ApprovalInv, At
<1>12. CASE Readied
  <2>1. /\ Appends(SandboxPrepared(loop.turn, Current)) /\ loop'.pc = "effect" /\ Same
        /\ loop.pc = "sandbox" /\ effects' = effects
    BY <1>12 DEF Readied, Appends, At
  <2>2. IsAllowed(log, loop.turn, Current)
    BY <2>1 DEF ApprovalInv, At
  <2>3. IsPrepared(log', loop.turn, Current)
    <3>1. PICK i, a, j \in DOMAIN log :
            /\ i < a /\ log[i] = ToolCall(loop.turn, Current)
            /\ log[a] = ApprovalAsked(loop.turn, Current)
            /\ a < j /\ log[j] = ApprovalDecided(loop.turn, Current, "allowed-once")
      BY <2>2 DEF IsAllowed
    <3>2. /\ log'[Len(log) + 1] = SandboxPrepared(loop.turn, Current)
          /\ Len(log) + 1 \in DOMAIN log'
          /\ i \in DOMAIN log' /\ a \in DOMAIN log' /\ j \in DOMAIN log'
          /\ DOMAIN log = 1 .. Len(log) /\ Len(log) \in Nat
      BY <1>1, <2>1, AppendExtends DEF Appends
    <3>3. /\ log'[i] = log[i] /\ log'[a] = log[a] /\ log'[j] = log[j]
          /\ j < Len(log) + 1
      BY <1>1, <3>2 DEF Extends
    <3> QED
      BY <3>1, <3>2, <3>3 DEF IsPrepared
  <2> QED
    BY <1>3, <1>6, <2>1, <2>3 DEF ApprovalInv, At
<1>13. CASE Acts
  <2>1. loop.pc = "effect" /\ log' = log /\ loop' = loop
        /\ effects' = effects \cup {[turn |-> loop.turn, call |-> Current]}
    BY <1>13 DEF Acts, At
  <2> DEFINE y == [turn |-> loop.turn, call |-> Current]
  <2>2. y.turn = loop.turn /\ y.call = Current
    OBVIOUS
  <2>3. y.call.kind = "guarded" => IsPrepared(log, y.turn, y.call)
    BY <2>1, <2>2 DEF ApprovalInv, At
  <2> HIDE DEF y
  <2>4. effects' = effects \cup {y}
    BY <2>1 DEF y
  <2>5. \A x \in effects' : x.call.kind = "guarded" => IsPrepared(log', x.turn, x.call)
    BY <1>3, <2>1, <2>3, <2>4
  <2>6. Current' = Current
    BY <2>1 DEF Current
  <2> QED
    BY <2>1, <2>5, <2>6 DEF ApprovalInv, At
<1>14. CASE Reload
  BY <1>4, <1>14, ReloadIs DEF Idle
<1> QED
  BY <1>5, <1>7, <1>8, <1>9, <1>10, <1>11, <1>12, <1>13, <1>14

(* A step of the turn that is in the log.                                  *)
Within(e) ==
  /\ Live /\ Appends(e) /\ e.turn = loop.turn /\ e.type # "turn/start"
  /\ Live' => loop'.turn = loop.turn

(* The events of a turn in progress carry its number.                      *)
LEMMA WithinTurn ==
  ASSUME BaseInv, \/ Says \/ StepStarts \/ StepEnds \/ Ends \/ Answers
                  \/ Requested \/ Recorded \/ Asked \/ Judged \/ Readied
  PROVE  \E e \in Events : Within(e)
<1>1. ASSUME NEW e, Appends(e) PROVE e \in Events
  BY <1>1 DEF Appends
<1>2. CASE Says
  <2>1. PICK e : Appends(e) /\ e \in {UserMessage(loop.turn), AssistantMessage(loop.turn), TurnError(loop.turn)}
    BY <1>2 DEF Says
  <2>2. e.turn = loop.turn /\ e.type # "turn/start"
    BY <2>1 DEF UserMessage, AssistantMessage, TurnError
  <2> QED
    BY <1>1, <1>2, <2>1, <2>2 DEF Within, Says, Same
<1>3. CASE StepStarts
  <2>1. StepStart(loop.turn, loop.step).turn = loop.turn
        /\ StepStart(loop.turn, loop.step).type # "turn/start"
    BY DEF StepStart
  <2> QED
    BY <1>1, <1>3, <2>1 DEF Within, StepStarts
<1>4. CASE StepEnds
  <2>1. PICK o : Appends(StepEnd(loop.turn, loop.open, o))
    BY <1>4 DEF StepEnds
  <2>2. StepEnd(loop.turn, loop.open, o).turn = loop.turn
        /\ StepEnd(loop.turn, loop.open, o).type # "turn/start"
    BY DEF StepEnd
  <2> QED
    BY <1>1, <1>4, <2>1, <2>2 DEF Within, StepEnds
<1>5. CASE Ends
  <2>1. PICK o : Appends(TurnEnd(loop.turn, o))
    BY <1>5 DEF Ends
  <2>2. TurnEnd(loop.turn, o).turn = loop.turn /\ TurnEnd(loop.turn, o).type # "turn/start"
    BY DEF TurnEnd
  <2>3. ~Live'
    BY <1>5 DEF Ends, Idle, Live, Runs
  <2> QED
    BY <1>1, <1>5, <2>1, <2>2, <2>3 DEF Within, Ends
<1>6. CASE Answers
  <2>1. PICK o : Appends(ToolResult(loop.turn, Current, o))
    BY <1>6 DEF Answers
  <2>2. ToolResult(loop.turn, Current, o).turn = loop.turn
        /\ ToolResult(loop.turn, Current, o).type # "turn/start"
    BY DEF ToolResult
  <2> QED
    BY <1>1, <1>6, <2>1, <2>2 DEF Within, Answers
<1>7. CASE Requested
  <2>1. PICK b \in Batches : Appends(ToolCalls(loop.turn, BatchCalls(b)))
    BY <1>7 DEF Requested
  <2>2. ToolCalls(loop.turn, BatchCalls(b)).turn = loop.turn
        /\ ToolCalls(loop.turn, BatchCalls(b)).type # "turn/start"
    BY DEF ToolCalls
  <2>3. Live /\ loop'.turn = loop.turn
    BY <1>7 DEF Requested, At, Live, Runs
  <2> QED
    BY <1>1, <2>1, <2>2, <2>3 DEF Within
<1>8. CASE Recorded
  <2>1. ToolCall(loop.turn, Current).turn = loop.turn
        /\ ToolCall(loop.turn, Current).type # "turn/start"
    BY DEF ToolCall
  <2>2. Live /\ loop'.turn = loop.turn
    BY <1>8 DEF Recorded, At, Live, Runs
  <2> QED
    BY <1>1, <1>8, <2>1, <2>2 DEF Within, Recorded
<1>9. CASE Asked
  <2>1. ApprovalAsked(loop.turn, Current).turn = loop.turn
        /\ ApprovalAsked(loop.turn, Current).type # "turn/start"
    BY DEF ApprovalAsked
  <2>2. Live /\ loop'.turn = loop.turn
    BY <1>9 DEF Asked, At, Live, Runs, Same
  <2> QED
    BY <1>1, <1>9, <2>1, <2>2 DEF Within, Asked
<1>10. CASE Judged
  <2>1. PICK o : Appends(ApprovalDecided(loop.turn, Current, o))
    BY <1>10 DEF Judged
  <2>2. ApprovalDecided(loop.turn, Current, o).turn = loop.turn
        /\ ApprovalDecided(loop.turn, Current, o).type # "turn/start"
    BY DEF ApprovalDecided
  <2>3. Live /\ loop'.turn = loop.turn
    BY <1>10 DEF Judged, At, Live, Runs, Same
  <2> QED
    BY <1>1, <2>1, <2>2, <2>3 DEF Within
<1>11. CASE Readied
  <2>1. SandboxPrepared(loop.turn, Current).turn = loop.turn
        /\ SandboxPrepared(loop.turn, Current).type # "turn/start"
    BY DEF SandboxPrepared
  <2>2. Live /\ loop'.turn = loop.turn
    BY <1>11 DEF Readied, At, Live, Runs, Same
  <2> QED
    BY <1>1, <1>11, <2>1, <2>2 DEF Within, Readied
<1> QED
  BY <1>2, <1>3, <1>4, <1>5, <1>6, <1>7, <1>8, <1>9, <1>10, <1>11

(* Turns are numbered in the order they start.                             *)
LEMMA TailTurn ==
  ASSUME NEW l \in Seq(Events), TailScan(l).turn # 0
  PROVE  \E i \in DOMAIN l : l[i].turn = TailScan(l).turn
<1> DEFINE s == Suffix(l)
           n == StartOf(s)
<1>1. /\ s \in Seq(Events) /\ n \in 0 .. Len(s) /\ EndOf(l) \in 0 .. Len(l)
      /\ Len(s) = Len(l) - EndOf(l) /\ \A i \in 1 .. Len(s) : s[i] = l[EndOf(l) + i]
  BY SuffixIs, StartOfIs DEF IsStartOf
<1>2. n # 0 /\ TailScan(l).turn = s[n].turn
  BY TailIs
<1>3. EndOf(l) + n \in DOMAIN l /\ s[n] = l[EndOf(l) + n]
  <2>1. Len(l) \in Nat /\ DOMAIN l = 1 .. Len(l)
    OBVIOUS
  <2> HIDE DEF n, s
  <2> QED
    BY <1>1, <1>2, <2>1
<1> QED
  BY <1>2, <1>3

(* No event is of a turn that has not started.                             *)
LEMMA NumberStep ==
  ASSUME BaseInv, NumberInv, [Next]_vars
  PROVE  NumberInv'
<1>1. /\ log \in Seq(Events) /\ TypeInv /\ LoopInv /\ CancelInv /\ effects \in SUBSET Effects
      /\ Turns \in Nat /\ Len(log) \in Nat /\ DOMAIN log = 1 .. Len(log)
  BY CountType DEF BaseInv, TypeInv, Turns
<1>2. \/ Still \/ Starts \/ Says \/ StepStarts \/ StepEnds \/ Ends \/ Answers
      \/ Requested \/ Recorded \/ Asked \/ Judged \/ Readied \/ Acts \/ Reload
  BY <1>1, NextIs
<1>3. \A i \in DOMAIN log : log[i].turn \in Nat
  <2> TAKE i \in DOMAIN log
  <2>1. log[i] \in Events
    BY <1>1
  <2> QED
    BY <2>1, EventFields
<1>4. \A x \in effects : x.turn \in Nat
  BY <1>1 DEF Effects, Numbers
<1>5. ASSUME NEW e \in Events, Appends(e),
             Live' => loop'.turn = Turns',
             e.turn <= Turns', Turns' \in Nat, Turns <= Turns'
      PROVE  NumberInv'
  <2>1. log' = Append(log, e) /\ effects' = effects
    BY <1>5 DEF Appends
  <2>2. \A i \in DOMAIN log' : log'[i] = e \/ (i \in DOMAIN log /\ log'[i] = log[i])
    BY <1>1, <2>1
  <2>3. \A i \in DOMAIN log' : log'[i].turn <= Turns'
    <3> TAKE i \in DOMAIN log'
    <3>1. CASE log'[i] = e
      BY <1>5, <3>1
    <3>2. CASE i \in DOMAIN log /\ log'[i] = log[i]
      <4>1. log[i].turn <= Turns /\ log[i].turn \in Nat
        BY <1>3, <3>2 DEF NumberInv
      <4> QED
        BY <1>1, <1>5, <3>2, <4>1
    <3> QED
      BY <2>2, <3>1, <3>2
  <2>4. \A x \in effects' : x.turn <= Turns'
    BY <1>1, <1>4, <1>5, <2>1 DEF NumberInv
  <2> QED
    BY <1>5, <2>3, <2>4 DEF NumberInv
<1>6. CASE Starts
  <2>1. Appends(TurnStart(Turns + 1)) /\ TurnStart(Turns + 1) \in Events /\ loop'.turn = Turns + 1
    BY <1>6 DEF Starts, Appends, Idle
  <2>2. TurnStart(Turns + 1).type = "turn/start" /\ TurnStart(Turns + 1).turn = Turns + 1
    BY DEF TurnStart
  <2>3. Turns' = Turns + 1
    BY <1>1, <2>1, <2>2, CountAppend DEF Turns, Appends
  <2> QED
    BY <1>1, <1>5, <2>1, <2>2, <2>3
<1>7. CASE \/ Says \/ StepStarts \/ StepEnds \/ Ends \/ Answers
           \/ Requested \/ Recorded \/ Asked \/ Judged \/ Readied
  <2>1. PICK e \in Events : Within(e)
    BY <1>7, WithinTurn
  <2>2. Turns' = Turns
    BY <1>1, <2>1, CountAppend DEF Turns, Appends, Within
  <2>3. e.turn = Turns /\ (Live' => loop'.turn = Turns)
    BY <2>1 DEF Within, NumberInv
  <2> QED
    BY <1>1, <1>5, <2>1, <2>2, <2>3 DEF Within
<1>8. CASE Still
  <2>1. log' = log /\ effects' = effects /\ Turns' = Turns
    BY <1>8 DEF Still, Turns
  <2>2. Live' => Live /\ loop'.turn = loop.turn
    BY <1>8 DEF Still, Live, Runs, Same
  <2> QED
    BY <2>1, <2>2 DEF NumberInv
<1>9. CASE Acts
  <2>1. log' = log /\ loop' = loop /\ Turns' = Turns /\ Live' = Live
    BY <1>9 DEF Acts, Turns, Live
  <2>2. Live /\ loop.turn = Turns
    BY <1>9 DEF Acts, At, Live, Runs, NumberInv
  <2> DEFINE y == [turn |-> loop.turn, call |-> Current]
  <2>3. effects' = effects \cup {y} /\ y.turn <= Turns
    BY <1>1, <1>9, <2>2 DEF Acts
  <2> HIDE DEF y
  <2>4. \A x \in effects' : x.turn <= Turns
    BY <2>3 DEF NumberInv
  <2> QED
    BY <2>1, <2>4 DEF NumberInv
<1>10. CASE Reload
  <2>1. loop' = Idle /\ effects' = effects /\ (Open.turn = 0 => log' = log)
        /\ (Open.turn # 0 => log' = log \o Closers(log))
    BY <1>10, ReloadIs
  <2>2. ~Live'
    BY <2>1 DEF Idle, Live, Runs
  <2>3. CASE Open.turn = 0
    BY <2>1, <2>2, <2>3 DEF NumberInv, Turns
  <2>4. CASE Open.turn # 0
    <3> DEFINE k == log \o Closers(log)
    <3>1. /\ k \in Seq(Events) /\ Count(k, "turn/start") = Turns /\ Len(k) >= Len(log)
          /\ \A i \in 1 .. Len(log) : k[i] = log[i]
          /\ \A i \in Len(log) + 1 .. Len(k) : k[i].turn = Open.turn
      BY <1>1, <2>4, Recovered DEF BaseInv, CommandInv, Open, Turns
    <3>2. PICK j \in DOMAIN log : log[j].turn = Open.turn
      BY <1>1, <2>4, TailTurn DEF Open
    <3>3. Open.turn <= Turns
      BY <3>2 DEF NumberInv
    <3> HIDE DEF k
    <3>4. \A i \in DOMAIN k : i \in 1 .. Len(log) \/ i \in Len(log) + 1 .. Len(k)
      BY <1>1, <3>1
    <3>5. \A i \in DOMAIN k : k[i].turn <= Turns
      BY <1>1, <3>1, <3>3, <3>4 DEF NumberInv
    <3>6. log' = k /\ Turns' = Turns
      BY <2>1, <2>4, <3>1 DEF k, Turns
    <3> QED
      BY <2>1, <2>2, <3>5, <3>6 DEF NumberInv
  <2> QED
    BY <2>3, <2>4
<1> QED
  BY <1>2, <1>6, <1>7, <1>8, <1>9, <1>10

(* What has been answered, or has had an effect, is not ahead.             *)
IsResult(e) == e.type = "tool/result" /\ e.turn = loop.turn

(* A call that has been answered, or has had an effect, is not ahead.      *)
LEMMA PastStep ==
  ASSUME BaseInv, NumberInv, PastInv, [Next]_vars
  PROVE  PastInv'
<1>1. /\ log \in Seq(Events) /\ TypeInv /\ LoopInv /\ CancelInv /\ effects \in SUBSET Effects
      /\ Turns \in Nat /\ Len(log) \in Nat /\ DOMAIN log = 1 .. Len(log)
      /\ loop \in Loops /\ LoopOk(loop) /\ loop.step \in Nat
      /\ loop' \in Loops /\ LoopOk(loop')
  BY CountType, BaseStep DEF BaseInv, TypeInv, Turns, LoopInv, Loops
<1>2. \/ Still \/ Starts \/ Says \/ StepStarts \/ StepEnds \/ Ends \/ Answers
      \/ Requested \/ Recorded \/ Asked \/ Judged \/ Readied \/ Acts \/ Reload
  BY <1>1, NextIs
<1>3. \A c \in Calls : c.id[1] \in Nat
  BY DEF Calls, Numbers
<1>4. ASSUME NEW i \in DOMAIN log
      PROVE  log[i].turn \in Nat /\ (log[i].type = "tool/result" => log[i].call.id[1] \in Nat)
  <2>1. log[i] \in Events
    BY <1>1
  <2> QED
    BY <1>3, <2>1, EventFields
<1>5. \A x \in effects : x.turn \in Nat /\ x.call.id[1] \in Nat
  BY <1>1, <1>3 DEF Effects, Numbers
<1>6. /\ DOMAIN loop.pending = 1 .. Len(loop.pending) /\ Len(loop.pending) \in Nat
      /\ loop.pending \in Seq(Requests)
      /\ (loop.pending # << >> =>
            /\ Current = loop.pending[1].call /\ Len(loop.pending) \in Nat \ {0}
            /\ Current \in Calls /\ loop.pending[1] \in Requests)
  BY <1>1, CurrentType DEF Loops
<1> DEFINE Ahead ==
      /\ \A i \in DOMAIN log : IsResult(log[i]) =>
           \A k \in DOMAIN loop'.pending : loop'.pending[k].call # log[i].call
      /\ \A x \in effects : x.turn = loop.turn =>
           \A k \in DOMAIN loop'.pending : loop'.pending[k].call = x.call =>
             loop'.pending[k].started /\ loop'.pc \notin {"ask", "approve", "sandbox"}
           Past ==
      /\ \A i \in DOMAIN log : IsResult(log[i]) => log[i].call.id[1] < NextBatch'
      /\ \A x \in effects : x.turn = loop.turn => x.call.id[1] < NextBatch'
<1>7. Live /\ Later => Past
  BY <1>4, <1>5 DEF Later, PastInv, IsResult
<1>8. ASSUME Live, Later, loop'.turn = loop.turn, effects' = effects, Ahead,
             \/ log' = log
             \/ \E e \in Events : log' = Append(log, e) /\ e.type # "tool/result"
      PROVE  PastInv'
  <2>1. \A i \in DOMAIN log' : \/ i \in DOMAIN log /\ log'[i] = log[i]
                               \/ log'[i].type # "tool/result"
    BY <1>1, <1>8, AppendExtends DEF Extends
  <2>2. Past
    BY <1>7, <1>8
  <2> QED
    BY <1>8, <2>1, <2>2 DEF PastInv, IsResult
<1>9. ASSUME Live, loop'.pending = loop.pending,
             loop'.pc = loop.pc \/ loop'.pc \notin {"ask", "approve", "sandbox"}
      PROVE  Ahead
  BY <1>9 DEF PastInv, IsResult
<1>10. CASE Still
  <2>1. CASE Live'
    <3>1. Live /\ Same /\ Later /\ log' = log /\ effects' = effects
          /\ (loop'.pc = loop.pc \/ loop'.pc \notin {"ask", "approve", "sandbox"})
      BY <1>10, <2>1 DEF Still, Live, Runs
    <3> HIDE DEF Ahead
    <3> QED
      BY <1>8, <1>9, <3>1 DEF Same
  <2>2. CASE ~Live'
    BY <2>2 DEF PastInv
  <2> QED
    BY <2>1, <2>2
<1>11. CASE Starts
  <2>1. /\ log' = Append(log, TurnStart(Turns + 1)) /\ effects' = effects
        /\ TurnStart(Turns + 1) \in Events /\ loop'.turn = Turns + 1
    BY <1>11 DEF Starts, Appends, Idle
  <2>2. TurnStart(Turns + 1).type # "tool/result"
    BY DEF TurnStart
  <2>3. \A i \in DOMAIN log' : log'[i].type # "tool/result" \/ (i \in DOMAIN log /\ log'[i] = log[i])
    BY <1>1, <2>1, <2>2, AppendExtends DEF Extends
  <2>4. \A i \in DOMAIN log : log[i].turn # Turns + 1
    BY <1>1, <1>4 DEF NumberInv
  <2>5. \A x \in effects : x.turn # Turns + 1
    BY <1>1, <1>5 DEF NumberInv
  <2> QED
    BY <2>1, <2>3, <2>4, <2>5 DEF PastInv
<1>12. CASE Says \/ StepStarts \/ StepEnds
  <2>1. /\ Live /\ Later /\ loop.pending = << >> /\ loop'.turn = loop.turn
        /\ loop'.pending = loop.pending /\ loop'.pc \notin {"ask", "approve", "sandbox"}
    BY <1>12 DEF Says, StepStarts, StepEnds, Same
  <2>2. effects' = effects /\ \E e \in Events : log' = Append(log, e) /\ e.type # "tool/result"
    BY <1>12 DEF Says, StepStarts, StepEnds, Appends, UserMessage, AssistantMessage, TurnError,
       StepStart, StepEnd
  <2> HIDE DEF Ahead
  <2> QED
    BY <1>8, <1>9, <2>1, <2>2
<1>13. CASE Ends \/ Reload
  <2>1. loop' = Idle
    BY <1>13, ReloadIs DEF Ends
  <2> QED
    BY <2>1 DEF PastInv, Live, Runs, Idle
<1>14. CASE Answers
  <2>1. PICK o : Appends(ToolResult(loop.turn, Current, o))
    BY <1>14 DEF Answers
  <2>2. /\ Live /\ Later /\ loop.pending # << >> /\ loop'.turn = loop.turn /\ effects' = effects
        /\ loop'.pending = Tail(loop.pending) /\ loop'.pc \in {"call", "catch"}
        /\ log' = Append(log, ToolResult(loop.turn, Current, o))
        /\ ToolResult(loop.turn, Current, o) \in Events
    BY <1>14, <2>1 DEF Answers, Appends
  <2>3. ToolResult(loop.turn, Current, o).call = Current
    BY DEF ToolResult
  <2>4. \A k \in DOMAIN loop'.pending :
          k + 1 \in DOMAIN loop.pending /\ k + 1 # 1 /\ loop'.pending[k] = loop.pending[k + 1]
    BY <1>6, <2>2
  <2>5. \A k \in DOMAIN loop'.pending :
          loop'.pending[k].call # Current /\ ~loop.pending[k + 1].started
    <3> DEFINE p == loop.pending
    <3>1. 1 \in DOMAIN p /\ Current = p[1].call
      BY <1>6, <2>2
    <3>2. /\ \A i \in DOMAIN p : i # 1 => ~p[i].started
          /\ \A i, j \in DOMAIN p : p[i].call = p[j].call => i = j
      BY <1>1 DEF LoopOk
    <3> HIDE DEF p
    <3>3. \A i \in DOMAIN p : i # 1 => p[i].call # Current /\ ~p[i].started
      BY <3>1, <3>2
    <3> QED
      BY <2>4, <3>3 DEF p
  <2>6. Current.id[1] < NextBatch'
    <3>1. loop.pc \notin Unasked /\ Current.id[1] = loop.step
      BY <1>1, <1>6, <2>2 DEF LoopOk, Executing, Unasked
    <3>2. NextBatch = loop.step + 1
      BY <3>1 DEF NextBatch
    <3> QED
      BY <1>1, <2>2, <3>1, <3>2 DEF Later
  <2>7. Past
    BY <1>7, <2>2
  <2>8. Ahead
    BY <2>2, <2>4, <2>5 DEF PastInv, IsResult
  <2>9. \A i \in DOMAIN log' : \/ i \in DOMAIN log /\ log'[i] = log[i]
                               \/ log'[i] = ToolResult(loop.turn, Current, o)
    BY <1>1, <2>2, AppendExtends DEF Extends
  <2> QED
    BY <2>2, <2>3, <2>5, <2>6, <2>7, <2>8, <2>9 DEF PastInv, IsResult
<1>15. CASE Requested
  <2>1. PICK b \in Batches :
          /\ Appends(ToolCalls(loop.turn, BatchCalls(b)))
          /\ loop'.pending = [k \in DOMAIN BatchCalls(b) |->
                                [call |-> BatchCalls(b)[k], started |-> FALSE]]
    BY <1>15 DEF Requested
  <2>2. /\ Live /\ Later /\ loop'.turn = loop.turn /\ effects' = effects
        /\ NextBatch = loop.step /\ loop.step \in Numbers
    BY <1>1, <1>15, <2>1
    DEF Requested, Appends, At, Live, Runs, NextBatch, Unasked, LoopOk
  <2>3. \E e \in Events : log' = Append(log, e) /\ e.type # "tool/result"
    BY <2>1 DEF Appends, ToolCalls
  <2>4. \A k \in DOMAIN loop'.pending : loop'.pending[k].call.id[1] = loop.step
    BY <2>1, <2>2, BatchType
  <2>5. Ahead
    <3>1. ASSUME NEW i \in DOMAIN log, IsResult(log[i]), NEW k \in DOMAIN loop'.pending
          PROVE  loop'.pending[k].call # log[i].call
      <4>1. log[i].call.id[1] < loop.step /\ log[i].call.id[1] \in Nat
        BY <1>4, <2>2, <3>1 DEF PastInv, IsResult
      <4> QED
        BY <1>1, <2>4, <3>1, <4>1
    <3>2. ASSUME NEW x \in effects, x.turn = loop.turn, NEW k \in DOMAIN loop'.pending
          PROVE  loop'.pending[k].call # x.call
      <4>1. x.call.id[1] < loop.step /\ x.call.id[1] \in Nat
        BY <1>5, <2>2, <3>2 DEF PastInv
      <4> QED
        BY <1>1, <2>4, <3>2, <4>1
    <3> QED
      BY <3>1, <3>2
  <2> HIDE DEF Ahead
  <2> QED
    BY <1>8, <2>2, <2>3, <2>5
<1>16. CASE Recorded
  <2>1. /\ Live /\ Later /\ loop.pc = "call" /\ loop'.turn = loop.turn /\ effects' = effects
        /\ loop'.pending = [loop.pending EXCEPT ![1].started = TRUE] /\ loop.pending # << >>
    BY <1>16 DEF Recorded, Appends, At, Live, Runs
  <2>2. \E e \in Events : log' = Append(log, e) /\ e.type # "tool/result"
    BY <1>16 DEF Recorded, Appends, ToolCall
  <2>3. /\ DOMAIN loop'.pending = DOMAIN loop.pending
        /\ \A k \in DOMAIN loop.pending : loop'.pending[k].call = loop.pending[k].call
    <3> DEFINE p == loop.pending
               q == [p EXCEPT ![1].started = TRUE]
    <3>1. q[1] = [p[1] EXCEPT !.started = TRUE] /\ DOMAIN q = DOMAIN p
          /\ \A k \in DOMAIN p : k # 1 => q[k] = p[k]
      BY <1>6, <2>1
    <3>2. q[1].call = p[1].call
      <4> HIDE DEF q, p
      <4> QED
        BY <1>6, <2>1, <3>1 DEF Requests, p
    <3>3. loop'.pending = q
      BY <2>1
    <3> HIDE DEF q
    <3> QED
      BY <3>1, <3>2, <3>3
  <2>4. \A x \in effects : x.turn = loop.turn =>
          \A k \in DOMAIN loop.pending : loop.pending[k].call # x.call
    BY <1>1, <2>1 DEF PastInv, LoopOk
  <2>5. Ahead
    BY <2>1, <2>3, <2>4 DEF PastInv, IsResult
  <2> HIDE DEF Ahead
  <2> QED
    BY <1>8, <2>1, <2>2, <2>5
<1>17. CASE Asked \/ Judged \/ Readied
  <2>1. /\ Live /\ Later /\ loop.pc \in {"ask", "approve", "sandbox"} /\ Same
    BY <1>17 DEF Asked, Judged, Readied, At, Live, Runs
  <2>2. effects' = effects /\ \E e \in Events : log' = Append(log, e) /\ e.type # "tool/result"
    BY <1>17 DEF Asked, Judged, Readied, Appends, ApprovalAsked, ApprovalDecided, SandboxPrepared
  <2>3. Ahead
    BY <2>1 DEF PastInv, IsResult, Same
  <2> HIDE DEF Ahead
  <2> QED
    BY <1>8, <2>1, <2>2, <2>3 DEF Same
<1>18. CASE Acts
  <2>1. /\ loop.pc = "effect" /\ log' = log /\ loop' = loop /\ Live
        /\ effects' = effects \cup {[turn |-> loop.turn, call |-> Current]}
        /\ NextBatch' = NextBatch /\ NextBatch = loop.step + 1
    BY <1>18 DEF Acts, At, Live, Runs, NextBatch, Unasked
  <2>2. /\ loop.pending # << >> /\ loop.pending[1].started /\ Current = loop.pending[1].call
        /\ Current.id[1] = loop.step
        /\ \A k \in DOMAIN loop.pending : loop.pending[k].call = Current => k = 1
    BY <1>1, <1>6, <2>1 DEF LoopOk, Executing
  <2> DEFINE y == [turn |-> loop.turn, call |-> Current]
  <2>3. y.turn = loop.turn /\ y.call = Current
    OBVIOUS
  <2>4. effects' = effects \cup {y}
    BY <2>1
  <2> HIDE DEF y
  <2>5. y.call.id[1] < NextBatch
    BY <1>1, <2>1, <2>2, <2>3
  <2>6. \A k \in DOMAIN loop.pending : loop.pending[k].call = y.call => loop.pending[k].started
    BY <2>2, <2>3
  <2> QED
    BY <2>1, <2>4, <2>5, <2>6 DEF PastInv
<1> QED
  BY <1>2, <1>10, <1>11, <1>12, <1>13, <1>14, <1>15, <1>16, <1>17, <1>18
-------------------------------------------------------------------------------
(* What the scan of an open turn makes of the next event of that turn.     *)
WithStep(tail, n) == [tail EXCEPT !.step = n]
WithPending(tail, s) == [tail EXCEPT !.pending = s]
Asks(calls) == [i \in DOMAIN calls |-> NewPending(calls[i])]

(* A message or an error changes nothing.                                  *)
LEMMA ScanMessage ==
  ASSUME NEW t, NEW tail, NEW e, e.turn = t,
         e.type \in {"user/message", "turn/error", "assistant/message"}
  PROVE  /\ ScanTail(t, tail, e) = tail \/ ScanTail(t, tail, e) = Refuse(tail)
         /\ tail.step # 0 \/ e.type # "assistant/message" => ScanTail(t, tail, e) = tail
<1>1. CASE e.type \in {"user/message", "turn/error"}
  BY <1>1 DEF ScanTail, Foreign
<1>2. CASE e.type = "assistant/message"
  BY <1>2 DEF ScanTail, Foreign
<1> QED
  BY <1>1, <1>2

(* A step opens and closes.                                                *)
LEMMA ScanStep ==
  ASSUME NEW t, NEW tail, NEW e, e.turn = t
  PROVE  /\ e.type = "step/start" =>
              ScanTail(t, tail, e) =
                IF tail.step = 0 THEN WithStep(tail, e.step) ELSE Refuse(tail)
         /\ e.type = "step/end" =>
              ScanTail(t, tail, e) =
                IF tail.step = e.step /\ tail.pending = << >>
                  THEN WithStep(tail, 0) ELSE Refuse(tail)
<1>1. CASE e.type = "step/start"
  BY <1>1 DEF ScanTail, Foreign, WithStep
<1>2. CASE e.type = "step/end"
  BY <1>2 DEF ScanTail, Foreign, WithStep
<1> QED
  BY <1>1, <1>2

(* A batch becomes pending.                                                *)
LEMMA ScanCalls ==
  ASSUME NEW t, NEW tail, NEW e, e.turn = t, e.type = "assistant/tool-calls"
  PROVE  /\ ScanTail(t, tail, e) \in {WithPending(tail, Asks(e.calls)), Refuse(tail)}
         /\ tail.step # 0 /\ tail.pending = << >> /\ IsInjective(e.calls)
              => ScanTail(t, tail, e) = WithPending(tail, Asks(e.calls))
BY DEF ScanTail, Foreign, WithPending, Asks

(* What was recorded of the first pending call, after one more event.      *)
IsFirst(tail, c) ==
  /\ tail.pending # << >> /\ tail.pending[1].call = c
  /\ \A i, j \in DOMAIN tail.pending : tail.pending[i].call = tail.pending[j].call => i = j
Changed(tail, new) == [tail EXCEPT !.pending = [tail.pending EXCEPT ![1] = new]]

StartedOf(p) == [p EXCEPT !.started = TRUE]
AskedOf(p) == [p EXCEPT !.approval = "asked", !.started = FALSE]
DecidedOf(p, o) == [p EXCEPT !.approval = o]
PreparedOf(p) == [p EXCEPT !.prepared = TRUE, !.started = TRUE]

(* What the events of a call do when it is the first of the pending ones.  *)
LEMMA ScanCall ==
  ASSUME NEW t, NEW tail \in Tails, NEW e, e.turn = t, IsFirst(tail, e.call),
         NEW p, p = tail.pending[1]
  PROVE  /\ e.type = "tool/call" =>
              ScanTail(t, tail, e) =
                IF tail.step # 0 /\ ~p.started
                  THEN Changed(tail, StartedOf(p)) ELSE Refuse(tail)
         /\ e.type = "approval/asked" =>
              ScanTail(t, tail, e) =
                IF tail.step # 0 /\ p.started /\ p.approval = "none"
                  THEN Changed(tail, AskedOf(p)) ELSE Refuse(tail)
         /\ e.type = "approval/decided" =>
              ScanTail(t, tail, e) =
                IF tail.step # 0 /\ p.approval = "asked"
                  THEN Changed(tail, DecidedOf(p, e.outcome)) ELSE Refuse(tail)
         /\ e.type = "sandbox/prepared" =>
              ScanTail(t, tail, e) =
                IF tail.step # 0 /\ p.approval = "allowed-once" /\ ~p.prepared
                  THEN Changed(tail, PreparedOf(p)) ELSE Refuse(tail)
         /\ e.type = "tool/result" =>
              ScanTail(t, tail, e) =
                IF tail.step # 0 THEN WithPending(tail, Tail(tail.pending)) ELSE Refuse(tail)
<1> DEFINE s == tail.pending
           c == e.call
<1>1. /\ s \in Seq(Pendings) /\ Len(s) \in Nat \ {0} /\ DOMAIN s = 1 .. Len(s) /\ 1 \in DOMAIN s
      /\ \A i \in DOMAIN s : s[i].call = c <=> i = 1
      /\ p = s[1]
  BY DEF Tails, IsFirst
<1> HIDE DEF s
<1>2. CASE e.type = "tool/call"
  <2>1. Is(tail, c, LAMBDA x : ~x.started) <=> ~p.started
    BY <1>1 DEF Is, s
  <2>2. Set(tail, c, LAMBDA x : [x EXCEPT !.started = TRUE]) = [s EXCEPT ![1] = StartedOf(p)]
    BY <1>1 DEF Set, s, StartedOf
  <2>3. ScanTail(t, tail, e) = IF tail.step # 0 /\ Is(tail, c, LAMBDA x : ~x.started)
             THEN [tail EXCEPT !.pending = Set(tail, c, LAMBDA x : [x EXCEPT !.started = TRUE])]
             ELSE Refuse(tail)
    BY <1>2 DEF ScanTail, Foreign
  <2> QED
    BY <1>2, <2>1, <2>2, <2>3 DEF Changed, s
<1>3. CASE e.type = "approval/asked"
  <2>1. Is(tail, c, LAMBDA x : x.started /\ x.approval = "none") <=> p.started /\ p.approval = "none"
    BY <1>1 DEF Is, s
  <2>2. Set(tail, c, LAMBDA x : [x EXCEPT !.approval = "asked", !.started = FALSE])
          = [s EXCEPT ![1] = AskedOf(p)]
    BY <1>1 DEF Set, s, AskedOf
  <2>3. ScanTail(t, tail, e) =
          IF tail.step # 0 /\ Is(tail, c, LAMBDA x : x.started /\ x.approval = "none")
             THEN [tail EXCEPT !.pending =
                     Set(tail, c, LAMBDA x : [x EXCEPT !.approval = "asked", !.started = FALSE])]
             ELSE Refuse(tail)
    BY <1>3 DEF ScanTail, Foreign
  <2> QED
    BY <1>3, <2>1, <2>2, <2>3 DEF Changed, s
<1>4. CASE e.type = "approval/decided"
  <2>1. Is(tail, c, LAMBDA x : x.approval = "asked") <=> p.approval = "asked"
    BY <1>1 DEF Is, s
  <2>2. Set(tail, c, LAMBDA x : [x EXCEPT !.approval = e.outcome])
          = [s EXCEPT ![1] = DecidedOf(p, e.outcome)]
    BY <1>1 DEF Set, s, DecidedOf
  <2>3. ScanTail(t, tail, e) =
          IF tail.step # 0 /\ Is(tail, c, LAMBDA x : x.approval = "asked")
             THEN [tail EXCEPT !.pending = Set(tail, c, LAMBDA x : [x EXCEPT !.approval = e.outcome])]
             ELSE Refuse(tail)
    BY <1>4 DEF ScanTail, Foreign
  <2> QED
    BY <1>4, <2>1, <2>2, <2>3 DEF Changed, s
<1>5. CASE e.type = "sandbox/prepared"
  <2>1. Is(tail, c, LAMBDA x : x.approval = "allowed-once" /\ ~x.prepared)
          <=> p.approval = "allowed-once" /\ ~p.prepared
    BY <1>1 DEF Is, s
  <2>2. Set(tail, c, LAMBDA x : [x EXCEPT !.prepared = TRUE, !.started = TRUE])
          = [s EXCEPT ![1] = PreparedOf(p)]
    BY <1>1 DEF Set, s, PreparedOf
  <2>3. ScanTail(t, tail, e) =
          IF tail.step # 0 /\ Is(tail, c, LAMBDA x : x.approval = "allowed-once" /\ ~x.prepared)
             THEN [tail EXCEPT !.pending =
                     Set(tail, c, LAMBDA x : [x EXCEPT !.prepared = TRUE, !.started = TRUE])]
             ELSE Refuse(tail)
    BY <1>5 DEF ScanTail, Foreign
  <2> QED
    BY <1>5, <2>1, <2>2, <2>3 DEF Changed, s
<1>6. CASE e.type = "tool/result"
  <2>1. Is(tail, c, LAMBDA x : TRUE)
    BY <1>1 DEF Is, s
  <2>2. Answer(tail, c) = Tail(s)
    <3> DEFINE I == {i \in 1 .. Len(s) : s[i].call = c}
               n == SelectInSeq(s, LAMBDA x : x.call = c)
    <3>1. I = {1}
      BY <1>1
    <3>2. n = Min(I) /\ I # {}
      BY <3>1 DEF SelectInSeq
    <3>3. Min(I) = 1
      BY <3>1 DEF Min
    <3>4. Answer(tail, c) = SubSeq(s, 1, n - 1) \o SubSeq(s, n + 1, Len(s))
      BY <1>1 DEF Answer, RemoveFirstMatch, RemoveAt, s
    <3>5. SubSeq(s, 1, 0) = << >> /\ SubSeq(s, 2, Len(s)) \in Seq(Pendings)
          /\ SubSeq(s, 2, Len(s)) = Tail(s)
      BY <1>1
    <3> HIDE DEF n
    <3>6. n = 1
      BY <3>2, <3>3
    <3>7. Answer(tail, c) = SubSeq(s, 1, 0) \o SubSeq(s, 2, Len(s))
      BY <3>4, <3>6
    <3> QED
      BY <3>5, <3>7
  <2>3. ScanTail(t, tail, e) = IF tail.step # 0 /\ Is(tail, c, LAMBDA x : TRUE)
             THEN [tail EXCEPT !.pending = Answer(tail, c)] ELSE Refuse(tail)
    BY <1>6 DEF ScanTail, Foreign
  <2> QED
    BY <1>6, <2>1, <2>2, <2>3 DEF s, WithPending
<1> QED
  BY <1>2, <1>3, <1>4, <1>5, <1>6 DEF s
-------------------------------------------------------------------------------
(* What the scan finds open is what the loop has open.                     *)
LEMMA ScanNext ==
  ASSUME BaseInv, OpenInv, Live, NEW e, Appends(e), e.turn = loop.turn,
         e.type \notin {"turn/start", "turn/end"}, Open'.scan.ok
  PROVE  /\ Open.scan.ok /\ OpensAs(Open, loop) /\ StartedIn(Open, effects)
         /\ Open'.turn = loop.turn /\ Open'.scan = ScanTail(loop.turn, Open.scan, e)
         /\ Open'.scan # Refuse(Open.scan)
         /\ Open.turn = loop.turn /\ Open.scan \in Tails
<1>1. log \in Seq(Events) /\ e \in Events /\ log' = Append(log, e)
  BY DEF BaseInv, TypeInv, Appends
<1>2. Open' = TailScan(Append(log, e)) /\ Open.scan \in Tails
  BY <1>1, TailScanType DEF Open
<1>3. ~Open.scan.ok => ~Open'.scan.ok
  BY <1>1, <1>2, TailAppend DEF Open
<1>4. Open.scan.ok /\ OpensAs(Open, loop) /\ StartedIn(Open, effects)
  BY <1>3 DEF OpenInv
<1>5. Open.turn = loop.turn /\ loop.turn # 0
  BY <1>4 DEF OpensAs, BaseInv, LoopInv, LoopOk, Live, Numbers
<1>6. Open'.turn = Open.turn /\ Open'.scan = ScanTail(Open.turn, Open.scan, e)
  BY <1>1, <1>2, <1>4, <1>5, TailAppend DEF Open
<1>7. ~Refuse(Open.scan).ok
  BY <1>2 DEF Refuse, Tails
<1> QED
  BY <1>2, <1>4, <1>5, <1>6, <1>7

(* The first pending call is the one the loop is at.                       *)
LEMMA FirstPending ==
  ASSUME BaseInv, OpensAs(Open, loop), Open.scan \in Tails, loop.pending # << >>
  PROVE  /\ IsFirst(Open.scan, Current) /\ Open.scan.step # 0 /\ Current \in Calls
         /\ Current = loop.pending[1].call /\ 1 \in DOMAIN loop.pending /\ 1 \in DOMAIN PendingNow
         /\ PendingNow \in Seq(Pendings) /\ PendingNow[1] \in Pendings
         /\ Len(PendingNow) \in Nat \ {0} /\ DOMAIN PendingNow = 1 .. Len(PendingNow)
         /\ Len(PendingNow) = Len(loop.pending) /\ DOMAIN loop.pending = 1 .. Len(PendingNow)
         /\ loop.pending \in Seq(Requests) /\ PendingNow[1].call = Current
<1> DEFINE p == PendingNow
           q == loop.pending
<1>1. loop \in Loops /\ q \in Seq(Requests) /\ p \in Seq(Pendings) /\ LoopOk(loop)
  BY DEF BaseInv, TypeInv, LoopInv, Loops, Tails, PendingNow
<1>2. /\ DOMAIN p = DOMAIN q /\ \A i \in DOMAIN p : p[i].call = q[i].call
      /\ Open.scan.step = loop.open
  BY DEF OpensAs, PendingNow
<1>3. \A i, j \in DOMAIN q : q[i].call = q[j].call => i = j
  BY <1>1 DEF LoopOk
<1>4. loop.open # 0
  BY <1>1 DEF LoopOk, Runs, Numbers
<1>5. Current = q[1].call /\ Len(q) \in Nat \ {0} /\ Current \in Calls
  BY <1>1, CurrentType
<1> HIDE DEF p, q
<1>6. /\ DOMAIN q = 1 .. Len(q) /\ DOMAIN p = 1 .. Len(p) /\ Len(p) \in Nat /\ Len(q) \in Nat
      /\ 1 \in DOMAIN q
  BY <1>1, <1>5
<1>7. Len(p) = Len(q) /\ 1 \in DOMAIN p /\ p # << >>
  BY <1>2, <1>6
<1>8. p[1] \in Pendings /\ p[1].call = Current
  BY <1>1, <1>2, <1>5, <1>7
<1>9. IsFirst(Open.scan, Current)
  BY <1>2, <1>3, <1>7, <1>8 DEF IsFirst, p, PendingNow
<1> QED
  BY <1>1, <1>2, <1>4, <1>5, <1>6, <1>7, <1>8, <1>9 DEF p, q

(* Only the first pending call changes.                                    *)
LEMMA ChangedIs ==
  ASSUME NEW tail \in Tails, NEW c, IsFirst(tail, c), NEW p, p.call = c
  PROVE  LET q == Changed(tail, p).pending
         IN  /\ DOMAIN q = DOMAIN tail.pending /\ q[1] = p /\ 1 \in DOMAIN q
             /\ Changed(tail, p).step = tail.step /\ Changed(tail, p).ok = tail.ok
             /\ \A i \in DOMAIN q : i # 1 => q[i] = tail.pending[i]
             /\ \A i \in DOMAIN q : q[i].call = tail.pending[i].call
<1>1. tail.pending \in Seq(Pendings) /\ tail.pending # << >> /\ tail.pending[1].call = c
  BY DEF Tails, IsFirst
<1>2. 1 \in DOMAIN tail.pending
  BY <1>1
<1>3. /\ Changed(tail, p).pending = [tail.pending EXCEPT ![1] = p]
      /\ Changed(tail, p).step = tail.step /\ Changed(tail, p).ok = tail.ok
  BY DEF Changed, Tails
<1> QED
  BY <1>1, <1>2, <1>3

(* Another event about the call the loop is at.                            *)
LEMMA OpenCall ==
  ASSUME BaseInv, OpensAs(Open, loop), StartedIn(Open, effects),
         Open.scan \in Tails, loop.pending # << >>, effects' = effects,
         NEW p, p.call = Current,
         Open'.turn = loop.turn, Open'.scan = Changed(Open.scan, p),
         loop'.turn = loop.turn, loop'.open = loop.open,
         DOMAIN loop'.pending = DOMAIN loop.pending, loop'.pending[1].started,
         \A i \in DOMAIN loop.pending :
           i # 1 => loop'.pending[i] = loop.pending[i],
         loop'.pending[1].call = Current,
         \A x \in effects : x.turn = loop.turn /\ x.call = Current => p.started,
         loop'.pc = "ask" => p.started /\ p.approval = "none",
         loop'.pc = "approve" => p.approval = "asked",
         loop'.pc = "sandbox" => p.approval = "allowed-once",
         loop'.pc \in {"ask", "approve", "sandbox"} => ~p.prepared,
         loop'.pc = "effect" => p.started
  PROVE  OpensAs(Open', loop') /\ StartedIn(Open', effects')
<1> DEFINE q == Open'.scan.pending
           r == PendingNow
<1>1. /\ IsFirst(Open.scan, Current) /\ 1 \in DOMAIN loop.pending /\ loop.pending[1].call = Current
  BY FirstPending
<1>2. /\ DOMAIN q = DOMAIN r /\ q[1] = p /\ Open'.scan.step = Open.scan.step
      /\ \A i \in DOMAIN q : i # 1 => q[i] = r[i]
      /\ \A i \in DOMAIN q : q[i].call = r[i].call
  BY <1>1, ChangedIs DEF PendingNow
<1>3. /\ Open.turn = loop.turn /\ Open.scan.step = loop.open
      /\ DOMAIN r = DOMAIN loop.pending
      /\ \A i \in DOMAIN r : r[i].call = loop.pending[i].call
      /\ \A i \in DOMAIN r : ~loop.pending[i].started => r[i] = NewPending(r[i].call)
  BY DEF OpensAs, PendingNow
<1>4. \A x \in effects : \A i \in DOMAIN r : x.turn = Open.turn /\ x.call = r[i].call => r[i].started
  BY DEF StartedIn, PendingNow
<1> HIDE DEF q, r
<1>5. \A i \in DOMAIN q : q[i].call = loop'.pending[i].call
  BY <1>1, <1>2, <1>3
<1>6. \A i \in DOMAIN q : ~loop'.pending[i].started => q[i] = NewPending(q[i].call)
  BY <1>2, <1>3
<1>7. \A x \in effects : \A i \in DOMAIN q : x.turn = Open'.turn /\ x.call = q[i].call => q[i].started
  BY <1>2, <1>3, <1>4
<1>8. OpensAs(Open', loop')
  BY <1>2, <1>3, <1>5, <1>6 DEF OpensAs, q
<1>9. StartedIn(Open', effects')
  BY <1>7 DEF StartedIn, q
<1> QED
  BY <1>8, <1>9

Special == {"ask", "approve", "sandbox", "effect"}

(* Nothing is pending, or what is pending stays as it is.                  *)
LEMMA OpenPlain ==
  ASSUME OpensAs(Open, loop), StartedIn(Open, effects), effects' = effects,
         Open'.turn = loop.turn, Open'.scan.pending = PendingNow,
         loop'.turn = loop.turn, loop'.pending = loop.pending,
         Open'.scan.step = loop'.open, loop'.pc \notin Special
  PROVE  OpensAs(Open', loop') /\ StartedIn(Open', effects')
BY DEF OpensAs, StartedIn, Special, PendingNow

(* A message, or a bracket of a step.                                      *)
LEMMA OpenSays ==
  ASSUME BaseInv, OpenInv, Says \/ StepStarts \/ StepEnds, Open'.scan.ok
  PROVE  OpensAs(Open', loop') /\ StartedIn(Open', effects')
<1>1. CASE Says
  <2>1. PICK e : Appends(e) /\ e \in {UserMessage(loop.turn), AssistantMessage(loop.turn), TurnError(loop.turn)}
    BY <1>1 DEF Says
  <2>2. e.turn = loop.turn /\ e.type \in {"user/message", "assistant/message", "turn/error"}
    BY <2>1 DEF UserMessage, AssistantMessage, TurnError
  <2>3. /\ Live /\ Same /\ loop'.pc \notin Special /\ effects' = effects
    BY <1>1, <2>1 DEF Says, Special, Appends
  <2>4. /\ OpensAs(Open, loop) /\ StartedIn(Open, effects) /\ Open.scan \in Tails
        /\ Open'.turn = loop.turn /\ Open'.scan = ScanTail(loop.turn, Open.scan, e)
        /\ Open'.scan # Refuse(Open.scan)
    BY <2>1, <2>2, <2>3, ScanNext
  <2>5. Open'.scan = Open.scan
    BY <2>2, <2>4, ScanMessage
  <2>6. Open.scan.step = loop.open
    BY <2>4 DEF OpensAs
  <2> QED
    BY <2>3, <2>4, <2>5, <2>6, OpenPlain DEF Same, PendingNow
<1>2. CASE StepStarts
  <2> DEFINE e == StepStart(loop.turn, loop.step)
  <2>1. /\ Live /\ Appends(e) /\ loop'.turn = loop.turn /\ loop'.open = loop.step
        /\ loop'.pending = loop.pending /\ loop'.pc \notin Special /\ effects' = effects
    BY <1>2 DEF StepStarts, Special, Appends
  <2>2. e.turn = loop.turn /\ e.type = "step/start" /\ e.step = loop.step
    BY DEF StepStart
  <2> HIDE DEF e
  <2>4. /\ OpensAs(Open, loop) /\ StartedIn(Open, effects) /\ Open.scan \in Tails
        /\ Open'.turn = loop.turn /\ Open'.scan = ScanTail(loop.turn, Open.scan, e)
        /\ Open'.scan # Refuse(Open.scan)
    BY <2>1, <2>2, ScanNext
  <2>5. Open'.scan = WithStep(Open.scan, loop.step)
    <3>1. ScanTail(loop.turn, Open.scan, e) = IF Open.scan.step = 0
            THEN WithStep(Open.scan, e.step) ELSE Refuse(Open.scan)
      BY <2>2, ScanStep
    <3> QED
      BY <2>2, <2>4, <3>1
  <2>6. Open'.scan.step = loop.step /\ Open'.scan.pending = PendingNow
    BY <2>4, <2>5 DEF Tails, PendingNow, WithStep
  <2> QED
    BY <2>1, <2>4, <2>6, OpenPlain
<1>3. CASE StepEnds
  <2>1. PICK o : Appends(StepEnd(loop.turn, loop.open, o))
    BY <1>3 DEF StepEnds
  <2> DEFINE e == StepEnd(loop.turn, loop.open, o)
  <2>2. /\ Live /\ Appends(e) /\ loop'.turn = loop.turn /\ loop'.open = 0
        /\ loop'.pending = loop.pending /\ loop'.pc \notin Special /\ effects' = effects
    BY <1>3, <2>1 DEF StepEnds, Special, Appends
  <2>3. e.turn = loop.turn /\ e.type = "step/end"
    BY DEF StepEnd
  <2> HIDE DEF e
  <2>4. /\ OpensAs(Open, loop) /\ StartedIn(Open, effects) /\ Open.scan \in Tails
        /\ Open'.turn = loop.turn /\ Open'.scan = ScanTail(loop.turn, Open.scan, e)
        /\ Open'.scan # Refuse(Open.scan)
    BY <2>2, <2>3, ScanNext
  <2>5. Open'.scan = WithStep(Open.scan, 0)
    <3>1. ScanTail(loop.turn, Open.scan, e) = IF Open.scan.step = e.step /\ Open.scan.pending = << >>
            THEN WithStep(Open.scan, 0) ELSE Refuse(Open.scan)
      BY <2>3, ScanStep
    <3> QED
      BY <2>4, <3>1
  <2>6. Open'.scan.step = 0 /\ Open'.scan.pending = PendingNow
    BY <2>4, <2>5 DEF Tails, PendingNow, WithStep
  <2> QED
    BY <2>2, <2>4, <2>6, OpenPlain
<1> QED
  BY <1>1, <1>2, <1>3

(* A result.                                                               *)
LEMMA OpenAnswers ==
  ASSUME BaseInv, OpenInv, Answers, Open'.scan.ok
  PROVE  OpensAs(Open', loop') /\ StartedIn(Open', effects')
<1>1. PICK o : Appends(ToolResult(loop.turn, Current, o))
  BY DEF Answers
<1> DEFINE e == ToolResult(loop.turn, Current, o)
           q == Open'.scan.pending
           r == PendingNow
<1>2. /\ Live /\ Appends(e) /\ loop'.turn = loop.turn /\ loop'.open = loop.open
      /\ loop.pending # << >> /\ loop'.pending = Tail(loop.pending)
      /\ loop'.pc \notin Special /\ effects' = effects
  BY <1>1 DEF Answers, Special, Appends
<1>3. e.turn = loop.turn /\ e.type = "tool/result" /\ e.call = Current
  BY DEF ToolResult
<1> HIDE DEF e
<1>4. /\ OpensAs(Open, loop) /\ StartedIn(Open, effects) /\ Open.scan \in Tails
      /\ Open'.turn = loop.turn /\ Open'.scan = ScanTail(loop.turn, Open.scan, e)
      /\ Open'.scan # Refuse(Open.scan)
  BY <1>2, <1>3, ScanNext
<1>5. /\ IsFirst(Open.scan, Current) /\ r \in Seq(Pendings) /\ Len(r) \in Nat \ {0}
      /\ Len(r) = Len(loop.pending) /\ loop.pending \in Seq(Requests)
  BY <1>2, <1>4, FirstPending
<1>6. Open'.scan = WithPending(Open.scan, Tail(Open.scan.pending))
  <2>1. ScanTail(loop.turn, Open.scan, e) = IF Open.scan.step # 0
          THEN WithPending(Open.scan, Tail(Open.scan.pending)) ELSE Refuse(Open.scan)
    <3>1. IsFirst(Open.scan, e.call)
      BY <1>3, <1>5
    <3> HIDE DEF r
    <3> QED
      BY <1>3, <1>4, <3>1, ScanCall
  <2> QED
    BY <1>4, <2>1
<1>7. Open'.scan.step = Open.scan.step /\ q = Tail(r)
  BY <1>4, <1>6 DEF Tails, PendingNow, WithPending
<1>8. /\ Open.turn = loop.turn /\ Open.scan.step = loop.open
      /\ \A i \in DOMAIN r : r[i].call = loop.pending[i].call
      /\ \A i \in DOMAIN r : ~loop.pending[i].started => r[i] = NewPending(r[i].call)
  BY <1>4 DEF OpensAs, PendingNow
<1>9. \A x \in effects : \A i \in DOMAIN r : x.turn = Open.turn /\ x.call = r[i].call => r[i].started
  BY <1>4 DEF StartedIn, PendingNow
<1> HIDE DEF q, r
<1>10. /\ DOMAIN q = DOMAIN loop'.pending
       /\ \A i \in DOMAIN q : /\ i + 1 \in DOMAIN r /\ q[i] = r[i + 1]
                              /\ loop'.pending[i] = loop.pending[i + 1]
  BY <1>2, <1>5, <1>7
<1>11. OpensAs(Open', loop')
  <2>1. /\ \A i \in DOMAIN q : q[i].call = loop'.pending[i].call
        /\ \A i \in DOMAIN q : ~loop'.pending[i].started => q[i] = NewPending(q[i].call)
    BY <1>8, <1>10
  <2> QED
    BY <1>2, <1>4, <1>7, <1>8, <1>10, <2>1 DEF OpensAs, q, Special
<1>12. StartedIn(Open', effects')
  <2>1. \A x \in effects : \A i \in DOMAIN q : x.turn = Open'.turn /\ x.call = q[i].call => q[i].started
    BY <1>4, <1>8, <1>9, <1>10
  <2> QED
    BY <1>2, <2>1 DEF StartedIn, q
<1> QED
  BY <1>11, <1>12

(* A batch.                                                                *)
LEMMA OpenRequested ==
  ASSUME BaseInv, PastInv, OpenInv, Requested, Open'.scan.ok
  PROVE  OpensAs(Open', loop') /\ StartedIn(Open', effects')
<1>1. PICK b \in Batches :
        /\ Appends(ToolCalls(loop.turn, BatchCalls(b)))
        /\ loop'.pending = [k \in DOMAIN BatchCalls(b) |->
                              [call |-> BatchCalls(b)[k], started |-> FALSE]]
  BY DEF Requested
<1> DEFINE calls == BatchCalls(b)
           e == ToolCalls(loop.turn, calls)
           q == Open'.scan.pending
<1>2. /\ Live /\ Appends(e) /\ loop'.turn = loop.turn /\ loop'.open = loop.open
      /\ loop'.pc \notin Special /\ effects' = effects /\ loop.pc = "model"
  BY <1>1 DEF Requested, Special, Appends, At, Live, Runs
<1>3. e.turn = loop.turn /\ e.type = "assistant/tool-calls" /\ e.calls = calls
  BY DEF ToolCalls
<1>4. \A k \in DOMAIN calls : calls[k].id[1] = loop.step
  <2>1. loop.step \in Numbers
    BY <1>2 DEF BaseInv, LoopInv, LoopOk, Live
  <2> QED
    BY <2>1, BatchType
<1>5. loop'.pending = [k \in DOMAIN calls |-> [call |-> calls[k], started |-> FALSE]]
  BY <1>1
<1> HIDE DEF e, calls
<1>6. /\ OpensAs(Open, loop) /\ Open.scan \in Tails
      /\ Open'.turn = loop.turn /\ Open'.scan = ScanTail(loop.turn, Open.scan, e)
      /\ Open'.scan # Refuse(Open.scan)
  BY <1>2, <1>3, ScanNext
<1>7. Open'.scan = WithPending(Open.scan, Asks(calls))
  <2>1. ScanTail(loop.turn, Open.scan, e) \in {WithPending(Open.scan, Asks(e.calls)), Refuse(Open.scan)}
    BY <1>3, ScanCalls
  <2> QED
    BY <1>3, <1>6, <2>1
<1>8. Open'.scan.step = Open.scan.step /\ q = [i \in DOMAIN calls |-> NewPending(calls[i])]
      /\ Open.scan.step = loop.open
  BY <1>6, <1>7 DEF Tails, OpensAs, WithPending, Asks
<1> HIDE DEF q
<1>9. /\ DOMAIN q = DOMAIN loop'.pending
      /\ \A i \in DOMAIN q : /\ q[i] = NewPending(calls[i]) /\ q[i].call = calls[i]
                             /\ loop'.pending[i].call = calls[i] /\ q[i].call.id[1] = loop.step
  BY <1>4, <1>5, <1>8 DEF NewPending
<1>10. OpensAs(Open', loop')
  BY <1>2, <1>6, <1>8, <1>9 DEF OpensAs, q, Special
<1>11. ASSUME NEW x \in effects, x.turn = loop.turn, NEW i \in DOMAIN q
       PROVE  x.call # q[i].call
  <2>1. x.call.id[1] < loop.step
    BY <1>2, <1>11 DEF PastInv, NextBatch, Unasked
  <2>2. loop.step \in Nat /\ x.call.id[1] \in Nat
    <3>1. x \in Effects /\ loop \in Loops
      BY <1>11 DEF BaseInv, TypeInv
    <3> QED
      BY <3>1 DEF Effects, Calls, Loops, Numbers
  <2> QED
    BY <1>9, <1>11, <2>1, <2>2
<1>12. StartedIn(Open', effects')
  BY <1>2, <1>6, <1>11 DEF StartedIn, q
<1> QED
  BY <1>10, <1>12

(* A call that starts.                                                     *)
LEMMA OpenRecorded ==
  ASSUME BaseInv, OpenInv, Recorded, Open'.scan.ok
  PROVE  OpensAs(Open', loop') /\ StartedIn(Open', effects')
<1> DEFINE e == ToolCall(loop.turn, Current)
           p == PendingNow[1]
           u == loop.pending
<1>1. /\ Live /\ Appends(e) /\ loop'.turn = loop.turn /\ loop'.open = loop.open
      /\ u # << >> /\ loop'.pending = [u EXCEPT ![1].started = TRUE]
      /\ loop'.pc \in {"settle", "effect", "ask"} /\ loop.pc = "call" /\ effects' = effects
  BY DEF Recorded, Appends, At, Live, Runs
<1>2. e.turn = loop.turn /\ e.type = "tool/call" /\ e.call = Current
  BY DEF ToolCall
<1> HIDE DEF e
<1>3. /\ OpensAs(Open, loop) /\ StartedIn(Open, effects) /\ Open.scan \in Tails
      /\ Open'.turn = loop.turn /\ Open'.scan = ScanTail(loop.turn, Open.scan, e)
      /\ Open'.scan # Refuse(Open.scan)
  BY <1>1, <1>2, ScanNext
<1>4. /\ IsFirst(Open.scan, Current) /\ p \in Pendings /\ p.call = Current
      /\ 1 \in DOMAIN u /\ 1 \in DOMAIN PendingNow /\ u \in Seq(Requests) /\ u[1].call = Current
  BY <1>1, <1>3, FirstPending
<1>5. Open'.scan = Changed(Open.scan, StartedOf(p))
  <2>1. p = Open.scan.pending[1]
    BY DEF PendingNow
  <2> HIDE DEF p
  <2>2. ScanTail(loop.turn, Open.scan, e) = IF Open.scan.step # 0 /\ ~p.started
                  THEN Changed(Open.scan, StartedOf(p)) ELSE Refuse(Open.scan)
    BY <1>2, <1>3, <1>4, <2>1, ScanCall
  <2> QED
    BY <1>3, <2>2
<1>6. ~u[1].started
  BY <1>1, <1>4 DEF BaseInv, LoopInv, LoopOk
<1>7. p = NewPending(p.call)
  BY <1>3, <1>4, <1>6 DEF OpensAs, PendingNow
<1>8. p.approval = "none" /\ ~p.prepared
  <2> HIDE DEF p
  <2> QED
    BY <1>7 DEF NewPending
<1> DEFINE q == StartedOf(p)
<1>9. q.call = Current /\ q.started /\ q.approval = "none" /\ ~q.prepared
  <2> HIDE DEF p
  <2> QED
    BY <1>4, <1>8 DEF StartedOf, Pendings
<1>10. /\ DOMAIN loop'.pending = DOMAIN u /\ loop'.pending[1] = [u[1] EXCEPT !.started = TRUE]
       /\ \A i \in DOMAIN u : i # 1 => loop'.pending[i] = u[i]
  BY <1>1, <1>4
<1>11. u[1] \in Requests
  BY <1>4
<1>12. loop'.pending[1].started /\ loop'.pending[1].call = Current
  <2> HIDE DEF u
  <2> QED
    BY <1>4, <1>10, <1>11 DEF Requests
<1> HIDE DEF q
<1> QED
  BY <1>1, <1>3, <1>5, <1>9, <1>10, <1>12, OpenCall DEF q

(* A question, or a sandbox that is prepared.                              *)
LEMMA OpenAsked ==
  ASSUME BaseInv, PastInv, OpenInv, Asked \/ Readied, Open'.scan.ok
  PROVE  OpensAs(Open', loop') /\ StartedIn(Open', effects')
<1> DEFINE p == PendingNow[1]
           u == loop.pending
<1>1. /\ Live /\ Same /\ u # << >> /\ effects' = effects /\ u[1].started
      /\ loop.pc \in {"ask", "sandbox"}
  BY DEF Asked, Readied, Appends, At, Live, Runs, BaseInv, LoopInv, LoopOk, Executing
<1>2. PICK e \in {ApprovalAsked(loop.turn, Current), SandboxPrepared(loop.turn, Current)} :
        /\ Appends(e)
        /\ \/ Asked /\ e = ApprovalAsked(loop.turn, Current)
           \/ Readied /\ e = SandboxPrepared(loop.turn, Current)
  BY DEF Asked, Readied
<1>3. /\ e.turn = loop.turn /\ e.call = Current /\ e.type \in {"approval/asked", "sandbox/prepared"}
      /\ Asked => loop.pc = "ask" /\ loop'.pc = "approve"
      /\ Readied => loop.pc = "sandbox" /\ loop'.pc = "effect"
      /\ \/ Asked /\ e.type = "approval/asked"
         \/ Readied /\ e.type = "sandbox/prepared"
  BY <1>2 DEF ApprovalAsked, SandboxPrepared, Asked, Readied, At
<1>4. /\ OpensAs(Open, loop) /\ StartedIn(Open, effects) /\ Open.scan \in Tails
      /\ Open'.turn = loop.turn /\ Open'.scan = ScanTail(loop.turn, Open.scan, e)
      /\ Open'.scan # Refuse(Open.scan)
  BY <1>1, <1>2, <1>3, ScanNext
<1>5. /\ IsFirst(Open.scan, Current) /\ p \in Pendings /\ p.call = Current
      /\ u[1].call = Current /\ p = Open.scan.pending[1] /\ 1 \in DOMAIN u
  BY <1>1, <1>4, FirstPending DEF PendingNow
<1>6. ~p.prepared
  BY <1>1, <1>4 DEF OpensAs, PendingNow
<1> HIDE DEF p, u
<1>7. CASE Asked /\ e.type = "approval/asked"
  <2> DEFINE q == AskedOf(p)
  <2>1. Open'.scan = Changed(Open.scan, q)
    <3>1. ScanTail(loop.turn, Open.scan, e) =
                IF Open.scan.step # 0 /\ p.started /\ p.approval = "none"
                  THEN Changed(Open.scan, AskedOf(p)) ELSE Refuse(Open.scan)
      BY <1>3, <1>4, <1>5, <1>7, ScanCall
    <3> QED
      BY <1>4, <3>1
  <2>2. q.call = Current /\ q.approval = "asked" /\ ~q.prepared
    BY <1>5, <1>6 DEF AskedOf, Pendings
  <2>3. \A x \in effects : ~(x.turn = loop.turn /\ x.call = Current)
    BY <1>1, <1>3, <1>5, <1>7 DEF PastInv, u
  <2> HIDE DEF q
  <2> QED
    BY <1>1, <1>3, <1>4, <1>5, <1>7, <2>1, <2>2, <2>3, OpenCall DEF Same, u
<1>8. CASE Readied /\ e.type = "sandbox/prepared"
  <2> DEFINE q == PreparedOf(p)
  <2>1. Open'.scan = Changed(Open.scan, q)
    <3>1. ScanTail(loop.turn, Open.scan, e) =
                IF Open.scan.step # 0 /\ p.approval = "allowed-once" /\ ~p.prepared
                  THEN Changed(Open.scan, PreparedOf(p)) ELSE Refuse(Open.scan)
      BY <1>3, <1>4, <1>5, <1>8, ScanCall
    <3> QED
      BY <1>4, <3>1
  <2>2. q.call = Current /\ q.started
    BY <1>5 DEF PreparedOf, Pendings
  <2> HIDE DEF q
  <2> QED
    BY <1>1, <1>3, <1>4, <1>5, <1>8, <2>1, <2>2, OpenCall DEF Same, u
<1> QED
  BY <1>3, <1>7, <1>8

(* A decision.                                                             *)
LEMMA OpenDecided ==
  ASSUME BaseInv, PastInv, OpenInv, Judged, Open'.scan.ok
  PROVE  OpensAs(Open', loop') /\ StartedIn(Open', effects')
<1> DEFINE p == PendingNow[1]
           u == loop.pending
<1>1. PICK o \in {"allowed-once", "rejected"} :
        /\ Appends(ApprovalDecided(loop.turn, Current, o))
        /\ loop'.pc = IF o = "allowed-once" THEN "sandbox" ELSE "settle"
  BY DEF Judged
<1> DEFINE e == ApprovalDecided(loop.turn, Current, o)
<1>2. /\ Live /\ Appends(e) /\ Same /\ u # << >> /\ effects' = effects /\ u[1].started
      /\ loop.pc = "approve"
  BY <1>1 DEF Judged, Appends, At, Live, Runs, BaseInv, LoopInv, LoopOk, Executing
<1>3. e.turn = loop.turn /\ e.call = Current /\ e.type = "approval/decided" /\ e.outcome = o
  BY DEF ApprovalDecided
<1> HIDE DEF e
<1>4. /\ OpensAs(Open, loop) /\ StartedIn(Open, effects) /\ Open.scan \in Tails
      /\ Open'.turn = loop.turn /\ Open'.scan = ScanTail(loop.turn, Open.scan, e)
      /\ Open'.scan # Refuse(Open.scan)
  BY <1>2, <1>3, ScanNext
<1>5. /\ IsFirst(Open.scan, Current) /\ p \in Pendings /\ p.call = Current
      /\ u[1].call = Current /\ p = Open.scan.pending[1] /\ 1 \in DOMAIN u
  BY <1>2, <1>4, FirstPending DEF PendingNow
<1>6. ~p.prepared
  BY <1>2, <1>4 DEF OpensAs, PendingNow
<1> HIDE DEF p, u
<1> DEFINE q == DecidedOf(p, o)
<1>7. Open'.scan = Changed(Open.scan, q)
  <2>1. ScanTail(loop.turn, Open.scan, e) = IF Open.scan.step # 0 /\ p.approval = "asked"
          THEN Changed(Open.scan, DecidedOf(p, e.outcome)) ELSE Refuse(Open.scan)
    BY <1>3, <1>4, <1>5, ScanCall
  <2> QED
    BY <1>3, <1>4, <2>1
<1>8. q.call = Current /\ q.approval = o /\ ~q.prepared /\ q.started = p.started
  BY <1>5, <1>6 DEF DecidedOf, Pendings
<1>9. \A x \in effects : ~(x.turn = loop.turn /\ x.call = Current)
  BY <1>2, <1>5 DEF PastInv, u
<1> HIDE DEF q
<1>10. /\ loop'.pc \in {"sandbox", "settle"} /\ (loop'.pc = "sandbox" => o = "allowed-once")
  BY <1>1
<1> QED
  BY <1>2, <1>4, <1>5, <1>7, <1>8, <1>9, <1>10, OpenCall DEF Same, u

(* A turn that starts.                                                     *)
LEMMA OpenStarts ==
  ASSUME BaseInv, OpenInv, Starts, Open'.scan.ok
  PROVE  OpensAs(Open', loop') /\ StartedIn(Open', effects') /\ Open.scan.ok /\ Open.turn = 0
<1> DEFINE e == TurnStart(Turns + 1)
<1>1. /\ log \in Seq(Events) /\ e \in Events /\ log' = Append(log, e)
      /\ loop' = [Idle EXCEPT !.pc = "user", !.turn = Turns + 1, !.step = 1]
  BY DEF BaseInv, TypeInv, Starts, Appends
<1>2. e.type = "turn/start" /\ e.turn = Turns + 1
  BY DEF TurnStart
<1> HIDE DEF e
<1>3. Open' = TailScan(Append(log, e)) /\ Open.scan \in Tails
  BY <1>1, TailScanType DEF Open
<1>4. Open.scan.ok
  BY <1>1, <1>2, <1>3, TailAppend DEF Open
<1>5. Open.turn = 0
  <2> SUFFICES ASSUME Open.turn # 0 PROVE FALSE
    OBVIOUS
  <2>1. Open'.scan = ScanTail(Open.turn, Open.scan, e)
    BY <1>1, <1>2, <1>3, <1>4, TailAppend DEF Open
  <2>2. ScanTail(Open.turn, Open.scan, e) = Refuse(Open.scan)
    BY <1>2 DEF ScanTail, Foreign
  <2> QED
    BY <1>3, <2>1, <2>2 DEF Refuse, Tails
<1>6. Open'.turn = Turns + 1 /\ Open'.scan = NewTail
  BY <1>1, <1>2, <1>3, <1>4, <1>5, TailAppend DEF Open
<1>7. /\ loop'.turn = Turns + 1 /\ loop'.open = 0 /\ loop'.pending = << >> /\ loop'.pc = "user"
  BY <1>1 DEF Idle
<1>8. NewTail.step = 0 /\ NewTail.pending = << >> /\ DOMAIN << >> = {}
  BY DEF NewTail
<1> QED
  BY <1>4, <1>5, <1>6, <1>7, <1>8 DEF OpensAs, StartedIn

(* Nothing is open after the end of a turn.                                *)
LEMMA OpenClosed ==
  ASSUME BaseInv, Ends \/ (Reload /\ Open.turn # 0)
  PROVE  ~Live' /\ Open' = [turn |-> 0, scan |-> NewTail] /\ PendingNow' = << >>
<1>1. ~Live'
  BY ReloadIs DEF Ends, Idle, Live, Runs
<1>2. Open' = [turn |-> 0, scan |-> NewTail]
  <2>1. CASE Ends
    <3>1. PICK o : Appends(TurnEnd(loop.turn, o))
      BY <2>1 DEF Ends
    <3> DEFINE e == TurnEnd(loop.turn, o)
    <3>2. e.type = "turn/end"
      BY DEF TurnEnd
    <3>3. log \in Seq(Events) /\ e \in Events /\ log' = Append(log, e)
      BY <3>1 DEF BaseInv, TypeInv, Appends
    <3> HIDE DEF e
    <3> QED
      BY <3>2, <3>3, TailAppend DEF Open
  <2>2. CASE Reload /\ Open.turn # 0
    <3>1. log \in Seq(Events) /\ log' = log \o Closers(log)
      BY <2>2, ReloadIs DEF BaseInv, TypeInv
    <3>2. TailScan(log \o Closers(log)) = [turn |-> 0, scan |-> NewTail]
      BY <2>2, <3>1, Recovered DEF BaseInv, CommandInv, Open
    <3> QED
      BY <3>1, <3>2 DEF Open
  <2> QED
    BY <2>1, <2>2
<1> QED
  BY <1>1, <1>2 DEF PendingNow, NewTail

(* The scan finds open what the loop has open, whatever step is taken.     *)
LEMMA OpenStep ==
  ASSUME BaseInv, PastInv, OpenInv, [Next]_vars
  PROVE  OpenInv'
<1>1. TypeInv /\ LoopInv /\ CancelInv
  BY DEF BaseInv
<1>2. \/ Still \/ Starts \/ Says \/ StepStarts \/ StepEnds \/ Ends \/ Answers
      \/ Requested \/ Recorded \/ Asked \/ Judged \/ Readied \/ Acts \/ Reload
  BY <1>1, NextIs
<1>3. SUFFICES ASSUME Open'.scan.ok
               PROVE  (Live' => OpensAs(Open', loop')) /\ StartedIn(Open', effects')
  BY DEF OpenInv
<1>4. CASE Still
  <2>1. Open' = Open /\ effects' = effects
    BY <1>4 DEF Still, Open
  <2>2. Open.scan.ok /\ (Live => OpensAs(Open, loop)) /\ StartedIn(Open, effects)
    BY <1>3, <2>1 DEF OpenInv
  <2>3. ASSUME Live' PROVE OpensAs(Open, loop')
    <3>1. /\ Live /\ Same
          /\ loop'.pc = loop.pc \/ loop'.pc \notin {"ask", "approve", "sandbox", "effect"}
      BY <1>4, <2>3 DEF Still, Live, Runs
    <3> QED
      BY <2>2, <3>1 DEF OpensAs, Same
  <2> QED
    BY <2>1, <2>2, <2>3
<1>5. CASE Starts
  BY <1>3, <1>5, OpenStarts
<1>6. CASE Says \/ StepStarts \/ StepEnds
  BY <1>3, <1>6, OpenSays
<1>7. CASE Ends \/ (Reload /\ Open.turn # 0)
  <2>1. ~Live' /\ Open' = [turn |-> 0, scan |-> NewTail]
    BY <1>7, OpenClosed
  <2>2. NewTail.pending = << >> /\ DOMAIN << >> = {}
    BY DEF NewTail
  <2> QED
    BY <2>1, <2>2 DEF StartedIn
<1>8. CASE Answers
  BY <1>3, <1>8, OpenAnswers
<1>9. CASE Requested
  BY <1>3, <1>9, OpenRequested
<1>10. CASE Recorded
  BY <1>3, <1>10, OpenRecorded
<1>11. CASE Asked \/ Readied
  BY <1>3, <1>11, OpenAsked
<1>12. CASE Judged
  BY <1>3, <1>12, OpenDecided
<1>13. CASE Acts
  <2> DEFINE y == [turn |-> loop.turn, call |-> Current]
  <2>1. Open' = Open /\ loop' = loop /\ effects' = effects \cup {y} /\ Live /\ Live' = Live
        /\ loop.pc = "effect"
    BY <1>13 DEF Acts, Open, Live, Runs, At
  <2>2. OpensAs(Open, loop) /\ StartedIn(Open, effects) /\ Open.scan \in Tails
    BY <1>3, <2>1, TailScanType DEF OpenInv, Open, BaseInv, TypeInv
  <2>3. loop.pending # << >>
    BY <1>1, <2>1 DEF LoopInv, LoopOk, Executing
  <2>4. IsFirst(Open.scan, Current) /\ 1 \in DOMAIN Open.scan.pending
    BY <2>2, <2>3, FirstPending DEF PendingNow
  <2>5. Open.scan.pending[1].started
    BY <2>1, <2>2 DEF OpensAs
  <2>6. y.turn = loop.turn /\ y.call = Current
    OBVIOUS
  <2> HIDE DEF y
  <2>7. \A i \in DOMAIN Open.scan.pending : y.call = Open.scan.pending[i].call => i = 1
    BY <2>4, <2>6 DEF IsFirst
  <2>8. StartedIn(Open, effects')
    BY <2>1, <2>2, <2>5, <2>7 DEF StartedIn
  <2> QED
    BY <2>1, <2>2, <2>8
<1>14. CASE Reload /\ Open.turn = 0
  <2>1. log' = log /\ loop' = Idle /\ effects' = effects
    BY <1>14, ReloadIs
  <2>2. Open' = Open /\ ~Live'
    BY <2>1 DEF Open, Idle, Live, Runs
  <2> QED
    BY <1>3, <2>1, <2>2 DEF OpenInv
<1> QED
  BY <1>2, <1>4, <1>5, <1>6, <1>7, <1>8, <1>9, <1>10, <1>11, <1>12, <1>13, <1>14
-------------------------------------------------------------------------------
(* A result that says a call never started is true.                        *)
LEMMA HonestAppended ==
  ASSUME BaseInv, HonestResults, NEW e, Appends(e),
         e.type = "tool/result" /\ e.outcome \in NeverStarted
           => [turn |-> e.turn, call |-> e.call] \notin effects
  PROVE  HonestResults'
<1>1. log \in Seq(Events) /\ e \in Events /\ log' = Append(log, e) /\ effects' = effects
  BY DEF BaseInv, TypeInv, Appends
<1>2. \A i \in DOMAIN log' : (i \in DOMAIN log /\ log'[i] = log[i]) \/ log'[i] = e
  BY <1>1, AppendExtends DEF Extends
<1> QED
  BY <1>1, <1>2 DEF HonestResults

(* No step makes a result that denies an effect false.                     *)
LEMMA HonestStep ==
  ASSUME BaseInv, PastInv, OpenInv, HonestResults, [Next]_vars
  PROVE  HonestResults'
<1>1. TypeInv /\ LoopInv /\ CancelInv /\ log \in Seq(Events) /\ Len(log) \in Nat /\ DOMAIN log = 1 .. Len(log)
      /\ loop \in Loops
  BY DEF BaseInv, TypeInv
<1>2. \/ Still \/ Starts \/ Says \/ StepStarts \/ StepEnds \/ Ends \/ Answers
      \/ Requested \/ Recorded \/ Asked \/ Judged \/ Readied \/ Acts \/ Reload
  BY <1>1, NextIs
<1>3. CASE Still
  BY <1>3 DEF Still, HonestResults
<1>4. CASE \/ Starts \/ Says \/ StepStarts \/ StepEnds \/ Ends
           \/ Requested \/ Recorded \/ Asked \/ Judged \/ Readied
  <2>1. \E e : Appends(e) /\ e.type # "tool/result"
    <3>1. CASE Starts
      BY <3>1 DEF Starts, TurnStart
    <3>2. CASE Says
      BY <3>2 DEF Says, UserMessage, AssistantMessage, TurnError
    <3>3. CASE StepStarts
      BY <3>3 DEF StepStarts, StepStart
    <3>4. CASE StepEnds
      BY <3>4 DEF StepEnds, StepEnd
    <3>6. CASE Ends
      BY <3>6 DEF Ends, TurnEnd
    <3>7. CASE Requested
      BY <3>7 DEF Requested, ToolCalls
    <3>8. CASE Recorded
      BY <3>8 DEF Recorded, ToolCall
    <3>5. CASE Asked \/ Judged \/ Readied
      BY <3>5 DEF Asked, Judged, Readied, ApprovalAsked, ApprovalDecided, SandboxPrepared
    <3> QED
      BY <1>4, <3>1, <3>2, <3>3, <3>4, <3>5, <3>6, <3>7, <3>8
  <2> QED
    BY <2>1, HonestAppended
<1>5. CASE Answers
  <2>1. PICK o : /\ Appends(ToolResult(loop.turn, Current, o))
                 /\ o \in NeverStarted => ~loop.pending[1].started
    BY <1>5 DEF Answers
  <2> DEFINE e == ToolResult(loop.turn, Current, o)
             y == [turn |-> loop.turn, call |-> Current]
  <2>2. e.turn = loop.turn /\ e.call = Current /\ e.outcome = o
    BY DEF ToolResult
  <2>3. Live /\ loop.pending # << >> /\ 1 \in DOMAIN loop.pending /\ Current = loop.pending[1].call
    <3>1. Live /\ loop.pending # << >> /\ loop.pending \in Seq(Requests)
      BY <1>1, <1>5 DEF Answers, Loops
    <3> QED
      BY <3>1 DEF Current
  <2>4. y.turn = loop.turn /\ y.call = Current
    OBVIOUS
  <2> HIDE DEF e, y
  <2>5. o \in NeverStarted => y \notin effects
    BY <2>1, <2>3, <2>4 DEF PastInv
  <2>6. [turn |-> e.turn, call |-> e.call] = y
    BY <2>2 DEF y
  <2> QED
    BY <2>1, <2>2, <2>5, <2>6, HonestAppended DEF e
<1>6. CASE Acts
  <2> DEFINE y == [turn |-> loop.turn, call |-> Current]
  <2>1. log' = log /\ effects' = effects \cup {y} /\ Live /\ loop.pending # << >>
    BY <1>1, <1>6 DEF Acts, Live, Runs, At, LoopInv, LoopOk, Executing
  <2>2. 1 \in DOMAIN loop.pending /\ Current = loop.pending[1].call
    <3>1. loop.pending \in Seq(Requests)
      BY <1>1 DEF Loops
    <3> QED
      BY <2>1, <3>1 DEF Current
  <2>3. ASSUME NEW i \in DOMAIN log, log[i].type = "tool/result"
        PROVE  [turn |-> log[i].turn, call |-> log[i].call] # y
    <3> SUFFICES ASSUME [turn |-> log[i].turn, call |-> log[i].call] = y PROVE FALSE
      OBVIOUS
    <3>1. log[i].turn = loop.turn /\ log[i].call = Current
      OBVIOUS
    <3> QED
      BY <2>1, <2>2, <2>3, <3>1 DEF PastInv
  <2> HIDE DEF y
  <2> QED
    BY <2>1, <2>3 DEF HonestResults
<1>7. CASE Reload
  <2>1. /\ effects' = effects /\ Open.scan.ok
        /\ Open.turn = 0 => log' = log
        /\ Open.turn # 0 => log' = log \o Closers(log)
    BY <1>7, ReloadIs DEF Loadable, Open
  <2>2. CASE Open.turn = 0
    BY <2>1, <2>2 DEF HonestResults
  <2>3. CASE Open.turn # 0
    <3> DEFINE k == log \o Closers(log)
    <3>1. /\ k \in Seq(Events) /\ Len(k) >= Len(log)
          /\ \A i \in 1 .. Len(log) : k[i] = log[i]
          /\ \A i \in Len(log) + 1 .. Len(k) :
               k[i].type = "tool/result" => \E j \in DOMAIN PendingNow : k[i] = Results(log)[j]
      BY <1>1, <2>3, Recovered DEF BaseInv, CommandInv, Open, PendingNow
    <3>2. ASSUME NEW j \in DOMAIN PendingNow
          PROVE  LET r == Results(log)[j]
                 IN  /\ r.turn = Open.turn /\ r.call = PendingNow[j].call
                     /\ r.outcome \in NeverStarted => ~PendingNow[j].started
      <4>1. Results(log)[j] = ToolResult(Open.turn, PendingNow[j].call,
               IF PendingNow[j].started THEN "outcome-unknown" ELSE "not-started")
        BY DEF Results, PendingNow, Open
      <4> QED
        BY <4>1 DEF ToolResult, NeverStarted
    <3>3. ASSUME NEW j \in DOMAIN PendingNow, Results(log)[j].outcome \in NeverStarted
          PROVE  [turn |-> Results(log)[j].turn, call |-> Results(log)[j].call] \notin effects
      <4> DEFINE y == [turn |-> Results(log)[j].turn, call |-> Results(log)[j].call]
      <4>1. y.turn = Open.turn /\ y.call = PendingNow[j].call /\ ~PendingNow[j].started
        BY <3>2, <3>3
      <4> HIDE DEF y
      <4>2. y \notin effects
        BY <2>1, <4>1 DEF OpenInv, StartedIn, PendingNow
      <4> QED
        BY <4>2 DEF y
    <3> HIDE DEF k
    <3>4. \A i \in DOMAIN k : i \in 1 .. Len(log) \/ i \in Len(log) + 1 .. Len(k)
      BY <1>1, <3>1
    <3>5. ASSUME NEW i \in DOMAIN k, k[i].type = "tool/result", k[i].outcome \in NeverStarted
          PROVE  [turn |-> k[i].turn, call |-> k[i].call] \notin effects
      <4>1. CASE i \in 1 .. Len(log)
        BY <1>1, <3>1, <3>5, <4>1 DEF HonestResults
      <4>2. CASE i \in Len(log) + 1 .. Len(k)
        <5>1. PICK j \in DOMAIN PendingNow : k[i] = Results(log)[j]
          BY <3>1, <3>5, <4>2
        <5> QED
          BY <3>3, <3>5, <5>1
      <4> QED
        BY <3>4, <4>1, <4>2
    <3>6. log' = k
      BY <2>1, <2>3 DEF k
    <3> QED
      BY <2>1, <3>5, <3>6 DEF HonestResults
  <2> QED
    BY <2>2, <2>3
<1> QED
  BY <1>2, <1>3, <1>4, <1>5, <1>6, <1>7
-------------------------------------------------------------------------------
(* Every bracket that opens is closed.                                     *)
LEMMA TailZero ==
  ASSUME NEW l \in Seq(Events), TailScan(l).turn = 0
  PROVE  TailScan(l).scan.step = 0 /\ TailScan(l).scan.pending = << >>
<1> DEFINE s == Suffix(l)
           n == StartOf(s)
<1>1. s \in Seq(Events) /\ n \in 0 .. Len(s) /\ IsStartOf(n, s)
  BY SuffixIs, StartOfIs DEF IsStartOf
<1>2. n = 0
  <2> SUFFICES ASSUME n # 0 PROVE FALSE
    OBVIOUS
  <2>1. TailScan(l).turn = s[n].turn
    BY TailIs
  <2>2. s[n] \in Events /\ s[n].type = "turn/start"
    BY <1>1 DEF IsStartOf
  <2> HIDE DEF n, s
  <2> QED
    BY <2>1, <2>2, EventFields DEF Numbers
<1>3. TailScan(l) = [turn |-> 0, scan |-> Before(Quiet(s))]
  BY <1>2, TailIs
<1> QED
  BY <1>3 DEF Before, NewTail, Refuse

(* An event inside a step keeps the brackets.                              *)
LEMMA BracketInner ==
  ASSUME NEW l \in Seq(Events), NEW e \in Events, Bracketed(l), TailScan(l).turn # 0,
         e.type \notin Brackets \cup {"compaction/summary", "context-budget/decision"},
         ScanTail(TailScan(l).turn, TailScan(l).scan, e).ok,
         ScanTail(TailScan(l).turn, TailScan(l).scan, e).step = TailScan(l).scan.step
  PROVE  Bracketed(Append(l, e))
<1> DEFINE k == Append(l, e)
<1>1. TailScan(k).turn = TailScan(l).turn
      /\ TailScan(k).scan = ScanTail(TailScan(l).turn, TailScan(l).scan, e)
  BY TailAppend DEF Bracketed, Brackets
<1>2. Surface(k).openTurn = Surface(l).openTurn /\ Surface(k).openStep = Surface(l).openStep
  BY SurfaceKeeps DEF Brackets
<1>3. \A type \in Brackets : Count(k, type) = Count(l, type)
  <2> TAKE type \in Brackets
  <2>1. Count(l, type) \in Nat
    BY CountType
  <2>2. Count(k, type) = Count(l, type) + 0
    BY CountAppend
  <2> QED
    BY <2>1, <2>2
<1> HIDE DEF k
<1> QED
  BY <1>1, <1>2, <1>3 DEF Bracketed, Brackets, k

(* So does a bracket in its place.                                         *)
LEMMA BracketOuter ==
  ASSUME NEW l \in Seq(Events), NEW e \in Events, Bracketed(l),
         \/ /\ e.type = "turn/start" /\ TailScan(l).turn = 0
         \/ /\ e.type = "turn/end" /\ TailScan(l).turn = e.turn /\ e.turn # 0
            /\ TailScan(l).scan.step = 0
         \/ /\ e.type = "step/start" /\ e.turn = TailScan(l).turn /\ e.turn # 0
            /\ TailScan(l).scan.step = 0
         \/ /\ e.type = "step/end" /\ e.turn = TailScan(l).turn /\ e.turn # 0
            /\ TailScan(l).scan.step = e.step /\ TailScan(l).scan.pending = << >>
  PROVE  Bracketed(Append(l, e))
<1> DEFINE k == Append(l, e)
           now == TailScan(l)
           next == TailScan(k)
<1>1. \A type \in Brackets : /\ Count(l, type) \in Nat
                             /\ Count(k, type) = Count(l, type) + (IF e.type = type THEN 1 ELSE 0)
  BY CountType, CountAppend
<1>2. now.turn \in Nat /\ now.scan \in Tails /\ now.scan.step \in Nat /\ now.scan.ok
  BY TailScanType DEF Tails, Bracketed
<1>3. /\ Surface(k).openTurn = CASE e.type = "turn/start" -> e.turn
                                 [] e.type = "turn/end" /\ Surface(l).openTurn = e.turn -> 0
                                 [] OTHER -> Surface(l).openTurn
      /\ Surface(k).openStep = CASE e.type = "step/start" -> e.step
                                 [] e.type = "step/end" /\ Surface(l).openStep = e.step -> 0
                                 [] OTHER -> Surface(l).openStep
  BY SurfaceKeeps
<1>4. /\ e.turn \in Numbers
      /\ (e.type \in {"step/start", "step/end"} => e.step \in Numbers)
  BY EventFields
<1>5. /\ NewTail.ok /\ NewTail.step = 0
  BY DEF NewTail
<1>6. CASE e.type = "turn/start" /\ now.turn = 0
  <2>1. next.turn = e.turn /\ next.scan = NewTail
    BY <1>2, <1>6, TailAppend
  <2>2. now.scan.step = 0
    BY <1>6, TailZero
  <2>3. Surface(k).openTurn = e.turn /\ Surface(k).openStep = 0
    BY <1>3, <1>6, <2>2 DEF Bracketed
  <2>4. /\ Count(k, "turn/start") = Count(l, "turn/start") + 1
        /\ Count(k, "turn/end") = Count(l, "turn/end")
        /\ Count(k, "step/start") = Count(l, "step/start")
        /\ Count(k, "step/end") = Count(l, "step/end")
    BY <1>1, <1>6 DEF Brackets
  <2> HIDE DEF k
  <2> QED
    BY <1>1, <1>4, <1>5, <1>6, <2>1, <2>2, <2>3, <2>4 DEF Bracketed, One, Numbers, Brackets, k
<1>7. CASE e.type = "turn/end" /\ now.turn = e.turn /\ now.scan.step = 0
  <2>1. next = [turn |-> 0, scan |-> NewTail]
    BY <1>7, TailAppend
  <2>2. Surface(k).openTurn = 0 /\ Surface(k).openStep = 0
    BY <1>3, <1>7 DEF Bracketed
  <2>3. /\ Count(k, "turn/start") = Count(l, "turn/start")
        /\ Count(k, "turn/end") = Count(l, "turn/end") + 1
        /\ Count(k, "step/start") = Count(l, "step/start")
        /\ Count(k, "step/end") = Count(l, "step/end")
    BY <1>1, <1>7 DEF Brackets
  <2> HIDE DEF k
  <2> QED
    BY <1>1, <1>4, <1>5, <1>7, <2>1, <2>2, <2>3 DEF Bracketed, One, Numbers, Brackets, k
<1>8. CASE e.type = "step/start" /\ e.turn = now.turn /\ now.scan.step = 0
  <2>1. next.turn = now.turn /\ next.scan = ScanTail(now.turn, now.scan, e)
    BY <1>2, <1>4, <1>8, TailAppend DEF Numbers
  <2>2. ScanTail(now.turn, now.scan, e) = WithStep(now.scan, e.step)
    <3> HIDE DEF now
    <3> QED
      BY <1>8, ScanStep
  <2>3. next.scan.ok /\ next.scan.step = e.step
    <3> HIDE DEF now, next
    <3> QED
      BY <1>2, <2>1, <2>2 DEF WithStep, Tails
  <2>4. Surface(k).openTurn = now.turn /\ Surface(k).openStep = e.step
    BY <1>3, <1>8 DEF Bracketed
  <2>5. /\ Count(k, "turn/start") = Count(l, "turn/start")
        /\ Count(k, "turn/end") = Count(l, "turn/end")
        /\ Count(k, "step/start") = Count(l, "step/start") + 1
        /\ Count(k, "step/end") = Count(l, "step/end")
    BY <1>1, <1>8 DEF Brackets
  <2> HIDE DEF k
  <2> QED
    BY <1>1, <1>4, <1>8, <2>1, <2>3, <2>4, <2>5 DEF Bracketed, One, Numbers, Brackets, k
<1>9. CASE e.type = "step/end" /\ e.turn = now.turn /\ now.scan.step = e.step /\ now.scan.pending = << >>
  <2>1. next.turn = now.turn /\ next.scan = ScanTail(now.turn, now.scan, e)
    BY <1>2, <1>4, <1>9, TailAppend DEF Numbers
  <2>2. ScanTail(now.turn, now.scan, e) = WithStep(now.scan, 0)
    <3> HIDE DEF now
    <3> QED
      BY <1>9, ScanStep
  <2>3. next.scan.ok /\ next.scan.step = 0
    <3> HIDE DEF now, next
    <3> QED
      BY <1>2, <2>1, <2>2 DEF WithStep, Tails
  <2>4. Surface(k).openTurn = now.turn /\ Surface(k).openStep = 0
    BY <1>3, <1>9 DEF Bracketed
  <2>5. /\ Count(k, "turn/start") = Count(l, "turn/start")
        /\ Count(k, "turn/end") = Count(l, "turn/end")
        /\ Count(k, "step/start") = Count(l, "step/start")
        /\ Count(k, "step/end") = Count(l, "step/end") + 1
    BY <1>1, <1>9 DEF Brackets
  <2> HIDE DEF k
  <2> QED
    BY <1>1, <1>4, <1>9, <2>1, <2>3, <2>4, <2>5 DEF Bracketed, One, Numbers, Brackets, k
<1> QED
  BY <1>6, <1>7, <1>8, <1>9

Inner == {"user/message", "assistant/message", "turn/error", "assistant/tool-calls", "tool/call",
          "approval/asked", "approval/decided", "sandbox/prepared", "tool/result"}

(* What the scan says while a turn is in progress.                         *)
LEMMA OpenLive ==
  ASSUME BaseInv, OpenInv, Open.scan.ok, Live
  PROVE  /\ OpensAs(Open, loop) /\ Open.turn = loop.turn /\ Open.turn # 0
         /\ Open.scan.step = loop.open /\ Open.scan \in Tails
         /\ loop.pending = << >> => PendingNow = << >>
<1>1. OpensAs(Open, loop) /\ Open.scan \in Tails
  BY TailScanType DEF OpenInv, Open, BaseInv, TypeInv
<1>2. loop.turn # 0
  BY DEF BaseInv, LoopInv, LoopOk, Live, Numbers
<1>3. PendingNow \in Seq(Pendings) /\ DOMAIN PendingNow = DOMAIN loop.pending
  BY <1>1 DEF Tails, OpensAs, PendingNow
<1>4. loop.pending = << >> => PendingNow = << >>
  BY <1>3
<1> QED
  BY <1>1, <1>2, <1>4 DEF OpensAs

(* The next event of a turn in progress is one the scan accepts.           *)
LEMMA InnerFits ==
  ASSUME BaseInv, OpenInv, Open.scan.ok,
         Says \/ Answers \/ Requested \/ Recorded \/ Asked \/ Judged \/ Readied
  PROVE  /\ Live
         /\ \E e : /\ Appends(e) /\ e.type \in Inner /\ e.turn = loop.turn
                   /\ ScanTail(Open.turn, Open.scan, e).ok
                   /\ ScanTail(Open.turn, Open.scan, e).step = Open.scan.step
<1>1. Live
  BY DEF Says, Answers, Requested, Recorded, Asked, Judged, Readied, Live, Runs, At
<1>2. /\ OpensAs(Open, loop) /\ Open.turn = loop.turn /\ Open.turn # 0
      /\ Open.scan.step = loop.open /\ Open.scan \in Tails
      /\ loop.pending = << >> => Open.scan.pending = << >>
  BY <1>1, OpenLive DEF PendingNow
<1> DEFINE tail == Open.scan
           Fits(x) == x.ok /\ x.step = tail.step
<1>3. Fits(tail) /\ \A s : Fits(WithPending(tail, s))
  BY <1>2 DEF WithPending, Tails
<1>4. \A p : Fits(Changed(tail, p))
  BY <1>2 DEF Changed, Tails
<1> HIDE DEF Fits
<1>5. SUFFICES \E e : /\ Appends(e) /\ e.type \in Inner /\ e.turn = loop.turn
                      /\ Fits(ScanTail(Open.turn, tail, e))
  BY <1>1 DEF Fits
<1>6. CASE Says
  <2>1. PICK e : /\ Appends(e)
                 /\ \/ e = UserMessage(loop.turn) \/ e = TurnError(loop.turn)
                    \/ e = AssistantMessage(loop.turn) /\ loop.open # 0
    BY <1>6 DEF Says
  <2>2. e.turn = loop.turn /\ e.type \in {"user/message", "assistant/message", "turn/error"}
        /\ (e.type = "assistant/message" => loop.open # 0)
    BY <2>1 DEF UserMessage, AssistantMessage, TurnError
  <2>3. ScanTail(Open.turn, tail, e) = tail
    <3>1. e.turn = Open.turn /\ (tail.step # 0 \/ e.type # "assistant/message")
      BY <1>2, <2>2
    <3> QED
      BY <2>2, <3>1, ScanMessage
  <2> QED
    BY <1>3, <2>1, <2>2, <2>3 DEF Inner
<1>7. CASE Requested
  <2>1. PICK b \in Batches : Appends(ToolCalls(loop.turn, BatchCalls(b)))
    BY <1>7 DEF Requested
  <2> DEFINE e == ToolCalls(loop.turn, BatchCalls(b))
  <2>2. e.turn = loop.turn /\ e.type = "assistant/tool-calls" /\ e.calls = BatchCalls(b)
    BY DEF ToolCalls
  <2>3. IsInjective(e.calls)
    <3>1. loop.step \in Numbers
      BY <1>1 DEF BaseInv, LoopInv, LoopOk, Live
    <3> QED
      BY <2>2, <3>1, BatchType
  <2>4. tail.step # 0 /\ tail.pending = << >>
    BY <1>2, <1>7 DEF Requested
  <2> HIDE DEF e
  <2>5. ScanTail(Open.turn, tail, e) = WithPending(tail, Asks(e.calls))
    BY <1>2, <2>2, <2>3, <2>4, ScanCalls
  <2>6. Fits(ScanTail(Open.turn, tail, e))
    BY <1>3, <2>5
  <2> QED
    BY <2>1, <2>2, <2>6 DEF Inner, e
<1>8. ASSUME loop.pending # << >>
      PROVE  /\ IsFirst(tail, Current) /\ tail.step # 0 /\ 1 \in DOMAIN loop.pending
             /\ 1 \in DOMAIN tail.pending /\ tail.pending[1] \in Pendings
  BY <1>2, <1>8, FirstPending DEF PendingNow
<1>9. CASE Answers
  <2>1. PICK o : Appends(ToolResult(loop.turn, Current, o))
    BY <1>9 DEF Answers
  <2> DEFINE e == ToolResult(loop.turn, Current, o)
  <2>2. e.turn = loop.turn /\ e.type = "tool/result" /\ e.call = Current
    BY DEF ToolResult
  <2>3. IsFirst(tail, Current) /\ tail.step # 0
    BY <1>8, <1>9 DEF Answers
  <2> HIDE DEF e
  <2>4. ScanTail(Open.turn, tail, e) = IF tail.step # 0 THEN WithPending(tail, Tail(tail.pending)) ELSE Refuse(tail)
    BY <1>2, <2>2, <2>3, ScanCall
  <2>5. Fits(ScanTail(Open.turn, tail, e))
    BY <1>3, <2>3, <2>4
  <2> QED
    BY <2>1, <2>2, <2>5 DEF Inner, e
<1>10. CASE Recorded
  <2> DEFINE e == ToolCall(loop.turn, Current)
             p == tail.pending[1]
  <2>1. Appends(e) /\ loop.pending # << >> /\ loop.pc = "call"
    BY <1>10 DEF Recorded, At
  <2>2. e.turn = loop.turn /\ e.type = "tool/call" /\ e.call = Current
    BY DEF ToolCall
  <2>3. IsFirst(tail, Current) /\ tail.step # 0
    BY <1>8, <2>1
  <2>4. p = NewPending(p.call)
    <3>1. ~loop.pending[1].started
      BY <1>8, <2>1 DEF BaseInv, LoopInv, LoopOk
    <3> QED
      BY <1>2, <1>8, <2>1, <3>1 DEF OpensAs
  <2> HIDE DEF e
  <2>5. ~p.started
    <3> HIDE DEF p
    <3> QED
      BY <2>4 DEF NewPending
  <2>6. ScanTail(Open.turn, tail, e) =
          IF tail.step # 0 /\ ~p.started THEN Changed(tail, StartedOf(p)) ELSE Refuse(tail)
    BY <1>2, <2>2, <2>3, ScanCall
  <2>7. Fits(ScanTail(Open.turn, tail, e))
    BY <1>4, <2>3, <2>5, <2>6
  <2> QED
    BY <2>1, <2>2, <2>7 DEF Inner, e
<1>11. loop.pc \in {"ask", "approve", "sandbox"} => loop.pending # << >>
  BY DEF BaseInv, LoopInv, LoopOk, Executing
<1>12. CASE Asked
  <2> DEFINE e == ApprovalAsked(loop.turn, Current)
             p == tail.pending[1]
  <2>1. Appends(e) /\ loop.pc = "ask"
    BY <1>12 DEF Asked, At
  <2>2. e.turn = loop.turn /\ e.type = "approval/asked" /\ e.call = Current
    BY DEF ApprovalAsked
  <2>3. IsFirst(tail, Current) /\ tail.step # 0
    BY <1>8, <1>11, <2>1
  <2>4. p.started /\ p.approval = "none"
    BY <1>2, <2>1 DEF OpensAs
  <2> HIDE DEF e
  <2>6. ScanTail(Open.turn, tail, e) =
          IF tail.step # 0 /\ p.started /\ p.approval = "none" THEN Changed(tail, AskedOf(p)) ELSE Refuse(tail)
    BY <1>2, <2>2, <2>3, ScanCall
  <2>7. Fits(ScanTail(Open.turn, tail, e))
    BY <1>4, <2>3, <2>4, <2>6
  <2> QED
    BY <2>1, <2>2, <2>7 DEF Inner, e
<1>13. CASE Judged
  <2>1. PICK o : Appends(ApprovalDecided(loop.turn, Current, o))
    BY <1>13 DEF Judged
  <2> DEFINE e == ApprovalDecided(loop.turn, Current, o)
             p == tail.pending[1]
  <2>2. e.turn = loop.turn /\ e.type = "approval/decided" /\ e.call = Current
    BY DEF ApprovalDecided
  <2>3. loop.pc = "approve" /\ IsFirst(tail, Current) /\ tail.step # 0
    BY <1>8, <1>11, <1>13 DEF Judged, At
  <2>4. p.approval = "asked"
    BY <1>2, <2>3 DEF OpensAs
  <2> HIDE DEF e
  <2>6. ScanTail(Open.turn, tail, e) =
          IF tail.step # 0 /\ p.approval = "asked" THEN Changed(tail, DecidedOf(p, e.outcome)) ELSE Refuse(tail)
    BY <1>2, <2>2, <2>3, ScanCall
  <2>7. Fits(ScanTail(Open.turn, tail, e))
    BY <1>4, <2>3, <2>4, <2>6
  <2> QED
    BY <2>1, <2>2, <2>7 DEF Inner, e
<1>14. CASE Readied
  <2> DEFINE e == SandboxPrepared(loop.turn, Current)
             p == tail.pending[1]
  <2>1. Appends(e) /\ loop.pc = "sandbox"
    BY <1>14 DEF Readied, At
  <2>2. e.turn = loop.turn /\ e.type = "sandbox/prepared" /\ e.call = Current
    BY DEF SandboxPrepared
  <2>3. IsFirst(tail, Current) /\ tail.step # 0
    BY <1>8, <1>11, <2>1
  <2>4. p.approval = "allowed-once" /\ ~p.prepared
    BY <1>2, <2>1 DEF OpensAs
  <2> HIDE DEF e
  <2>6. ScanTail(Open.turn, tail, e) =
          IF tail.step # 0 /\ p.approval = "allowed-once" /\ ~p.prepared
            THEN Changed(tail, PreparedOf(p)) ELSE Refuse(tail)
    BY <1>2, <2>2, <2>3, ScanCall
  <2>7. Fits(ScanTail(Open.turn, tail, e))
    BY <1>4, <2>3, <2>4, <2>6
  <2> QED
    BY <2>1, <2>2, <2>7 DEF Inner, e
<1> QED
  BY <1>6, <1>7, <1>9, <1>10, <1>12, <1>13, <1>14

(* What has failed has failed.                                             *)
LEMMA TransientStep ==
  ASSUME BaseInv, [Next]_vars, storage'.transient = 0
  PROVE  storage.transient = 0
<1>1. /\ TypeInv /\ LoopInv /\ CancelInv /\ storage \in Storages /\ storage' \in Storages
  BY BaseStep DEF BaseInv, TypeInv
<1>2. \/ Still \/ Starts \/ Says \/ StepStarts \/ StepEnds \/ Ends \/ Answers
      \/ Requested \/ Recorded \/ Asked \/ Judged \/ Readied \/ Acts \/ Reload
  BY <1>1, NextIs
<1>3. storage.transient \in Nat /\ storage'.transient \in Nat
  BY <1>1, BoundAssumption DEF Storages
<1>4. CASE Still
  BY <1>3, <1>4 DEF Still
<1>5. CASE Acts \/ Reload
  BY <1>5, ReloadIs DEF Acts
<1>6. CASE \E e : Appends(e)
  BY <1>6 DEF Appends
<1>7. (\/ Starts \/ Says \/ StepStarts \/ StepEnds \/ Ends \/ Answers
       \/ Requested \/ Recorded \/ Asked \/ Judged \/ Readied) => \E e : Appends(e)
  BY DEF Starts, Says, StepStarts, StepEnds, Ends, Answers, Requested, Recorded, Asked, Judged, Readied
<1> QED
  BY <1>2, <1>4, <1>5, <1>6, <1>7

(* Every step keeps the brackets, unless an append fails for once.         *)
LEMMA CleanStep ==
  ASSUME BaseInv, OpenInv, CleanInv, [Next]_vars
  PROVE  CleanInv'
<1>1. /\ TypeInv /\ LoopInv /\ CancelInv /\ log \in Seq(Events) /\ storage \in Storages
      /\ storage' \in Storages
  BY BaseStep DEF BaseInv, TypeInv
<1>2. \/ Still \/ Starts \/ Says \/ StepStarts \/ StepEnds \/ Ends \/ Answers
      \/ Requested \/ Recorded \/ Asked \/ Judged \/ Readied \/ Acts \/ Reload
  BY <1>1, NextIs
<1>4. storage'.transient = 0 => storage.transient = 0
  BY TransientStep
<1>5. SUFFICES ASSUME storage'.transient = 0, Bracketed(log),
                      At("idle") /\ ~storage.broken => Open.turn = 0
               PROVE  Bracketed(log') /\ (loop'.pc = "idle" /\ ~storage'.broken => Open'.turn = 0)
  BY <1>4 DEF CleanInv, At
<1>6. Open.scan.ok
  BY <1>5 DEF Bracketed, Open
<1>7. CASE Still
  <2>1. log' = log /\ Open' = Open
    BY <1>7 DEF Still, Open
  <2>2. loop'.pc = "idle" => Spoilt \/ (At("idle") /\ storage' = storage)
    BY <1>7 DEF Still, Same, Later, Live, Runs
  <2> QED
    BY <1>5, <2>1, <2>2 DEF Spoilt
<1>8. CASE Starts
  <2> DEFINE e == TurnStart(Turns + 1)
  <2>1. /\ Appends(e) /\ At("idle") /\ loop'.pc = "user"
    BY <1>8 DEF Starts, Idle
  <2>2. Open.turn = 0
    BY <1>5, <2>1 DEF Appends
  <2>3. e.type = "turn/start"
    BY DEF TurnStart
  <2> HIDE DEF e
  <2> QED
    BY <1>1, <1>5, <2>1, <2>2, <2>3, BracketOuter DEF Appends, Open
<1>9. ASSUME NEW e, Appends(e), Live, e.turn = loop.turn,
             \/ e.type = "turn/end" /\ loop.open = 0
             \/ e.type = "step/start" /\ loop.open = 0
             \/ e.type = "step/end" /\ loop.open = e.step /\ loop.pending = << >>
      PROVE  Bracketed(log')
  <2>1. /\ TailScan(log).turn = e.turn /\ e.turn # 0 /\ TailScan(log).scan.step = loop.open
        /\ loop.pending = << >> => TailScan(log).scan.pending = << >>
    BY <1>6, <1>9, OpenLive DEF Open, PendingNow
  <2> QED
    BY <1>1, <1>5, <1>9, <2>1, BracketOuter DEF Appends
<1>10. CASE StepStarts
  <2>1. Appends(StepStart(loop.turn, loop.step)) /\ Live /\ loop.open = 0 /\ loop'.pc = "model"
    BY <1>10 DEF StepStarts
  <2>2. StepStart(loop.turn, loop.step).type = "step/start"
        /\ StepStart(loop.turn, loop.step).turn = loop.turn
    BY DEF StepStart
  <2> QED
    BY <1>9, <2>1, <2>2
<1>11. CASE StepEnds
  <2>1. PICK o : Appends(StepEnd(loop.turn, loop.open, o))
    BY <1>11 DEF StepEnds
  <2>2. Live /\ loop.pending = << >> /\ loop'.pc # "idle"
    BY <1>11 DEF StepEnds
  <2>3. /\ StepEnd(loop.turn, loop.open, o).type = "step/end"
        /\ StepEnd(loop.turn, loop.open, o).turn = loop.turn
        /\ StepEnd(loop.turn, loop.open, o).step = loop.open
    BY DEF StepEnd
  <2> QED
    BY <1>9, <2>1, <2>2, <2>3
<1>12. CASE Ends
  <2>1. PICK o : Appends(TurnEnd(loop.turn, o))
    BY <1>12 DEF Ends
  <2>2. Live /\ loop.open = 0
    BY <1>12 DEF Ends
  <2>3. TurnEnd(loop.turn, o).type = "turn/end" /\ TurnEnd(loop.turn, o).turn = loop.turn
    BY DEF TurnEnd
  <2>4. Open'.turn = 0
    <3>1. Open' = [turn |-> 0, scan |-> NewTail]
      BY <1>12, OpenClosed
    <3> QED
      BY <3>1
  <2> QED
    BY <1>9, <2>1, <2>2, <2>3, <2>4
<1>13. CASE Says \/ Answers \/ Requested \/ Recorded \/ Asked \/ Judged \/ Readied
  <2>1. Live
    BY <1>6, <1>13, InnerFits
  <2>2. PICK e : /\ Appends(e) /\ e.type \in Inner /\ e.turn = loop.turn
                 /\ ScanTail(Open.turn, Open.scan, e).ok
                 /\ ScanTail(Open.turn, Open.scan, e).step = Open.scan.step
    BY <1>6, <1>13, InnerFits
  <2>3. TailScan(log).turn # 0
    BY <1>6, <2>1, OpenLive DEF Open
  <2>4. e.type \notin Brackets \cup {"compaction/summary", "context-budget/decision"}
    BY <2>2 DEF Inner, Brackets
  <2>5. Bracketed(log')
    BY <1>1, <1>5, <2>2, <2>3, <2>4, BracketInner DEF Appends, Open
  <2>6. loop'.pc # "idle"
    BY <1>13 DEF Says, Answers, Requested, Recorded, Asked, Judged, Readied
  <2> QED
    BY <2>5, <2>6
<1>14. CASE Acts
  BY <1>5, <1>14 DEF Acts, Open, At
<1>15. CASE Reload
  <2>1. /\ Open.turn = 0 => log' = log
        /\ Open.turn # 0 => log' = log \o Closers(log)
    BY <1>15, ReloadIs
  <2>2. CASE Open.turn = 0
    BY <1>5, <2>1, <2>2 DEF Open
  <2>3. CASE Open.turn # 0
    <3> DEFINE k == log \o Closers(log)
    <3>1. /\ TailScan(k) = [turn |-> 0, scan |-> NewTail]
          /\ Surface(k).openTurn = IF Surface(log).openTurn = Open.turn THEN 0 ELSE Surface(log).openTurn
          /\ Surface(k).openStep = IF Surface(log).openStep = Open.scan.step THEN 0 ELSE Surface(log).openStep
          /\ Count(k, "turn/start") = Count(log, "turn/start")
          /\ Count(k, "turn/end") = Count(log, "turn/end") + 1
          /\ Count(k, "step/start") = Count(log, "step/start")
          /\ Count(k, "step/end") = Count(log, "step/end") + (IF Open.scan.step = 0 THEN 0 ELSE 1)
      BY <1>1, <2>3, Recovered DEF BaseInv, CommandInv, Open
    <3>2. \A type \in Brackets : Count(log, type) \in Nat
      BY <1>1, CountType
    <3>3. Surface(log).openTurn = Open.turn /\ Surface(log).openStep = Open.scan.step
          /\ Count(log, "turn/start") = Count(log, "turn/end") + 1
          /\ Count(log, "step/start") = Count(log, "step/end") + (IF Open.scan.step = 0 THEN 0 ELSE 1)
      BY <1>5, <2>3 DEF Bracketed, Open, One
    <3>4. NewTail.ok /\ NewTail.step = 0
      BY DEF NewTail
    <3> HIDE DEF k
    <3>5. Bracketed(k)
      BY <3>1, <3>2, <3>3, <3>4 DEF Bracketed, One, Brackets
    <3>6. log' = k
      BY <2>1, <2>3 DEF k
    <3>7. Open'.turn = 0
      BY <3>1, <3>6 DEF Open
    <3> QED
      BY <3>5, <3>6, <3>7
  <2> QED
    BY <2>2, <2>3
<1> QED
  BY <1>2, <1>7, <1>8, <1>10, <1>11, <1>12, <1>13, <1>14, <1>15
-------------------------------------------------------------------------------
(* The session derives its surface from every log the loop writes.         *)
LEMMA SurfaceStep ==
  ASSUME BaseInv, SurfaceInv, [Next]_vars
  PROVE  SurfaceInv'
<1>1. TypeInv /\ LoopInv /\ CancelInv /\ log \in Seq(Events)
  BY DEF BaseInv, TypeInv
<1>2. \/ Still \/ Starts \/ Says \/ StepStarts \/ StepEnds \/ Ends \/ Answers
      \/ Requested \/ Recorded \/ Asked \/ Judged \/ Readied \/ Acts \/ Reload
  BY <1>1, NextIs
<1>3. CASE Still \/ Acts
  BY <1>3 DEF Still, Acts, SurfaceInv
<1>4. CASE Reload
  <2>1. /\ Open.turn = 0 => log' = log
        /\ Open.turn # 0 => log' = log \o Closers(log)
    BY <1>4, ReloadIs
  <2>2. Open.turn # 0 => Surface(log \o Closers(log)).ok = Surface(log).ok
    BY <1>1, Recovered DEF BaseInv, CommandInv, Open
  <2> QED
    BY <2>1, <2>2 DEF SurfaceInv
<1>5. ASSUME NEW e, Appends(e), e.type \notin {"compaction/summary", "context-budget/decision"}
      PROVE  SurfaceInv'
  BY <1>1, <1>5, SurfaceKeeps DEF Appends, SurfaceInv
<1>6. CASE Starts
  BY <1>5, <1>6 DEF Starts, TurnStart
<1>7. CASE Says
  BY <1>5, <1>7 DEF Says, UserMessage, AssistantMessage, TurnError
<1>8. CASE StepStarts
  BY <1>5, <1>8 DEF StepStarts, StepStart
<1>9. CASE StepEnds
  BY <1>5, <1>9 DEF StepEnds, StepEnd
<1>10. CASE Ends
  BY <1>5, <1>10 DEF Ends, TurnEnd
<1>11. CASE Answers
  BY <1>5, <1>11 DEF Answers, ToolResult
<1>12. CASE Requested
  BY <1>5, <1>12 DEF Requested, ToolCalls
<1>13. CASE Recorded
  BY <1>5, <1>13 DEF Recorded, ToolCall
<1>14. CASE Asked
  BY <1>5, <1>14 DEF Asked, ApprovalAsked
<1>15. CASE Judged
  BY <1>5, <1>15 DEF Judged, ApprovalDecided
<1>16. CASE Readied
  BY <1>5, <1>16 DEF Readied, SandboxPrepared
<1> QED
  BY <1>2, <1>3, <1>4, <1>6, <1>7, <1>8, <1>9, <1>10, <1>11, <1>12, <1>13, <1>14, <1>15, <1>16
-------------------------------------------------------------------------------
(* Batches and their results, among the messages the model is shown.       *)
LEMMA NodesType ==
  ASSUME NEW s \in Seq(Nodes)
  PROVE  /\ DOMAIN s = 1 .. Len(s) /\ Len(s) \in Nat
         /\ \A i \in DOMAIN s : IsBatch(s, i) =>
              /\ Len(s[i].event.calls) \in Nat
              /\ DOMAIN s[i].event.calls = 1 .. Len(s[i].event.calls)
<1>1. DOMAIN s = 1 .. Len(s) /\ Len(s) \in Nat
  OBVIOUS
<1>2. ASSUME NEW i \in DOMAIN s, IsBatch(s, i)
      PROVE  /\ Len(s[i].event.calls) \in Nat
             /\ DOMAIN s[i].event.calls = 1 .. Len(s[i].event.calls)
  <2>1. s[i] \in Nodes
    OBVIOUS
  <2>2. s[i].event \in Events /\ s[i].event.type = "assistant/tool-calls"
    BY <1>2, <2>1 DEF Nodes, IsBatch
  <2>3. s[i].event.calls \in Seq(Calls)
    BY <2>2, EventFields
  <2> QED
    BY <2>3
<1> QED
  BY <1>1, <1>2

(* What is pending may change, but not its calls.                          *)
LEMMA PairedSame ==
  ASSUME NEW s, NEW p \in Seq(Pendings), NEW t, PairedWith(s, p, t), NEW q \in Seq(Pendings), NEW u,
         DOMAIN q = DOMAIN p, \A i \in DOMAIN p : q[i].call = p[i].call,
         u = t \/ p = << >>, s \in Seq(Nodes)
  PROVE  PairedWith(s, q, u)
<1>1. Len(q) = Len(p) /\ (q = << >> <=> p = << >>) /\ Len(p) \in Nat /\ DOMAIN p = 1 .. Len(p)
      /\ (p = << >> => Len(p) = 0)
  OBVIOUS
<1>2. DOMAIN s = 1 .. Len(s) /\ Len(s) \in Nat
  BY NodesType
<1>3. ASSUME NEW i \in DOMAIN s, IsBatch(s, i)
      PROVE  /\ LastOf(s, i) <= Len(s) + Len(q)
             /\ LastOf(s, i) > Len(s) => s[i].turn = u
             /\ \A k \in DOMAIN s[i].event.calls :
                  IF i + k <= Len(s)
                    THEN /\ s[i + k].event.type = "tool/result"
                         /\ s[i + k].event.call = s[i].event.calls[k]
                         /\ s[i + k].turn = s[i].turn
                    ELSE q[i + k - Len(s)].call = s[i].event.calls[k]
  <2> DEFINE calls == s[i].event.calls
  <2>1. Len(calls) \in Nat /\ DOMAIN calls = 1 .. Len(calls) /\ i \in 1 .. Len(s)
    BY <1>2, <1>3, NodesType
  <2>2. /\ LastOf(s, i) <= Len(s) + Len(p)
        /\ LastOf(s, i) > Len(s) => s[i].turn = t
        /\ LastOf(s, i) = i + Len(calls)
    BY <1>3 DEF PairedWith, LastOf
  <2>3. \A k \in DOMAIN calls :
          IF i + k <= Len(s)
            THEN /\ s[i + k].event.type = "tool/result"
                 /\ s[i + k].event.call = s[i].event.calls[k]
                 /\ s[i + k].turn = s[i].turn
            ELSE p[i + k - Len(s)].call = s[i].event.calls[k]
    BY <1>3 DEF PairedWith
  <2>4. \A k \in DOMAIN calls : i + k > Len(s) => i + k - Len(s) \in DOMAIN p
    <3> HIDE DEF calls
    <3> QED
      BY <1>1, <1>2, <2>1, <2>2
  <2>5. LastOf(s, i) > Len(s) => p # << >>
    BY <1>1, <1>2, <2>1, <2>2
  <2>6. LastOf(s, i) <= Len(s) + Len(q) /\ (LastOf(s, i) > Len(s) => s[i].turn = u)
    BY <1>1, <2>2, <2>5
  <2>7. ASSUME NEW k \in DOMAIN calls, ~(i + k <= Len(s))
        PROVE  q[i + k - Len(s)].call = calls[k]
    <3>1. i + k - Len(s) \in DOMAIN p
      BY <1>2, <2>1, <2>4, <2>7
    <3> QED
      BY <2>3, <2>7, <3>1
  <2> QED
    BY <2>3, <2>6, <2>7
<1>4. q # << >> => \E j \in DOMAIN s : IsBatch(s, j) /\ LastOf(s, j) = Len(s) + Len(q)
  BY <1>1 DEF PairedWith
<1>5. \A i \in DOMAIN s : s[i].event.type = "tool/result" =>
       \E j \in 1 .. i - 1 : IsBatch(s, j) /\ i <= LastOf(s, j)
  BY DEF PairedWith
<1> QED
  BY <1>3, <1>4, <1>5 DEF PairedWith

(* Results of what is pending are added, in order.                         *)
LEMMA PairedMore ==
  ASSUME NEW s \in Seq(Nodes), NEW r \in Seq(Nodes), NEW p \in Seq(Pendings), NEW q \in Seq(Pendings),
         NEW t, PairedWith(s, p, t), NEW n \in Nat,
         Len(r) = Len(s) + n, Len(p) = Len(q) + n,
         \A i \in 1 .. Len(s) : r[i] = s[i],
         \A i \in 1 .. n : /\ r[Len(s) + i].event.type = "tool/result"
                           /\ r[Len(s) + i].event.call = p[i].call
                           /\ r[Len(s) + i].turn = t,
         \A i \in 1 .. Len(q) : q[i].call = p[n + i].call
  PROVE  PairedWith(r, q, t)
<1>1. /\ Len(s) \in Nat /\ Len(r) \in Nat /\ Len(p) \in Nat /\ Len(q) \in Nat
      /\ DOMAIN s = 1 .. Len(s) /\ DOMAIN r = 1 .. Len(r) /\ DOMAIN p = 1 .. Len(p)
      /\ DOMAIN q = 1 .. Len(q)
  BY NodesType
<1>2. \A i \in DOMAIN r : \/ i \in DOMAIN s /\ r[i] = s[i]
                          \/ i - Len(s) \in 1 .. n /\ i > Len(s) /\ r[i].event.type = "tool/result"
  <2> TAKE i \in DOMAIN r
  <2>1. CASE i <= Len(s)
    BY <1>1, <2>1
  <2>2. CASE i > Len(s)
    <3>1. i - Len(s) \in 1 .. n /\ i = Len(s) + (i - Len(s))
      BY <1>1, <2>2
    <3>2. r[Len(s) + (i - Len(s))].event.type = "tool/result"
      BY <3>1
    <3> QED
      BY <2>2, <3>1, <3>2
  <2> QED
    BY <1>1, <2>1, <2>2
<1>3. \A i : IsBatch(r, i) <=> IsBatch(s, i)
  <2> TAKE i
  <2>1. IsBatch(s, i) => IsBatch(r, i)
    BY <1>1 DEF IsBatch
  <2>2. IsBatch(r, i) => IsBatch(s, i)
    BY <1>2 DEF IsBatch
  <2> QED
    BY <2>1, <2>2
<1>4. \A i : IsBatch(s, i) => i \in DOMAIN s /\ i \in DOMAIN r /\ r[i] = s[i] /\ LastOf(r, i) = LastOf(s, i)
  BY <1>1 DEF IsBatch, LastOf
<1>5. ASSUME NEW i \in DOMAIN r, IsBatch(r, i)
      PROVE  /\ LastOf(r, i) <= Len(r) + Len(q)
             /\ LastOf(r, i) > Len(r) => r[i].turn = t
             /\ \A k \in DOMAIN r[i].event.calls :
                  IF i + k <= Len(r)
                    THEN /\ r[i + k].event.type = "tool/result"
                         /\ r[i + k].event.call = r[i].event.calls[k]
                         /\ r[i + k].turn = r[i].turn
                    ELSE q[i + k - Len(r)].call = r[i].event.calls[k]
  <2> DEFINE calls == s[i].event.calls
  <2>1. IsBatch(s, i) /\ i \in DOMAIN s /\ r[i] = s[i] /\ LastOf(r, i) = LastOf(s, i)
    BY <1>3, <1>4, <1>5
  <2>2. Len(calls) \in Nat /\ DOMAIN calls = 1 .. Len(calls) /\ i \in 1 .. Len(s)
    BY <1>1, <2>1, NodesType
  <2>3. /\ LastOf(s, i) <= Len(s) + Len(p)
        /\ LastOf(s, i) > Len(s) => s[i].turn = t
        /\ LastOf(s, i) = i + Len(calls)
    BY <2>1 DEF PairedWith, LastOf
  <2>4. \A k \in DOMAIN calls :
          IF i + k <= Len(s)
            THEN /\ s[i + k].event.type = "tool/result"
                 /\ s[i + k].event.call = calls[k]
                 /\ s[i + k].turn = s[i].turn
            ELSE p[i + k - Len(s)].call = calls[k]
    BY <2>1 DEF PairedWith
  <2> HIDE DEF calls
  <2>5. LastOf(r, i) <= Len(r) + Len(q) /\ (LastOf(r, i) > Len(r) => r[i].turn = t)
    BY <1>1, <2>1, <2>2, <2>3
  <2>6. ASSUME NEW k \in DOMAIN calls, i + k <= Len(r)
        PROVE  /\ r[i + k].event.type = "tool/result" /\ r[i + k].event.call = calls[k]
               /\ r[i + k].turn = s[i].turn
    <3>1. CASE i + k <= Len(s)
      <4>1. i + k \in 1 .. Len(s)
        BY <1>1, <2>2, <2>6, <3>1
      <4> QED
        BY <2>4, <2>6, <3>1, <4>1
    <3>2. CASE i + k > Len(s)
      <4>1. i + k - Len(s) \in 1 .. n /\ i + k = Len(s) + (i + k - Len(s))
        BY <1>1, <2>2, <2>6, <3>2
      <4> DEFINE m == i + k - Len(s)
      <4>2. /\ r[Len(s) + m].event.type = "tool/result" /\ r[Len(s) + m].event.call = p[m].call
            /\ r[Len(s) + m].turn = t
        BY <4>1
      <4>3. p[m].call = calls[k]
        BY <1>1, <2>2, <2>4, <2>6, <3>2
      <4>4. s[i].turn = t
        BY <1>1, <2>2, <2>3, <2>6, <3>2
      <4>5. i + k = Len(s) + m
        BY <4>1
      <4> HIDE DEF m
      <4> QED
        BY <4>2, <4>3, <4>4, <4>5
    <3> QED
      BY <1>1, <2>2, <2>6, <3>1, <3>2
  <2>7. ASSUME NEW k \in DOMAIN calls, ~(i + k <= Len(r))
        PROVE  q[i + k - Len(r)].call = calls[k]
    <3> DEFINE m == i + k - Len(r)
    <3>1. m \in 1 .. Len(q) /\ n + m = i + k - Len(s) /\ ~(i + k <= Len(s))
      <4>1. k \in 1 .. Len(calls) /\ i + Len(calls) <= Len(s) + Len(p) /\ i + k > Len(r)
        BY <1>1, <2>2, <2>3, <2>7
      <4>2. i + k <= Len(s) + Len(p)
        BY <1>1, <2>2, <4>1
      <4> DEFINE x == i + k
      <4>3. /\ x \in Nat /\ x > Len(r) /\ x <= Len(s) + Len(p) /\ m = x - Len(r)
            /\ i + k - Len(s) = x - Len(s) /\ (i + k <= Len(s) <=> x <= Len(s))
        BY <1>1, <2>2, <4>1, <4>2
      <4> HIDE DEF m, x
      <4> QED
        BY <1>1, <4>3
    <3>2. q[m].call = p[n + m].call
      BY <3>1
    <3>3. p[i + k - Len(s)].call = calls[k]
      BY <2>4, <2>7, <3>1
    <3> QED
      BY <3>1, <3>2, <3>3
  <2> QED
    BY <2>1, <2>5, <2>6, <2>7 DEF calls
<1>6. p # << >> => \E j \in DOMAIN s : IsBatch(s, j) /\ LastOf(s, j) = Len(s) + Len(p)
  BY DEF PairedWith
<1>7. ASSUME NEW i \in DOMAIN r, r[i].event.type = "tool/result"
      PROVE  \E j \in 1 .. i - 1 : IsBatch(r, j) /\ i <= LastOf(r, j)
  <2>1. CASE i \in DOMAIN s /\ r[i] = s[i]
    <3>1. PICK j \in 1 .. i - 1 : IsBatch(s, j) /\ i <= LastOf(s, j)
      BY <1>7, <2>1 DEF PairedWith
    <3> QED
      BY <1>3, <1>4, <3>1
  <2>2. CASE i - Len(s) \in 1 .. n /\ i > Len(s)
    <3>1. p # << >>
      BY <1>1, <2>2
    <3>2. PICK j \in DOMAIN s : IsBatch(s, j) /\ LastOf(s, j) = Len(s) + Len(p)
      BY <1>6, <3>1
    <3>3. j \in 1 .. i - 1 /\ i <= Len(s) + Len(p)
      BY <1>1, <1>7, <2>2, <3>2
    <3> QED
      BY <1>3, <1>4, <3>2, <3>3
  <2> QED
    BY <1>2, <1>7, <2>1, <2>2
<1>8. q # << >> => \E j \in DOMAIN r : IsBatch(r, j) /\ LastOf(r, j) = Len(r) + Len(q)
  <2> SUFFICES ASSUME q # << >> PROVE \E j \in DOMAIN r : IsBatch(r, j) /\ LastOf(r, j) = Len(r) + Len(q)
    OBVIOUS
  <2>1. p # << >>
    BY <1>1
  <2>2. PICK j \in DOMAIN s : IsBatch(s, j) /\ LastOf(s, j) = Len(s) + Len(p)
    BY <1>6, <2>1
  <2>3. Len(s) + Len(p) = Len(r) + Len(q)
    BY <1>1
  <2> QED
    BY <1>3, <1>4, <2>2, <2>3
<1> QED
  BY <1>5, <1>7, <1>8 DEF PairedWith

(* A message that is neither, or the next batch, when nothing is pending.  *)
LEMMA PairedMessage ==
  ASSUME NEW s \in Seq(Nodes), NEW x \in Nodes, NEW t, NEW p \in Seq(Pendings), PairedWith(s, << >>, t),
         x.turn = t,
         \/ x.event.type \notin {"assistant/tool-calls", "tool/result"} /\ p = << >>
         \/ /\ x.event.type = "assistant/tool-calls" /\ DOMAIN p = DOMAIN x.event.calls
            /\ \A k \in DOMAIN p : p[k].call = x.event.calls[k]
  PROVE  PairedWith(Append(s, x), p, t)
<1> DEFINE r == Append(s, x)
           n == Len(s)
<1>1. /\ n \in Nat /\ DOMAIN s = 1 .. n /\ r \in Seq(Nodes) /\ Len(r) = n + 1
      /\ DOMAIN r = 1 .. n + 1 /\ r[n + 1] = x /\ \A i \in 1 .. n : r[i] = s[i]
      /\ Len(p) \in Nat /\ DOMAIN p = 1 .. Len(p)
  OBVIOUS
<1>2. /\ \A i : IsBatch(s, i) => i \in 1 .. n /\ IsBatch(r, i) /\ LastOf(r, i) = LastOf(s, i)
      /\ \A i : IsBatch(r, i) => IsBatch(s, i) \/ i = n + 1
  BY <1>1 DEF IsBatch, LastOf
<1>3. Len(<< >>) = 0
  OBVIOUS
<1> HIDE DEF r, n
<1>4. ASSUME NEW i, IsBatch(s, i)
      PROVE  /\ LastOf(r, i) <= n
             /\ \A k \in DOMAIN r[i].event.calls :
                  /\ i + k <= n
                  /\ r[i + k].event.type = "tool/result" /\ r[i + k].event.call = r[i].event.calls[k]
                  /\ r[i + k].turn = r[i].turn
  <2>1. i \in DOMAIN s /\ i \in 1 .. n /\ r[i] = s[i] /\ LastOf(r, i) = LastOf(s, i)
    BY <1>1, <1>2, <1>4 DEF IsBatch
  <2> DEFINE calls == s[i].event.calls
  <2>2. Len(calls) \in Nat /\ DOMAIN calls = 1 .. Len(calls)
    BY <1>4, <2>1, NodesType
  <2>3. /\ LastOf(s, i) <= n + 0 /\ LastOf(s, i) = i + Len(calls)
        /\ \A k \in DOMAIN calls : i + k <= n =>
             /\ s[i + k].event.type = "tool/result"
             /\ s[i + k].event.call = calls[k]
             /\ s[i + k].turn = s[i].turn
    BY <1>3, <1>4, <2>1 DEF PairedWith, LastOf, n
  <2> HIDE DEF calls
  <2>4. \A k \in DOMAIN calls : i + k <= n /\ i + k \in 1 .. n
    BY <1>1, <2>1, <2>2, <2>3
  <2> QED
    BY <1>1, <2>1, <2>3, <2>4 DEF calls
<1>5. ASSUME IsBatch(r, n + 1)
      PROVE  /\ LastOf(r, n + 1) = Len(r) + Len(p)
             /\ \A k \in DOMAIN r[n + 1].event.calls :
                  /\ ~(n + 1 + k <= Len(r))
                  /\ p[n + 1 + k - Len(r)].call = r[n + 1].event.calls[k]
  <2>1. x.event.type = "assistant/tool-calls"
    BY <1>1, <1>5 DEF IsBatch
  <2>2. DOMAIN p = DOMAIN x.event.calls /\ \A k \in DOMAIN p : p[k].call = x.event.calls[k]
    BY <2>1
  <2>3. Len(x.event.calls) \in Nat /\ DOMAIN x.event.calls = 1 .. Len(x.event.calls)
    BY <1>1, <1>5, NodesType DEF IsBatch
  <2>4. Len(p) = Len(x.event.calls)
    BY <1>1, <2>2, <2>3
  <2>5. \A k \in DOMAIN p : ~(n + 1 + k <= Len(r)) /\ n + 1 + k - Len(r) = k
    BY <1>1
  <2> QED
    BY <1>1, <2>2, <2>4, <2>5 DEF LastOf
<1>6. ASSUME NEW i \in DOMAIN r, IsBatch(r, i)
      PROVE  /\ LastOf(r, i) <= Len(r) + Len(p)
             /\ LastOf(r, i) > Len(r) => r[i].turn = t
             /\ \A k \in DOMAIN r[i].event.calls :
                  IF i + k <= Len(r)
                    THEN /\ r[i + k].event.type = "tool/result"
                         /\ r[i + k].event.call = r[i].event.calls[k]
                         /\ r[i + k].turn = r[i].turn
                    ELSE p[i + k - Len(r)].call = r[i].event.calls[k]
  <2>1. CASE IsBatch(s, i)
    <3>1. LastOf(r, i) <= n /\ LastOf(r, i) \in Nat
      <4>1. IsBatch(r, i) /\ i \in DOMAIN r /\ i \in Nat
        BY <1>1, <1>6
      <4>2. Len(r[i].event.calls) \in Nat
        BY <1>1, <4>1, NodesType
      <4> QED
        BY <1>4, <2>1, <4>1, <4>2 DEF LastOf
    <3>2. LastOf(r, i) <= Len(r) + Len(p) /\ ~(LastOf(r, i) > Len(r))
      BY <1>1, <3>1
    <3>3. ASSUME NEW k \in DOMAIN r[i].event.calls
          PROVE  /\ i + k <= Len(r)
                 /\ r[i + k].event.type = "tool/result" /\ r[i + k].event.call = r[i].event.calls[k]
                 /\ r[i + k].turn = r[i].turn
      <4>1. i + k <= n /\ k \in Nat /\ i \in Nat
        BY <1>1, <1>4, <1>6, <2>1, <3>3, NodesType
      <4>2. i + k <= Len(r)
        BY <1>1, <4>1
      <4> QED
        BY <1>4, <2>1, <3>3, <4>2
    <3> QED
      BY <3>2, <3>3
  <2>2. CASE i = n + 1
    <3>1. LastOf(r, i) = Len(r) + Len(p) /\ r[i].turn = t
      BY <1>1, <1>5, <1>6, <2>2
    <3> QED
      BY <1>1, <1>5, <1>6, <2>2, <3>1
  <2> QED
    BY <1>2, <1>6, <2>1, <2>2
<1>7. ASSUME NEW i \in DOMAIN r, r[i].event.type = "tool/result"
      PROVE  \E j \in 1 .. i - 1 : IsBatch(r, j) /\ i <= LastOf(r, j)
  <2>1. i \in DOMAIN s /\ r[i] = s[i]
    BY <1>1, <1>7
  <2>2. PICK j \in 1 .. i - 1 : IsBatch(s, j) /\ i <= LastOf(s, j)
    BY <1>7, <2>1 DEF PairedWith
  <2> QED
    BY <1>2, <2>2
<1>8. p # << >> => \E j \in DOMAIN r : IsBatch(r, j) /\ LastOf(r, j) = Len(r) + Len(p)
  <2> SUFFICES ASSUME p # << >> PROVE \E j \in DOMAIN r : IsBatch(r, j) /\ LastOf(r, j) = Len(r) + Len(p)
    OBVIOUS
  <2>1. x.event.type = "assistant/tool-calls" /\ n + 1 \in DOMAIN r /\ r[n + 1] = x
    BY <1>1
  <2>2. IsBatch(r, n + 1)
    BY <2>1 DEF IsBatch
  <2> QED
    BY <1>5, <2>1, <2>2
<1> QED
  BY <1>6, <1>7, <1>8 DEF PairedWith, r
-------------------------------------------------------------------------------
(* Nothing but a batch and its results changes what the model is shown.    *)
LEMMA PairedKept ==
  ASSUME BaseInv, Live, Live', OpensAs(Open, loop), OpensAs(Open', loop'),
         PairedWith(Surface(log).nodes, PendingNow, Open.turn),
         log' \in Seq(Events), Surface(log').nodes = Surface(log).nodes,
         loop'.turn = loop.turn, DOMAIN loop'.pending = DOMAIN loop.pending,
         \A i \in DOMAIN loop.pending : loop'.pending[i].call = loop.pending[i].call
  PROVE  PairedWith(Surface(log').nodes, PendingNow', Open'.turn)
<1>1. PendingNow \in Seq(Pendings) /\ PendingNow' \in Seq(Pendings)
  BY TailScanType DEF BaseInv, TypeInv, PendingNow, Open, Tails
<1>2. Surface(log).nodes \in Seq(Nodes)
  BY SurfaceType DEF BaseInv, TypeInv, Surfaces
<1>3. Open'.turn = Open.turn /\ DOMAIN PendingNow' = DOMAIN PendingNow
      /\ \A i \in DOMAIN PendingNow : PendingNow'[i].call = PendingNow[i].call
  BY DEF OpensAs, PendingNow
<1> QED
  BY <1>1, <1>2, <1>3, PairedSame

(* One more event of the turn in progress.                                 *)
LEMMA PairedSays ==
  ASSUME BaseInv, OpenInv, Open.scan.ok, Live, Live', OpensAs(Open', loop'),
         PairedWith(Surface(log).nodes, PendingNow, Open.turn),
         log' \in Seq(Events),
         NEW e, Appends(e), e.turn = loop.turn, loop'.turn = loop.turn,
         loop.pending = << >>,
         \/ e.type \in {"user/message", "assistant/message"} /\ loop'.pending = << >>
         \/ /\ e.type = "assistant/tool-calls" /\ DOMAIN loop'.pending = DOMAIN e.calls
            /\ \A k \in DOMAIN e.calls : loop'.pending[k].call = e.calls[k]
  PROVE  PairedWith(Surface(log').nodes, PendingNow', Open'.turn)
<1> DEFINE s == Surface(log).nodes
           x == Node(Surface(log).at + 1, e)
           p == PendingNow'
<1>1. log \in Seq(Events) /\ e \in Events /\ log' = Append(log, e) /\ IsMessage(e)
      /\ e.type \notin {"compaction/summary", "context-budget/decision"}
  BY DEF BaseInv, TypeInv, Appends, IsMessage
<1>2. Surface(log').nodes = Append(s, x)
  BY <1>1, SurfaceKeeps
<1>3. s \in Seq(Nodes) /\ Surface(log).at \in Nat
  BY <1>1, SurfaceType DEF Surfaces
<1>4. x \in Nodes /\ x.turn = loop.turn /\ x.event = e
  BY <1>1, <1>3, EventFields DEF Node, Nodes, Numbers
<1>5. p \in Seq(Pendings) /\ Open'.turn = loop.turn /\ Open.turn = loop.turn /\ PendingNow = << >>
  BY OpenLive, TailScanType DEF PendingNow, Open, Tails, OpensAs
<1>6. DOMAIN p = DOMAIN loop'.pending /\ \A i \in DOMAIN p : p[i].call = loop'.pending[i].call
  BY DEF OpensAs, PendingNow
<1>7. loop'.pending = << >> => p = << >>
  BY <1>5, <1>6
<1> HIDE DEF s, x, p
<1>8. PairedWith(Append(s, x), p, loop.turn)
  <2>1. PairedWith(s, << >>, loop.turn)
    BY <1>5 DEF s
  <2>2. \/ x.event.type \notin {"assistant/tool-calls", "tool/result"} /\ p = << >>
        \/ /\ x.event.type = "assistant/tool-calls" /\ DOMAIN p = DOMAIN x.event.calls
           /\ \A k \in DOMAIN p : p[k].call = x.event.calls[k]
    BY <1>4, <1>6, <1>7
  <2> QED
    BY <1>3, <1>4, <1>5, <2>1, <2>2, PairedMessage
<1> QED
  BY <1>2, <1>5, <1>8 DEF p

(* The first pending call is answered.                                     *)
LEMMA PairedAnswers ==
  ASSUME BaseInv, OpenInv, Open.scan.ok, Answers, Live', OpensAs(Open', loop'),
         PairedWith(Surface(log).nodes, PendingNow, Open.turn), log' \in Seq(Events)
  PROVE  PairedWith(Surface(log').nodes, PendingNow', Open'.turn)
<1>1. PICK o : Appends(ToolResult(loop.turn, Current, o))
  BY DEF Answers
<1> DEFINE e == ToolResult(loop.turn, Current, o)
           s == Surface(log).nodes
           x == Node(Surface(log).at + 1, e)
           r == Surface(log').nodes
           p == PendingNow
           q == PendingNow'
<1>2. e.turn = loop.turn /\ e.type = "tool/result" /\ e.call = Current
  BY DEF ToolResult
<1>3. log \in Seq(Events) /\ e \in Events /\ log' = Append(log, e)
  BY <1>1 DEF BaseInv, TypeInv, Appends
<1> HIDE DEF e
<1>4. IsMessage(e) /\ e.type \notin {"compaction/summary", "context-budget/decision"}
  BY <1>2 DEF IsMessage
<1>5. r = Append(s, x)
  BY <1>3, <1>4, SurfaceKeeps
<1>6. s \in Seq(Nodes) /\ r \in Seq(Nodes) /\ Surface(log).at \in Nat
  BY <1>3, SurfaceType DEF Surfaces
<1>7. x.turn = loop.turn /\ x.event = e
  BY <1>2 DEF Node
<1>8. Live /\ loop.pending # << >> /\ loop'.pending = Tail(loop.pending) /\ loop'.turn = loop.turn
  BY DEF Answers
<1>9. OpensAs(Open, loop) /\ Open.turn = loop.turn /\ Open.scan \in Tails /\ Open'.turn = loop.turn
  BY <1>8, OpenLive DEF OpensAs
<1>10. /\ p \in Seq(Pendings) /\ Len(p) \in Nat \ {0} /\ DOMAIN p = 1 .. Len(p)
       /\ p[1].call = Current
       /\ loop.pending \in Seq(Requests) /\ Len(p) = Len(loop.pending)
       /\ DOMAIN loop.pending = 1 .. Len(p)
  BY <1>8, <1>9, FirstPending
<1>11. q \in Seq(Pendings) /\ DOMAIN q = DOMAIN loop'.pending
       /\ \A i \in DOMAIN q : q[i].call = loop'.pending[i].call
  BY TailScanType DEF PendingNow, Open, Tails, OpensAs
<1>12. \A i \in DOMAIN p : p[i].call = loop.pending[i].call
  BY <1>9 DEF OpensAs, PendingNow
<1> HIDE DEF p, q, r, s, x
<1>13. DOMAIN Tail(loop.pending) = 1 .. Len(p) - 1
       /\ \A i \in 1 .. Len(p) - 1 : Tail(loop.pending)[i] = loop.pending[i + 1]
  BY <1>10
<1>14. Len(q) = Len(p) - 1 /\ \A i \in 1 .. Len(q) : q[i].call = p[1 + i].call
  <2>1. Len(q) = Len(p) - 1
    BY <1>8, <1>10, <1>11, <1>13
  <2>2. ASSUME NEW i \in 1 .. Len(q) PROVE q[i].call = p[1 + i].call
    <3>1. i \in 1 .. Len(p) - 1 /\ 1 + i \in 1 .. Len(p) /\ 1 + i = i + 1
      BY <1>10, <2>1
    <3>2. q[i].call = loop.pending[i + 1].call
      BY <1>8, <1>11, <1>13, <3>1
    <3> QED
      BY <1>10, <1>12, <3>1, <3>2
  <2> QED
    BY <2>1, <2>2
<1>15. /\ Len(r) = Len(s) + 1 /\ Len(p) = Len(q) + 1
       /\ \A i \in 1 .. Len(s) : r[i] = s[i]
       /\ r[Len(s) + 1] = x
  BY <1>5, <1>6, <1>10, <1>14
<1>16. \A i \in 1 .. 1 : /\ r[Len(s) + i].event.type = "tool/result"
                         /\ r[Len(s) + i].event.call = p[i].call
                         /\ r[Len(s) + i].turn = loop.turn
  BY <1>2, <1>7, <1>10, <1>15
<1>17. PairedWith(s, p, loop.turn)
  BY <1>9 DEF s, p
<1>18. PairedWith(r, q, loop.turn)
  BY <1>6, <1>10, <1>11, <1>14, <1>15, <1>16, <1>17, PairedMore, ZenonT(30)
<1> QED
  BY <1>9, <1>18 DEF r, q

(* A new process answers everything that is pending.                       *)
LEMMA PairedReload ==
  ASSUME BaseInv, Reload, Open.turn # 0,
         PairedWith(Surface(log).nodes, PendingNow, Open.turn)
  PROVE  PairedWith(Surface(log').nodes, PendingNow', Open'.turn)
<1> DEFINE s == Surface(log).nodes
           r == Surface(log').nodes
           p == PendingNow
           turn == Open.turn
<1>1. log \in Seq(Events) /\ CommandScan(log).ok /\ CommandScan(log).open = 0
      /\ log' = log \o Closers(log) /\ log' \in Seq(Events)
  BY ReloadIs DEF BaseInv, TypeInv, CommandInv
<1>2. /\ Len(r) = Len(s) + Len(p)
      /\ \A i \in 1 .. Len(s) : r[i] = s[i]
      /\ \A i \in 1 .. Len(p) :
           r[Len(s) + i].event = Results(log)[i] /\ r[Len(s) + i].turn = turn
  <2> DEFINE k == log \o Closers(log)
  <2>1. /\ Len(Surface(k).nodes) = Len(Surface(log).nodes) + Len(TailScan(log).scan.pending)
        /\ \A i \in 1 .. Len(Surface(log).nodes) : Surface(k).nodes[i] = Surface(log).nodes[i]
        /\ \A i \in 1 .. Len(TailScan(log).scan.pending) :
             /\ Surface(k).nodes[Len(Surface(log).nodes) + i].event = Results(log)[i]
             /\ Surface(k).nodes[Len(Surface(log).nodes) + i].turn = TailScan(log).turn
    BY <1>1, Recovered DEF Open
  <2>2. log' = k
    BY <1>1
  <2> HIDE DEF k
  <2> QED
    BY <2>1, <2>2 DEF Open, PendingNow
<1>3. s \in Seq(Nodes) /\ r \in Seq(Nodes) /\ p \in Seq(Pendings) /\ DOMAIN p = 1 .. Len(p)
      /\ Len(p) \in Nat
  <2>1. p \in Seq(Pendings)
    BY <1>1, TailScanType DEF Tails, PendingNow, Open
  <2>2. s \in Seq(Nodes) /\ r \in Seq(Nodes)
    BY <1>1, SurfaceType DEF Surfaces
  <2> QED
    BY <2>1, <2>2
<1>4. \A i \in DOMAIN p : Results(log)[i].type = "tool/result" /\ Results(log)[i].call = p[i].call
  BY DEF Results, ToolResult, PendingNow, Open
<1>5. PendingNow' = << >> /\ Open'.turn = 0
  BY OpenClosed
<1> HIDE DEF s, r, p, turn
<1>6. \A i \in 1 .. Len(p) : /\ r[Len(s) + i].event.type = "tool/result"
                             /\ r[Len(s) + i].event.call = p[i].call
                             /\ r[Len(s) + i].turn = turn
  BY <1>2, <1>3, <1>4
<1>7. << >> \in Seq(Pendings) /\ Len(<< >>) = 0 /\ DOMAIN << >> = {}
  OBVIOUS
<1>8. PairedWith(s, p, turn)
  BY DEF s, p, turn
<1>9. Len(p) = Len(<< >>) + Len(p) /\ \A i \in 1 .. Len(<< >>) : << >>[i].call = p[Len(p) + i].call
  BY <1>3, <1>7
<1>10. PairedWith(r, << >>, turn)
  BY <1>2, <1>3, <1>6, <1>7, <1>8, <1>9, PairedMore, ZenonT(30)
<1>11. PairedWith(r, << >>, 0)
  BY <1>3, <1>7, <1>10, PairedSame
<1> QED
  BY <1>5, <1>11 DEF r

(* Every step keeps batches and results paired.                            *)
LEMMA PairedStep ==
  ASSUME BaseInv, PastInv, OpenInv, CleanInv, PairedInv, [Next]_vars
  PROVE  PairedInv'
<1>1. /\ TypeInv /\ LoopInv /\ CancelInv /\ log \in Seq(Events) /\ log' \in Seq(Events)
  BY BaseStep DEF BaseInv, TypeInv
<1>2. \/ Still \/ Starts \/ Says \/ StepStarts \/ StepEnds \/ Ends \/ Answers
      \/ Requested \/ Recorded \/ Asked \/ Judged \/ Readied \/ Acts \/ Reload
  BY <1>1, NextIs
<1>3. SUFFICES ASSUME storage'.transient = 0
               PROVE  PairedWith(Surface(log').nodes, PendingNow', Open'.turn)
  BY DEF PairedInv
<1>4. /\ Open.scan.ok /\ Open'.scan.ok
      /\ PairedWith(Surface(log).nodes, PendingNow, Open.turn)
  BY <1>3, TransientStep, CleanStep DEF CleanInv, PairedInv, Bracketed, Open
<1>5. /\ Live => OpensAs(Open, loop)
      /\ Live' => OpensAs(Open', loop')
  BY <1>4, OpenStep DEF OpenInv
<1>6. CASE Still \/ Acts
  <2>1. log' = log
    BY <1>6 DEF Still, Acts
  <2> QED
    BY <1>4, <2>1 DEF PendingNow, Open
<1>7. CASE Starts
  <2> DEFINE e == TurnStart(Turns + 1)
  <2>1. Appends(e) /\ loop'.pending = << >> /\ Live'
    BY <1>7 DEF Starts, Idle, Live, Runs
  <2>2. e.type = "turn/start"
    BY DEF TurnStart
  <2> HIDE DEF e
  <2>3. Surface(log').nodes = Surface(log).nodes
    BY <1>1, <2>1, <2>2, SurfaceKeeps DEF Appends, IsMessage
  <2>4. Open.turn = 0
    BY <1>4, <1>7, OpenStarts
  <2>5. PendingNow = << >>
    BY <1>1, <2>4, TailZero DEF Open, PendingNow
  <2>6. PendingNow' \in Seq(Pendings) /\ DOMAIN PendingNow' = {}
    <3>1. DOMAIN << >> = {}
      OBVIOUS
    <3> QED
      BY <1>1, <1>5, <2>1, <3>1, TailScanType DEF OpensAs, PendingNow, Open, Tails
  <2>7. Surface(log).nodes \in Seq(Nodes) /\ << >> \in Seq(Pendings) /\ DOMAIN << >> = {}
    BY <1>1, SurfaceType DEF Surfaces
  <2> QED
    BY <1>4, <2>3, <2>5, <2>6, <2>7, PairedSame
<1>8. ASSUME NEW e, Appends(e), Live, Live', ~IsMessage(e),
             e.type \notin {"compaction/summary", "context-budget/decision"},
             loop'.turn = loop.turn, DOMAIN loop'.pending = DOMAIN loop.pending,
             \A i \in DOMAIN loop.pending : loop'.pending[i].call = loop.pending[i].call
      PROVE  PairedWith(Surface(log').nodes, PendingNow', Open'.turn)
  <2>1. Surface(log').nodes = Surface(log).nodes
    BY <1>1, <1>8, SurfaceKeeps DEF Appends
  <2> QED
    BY <1>1, <1>4, <1>5, <1>8, <2>1, PairedKept
<1>9. CASE Says
  <2>1. Live /\ Live' /\ loop.pending = << >> /\ loop'.pending = << >> /\ loop'.turn = loop.turn
    BY <1>9 DEF Says, Same, Later
  <2>2. PICK e : Appends(e) /\ (\/ e = UserMessage(loop.turn) \/ e = AssistantMessage(loop.turn)
                                \/ e = TurnError(loop.turn))
    BY <1>9 DEF Says
  <2>3. CASE e = TurnError(loop.turn)
    <3>1. e.type = "turn/error"
      BY <2>3 DEF TurnError
    <3> QED
      BY <1>8, <2>1, <2>2, <3>1 DEF IsMessage
  <2>4. CASE e = UserMessage(loop.turn) \/ e = AssistantMessage(loop.turn)
    <3>1. e.type \in {"user/message", "assistant/message"} /\ e.turn = loop.turn
      BY <2>4 DEF UserMessage, AssistantMessage
    <3> QED
      BY <1>1, <1>4, <1>5, <2>1, <2>2, <3>1, PairedSays
  <2> QED
    BY <2>2, <2>3, <2>4
<1>10. CASE StepStarts
  <2>1. Appends(StepStart(loop.turn, loop.step)) /\ StepStart(loop.turn, loop.step).type = "step/start"
    BY <1>10 DEF StepStarts, StepStart
  <2>2. Live /\ Live' /\ loop'.turn = loop.turn /\ loop'.pending = loop.pending
    BY <1>10 DEF StepStarts, Later
  <2> QED
    BY <1>8, <2>1, <2>2 DEF IsMessage
<1>11. CASE StepEnds
  <2>1. PICK o : Appends(StepEnd(loop.turn, loop.open, o))
    BY <1>11 DEF StepEnds
  <2>2. StepEnd(loop.turn, loop.open, o).type = "step/end"
    BY DEF StepEnd
  <2>3. Live /\ Live' /\ loop'.turn = loop.turn /\ loop'.pending = loop.pending
    BY <1>11 DEF StepEnds, Later
  <2> QED
    BY <1>8, <2>1, <2>2, <2>3 DEF IsMessage
<1>12. CASE Ends
  <2>1. PICK o : Appends(TurnEnd(loop.turn, o))
    BY <1>12 DEF Ends
  <2>2. TurnEnd(loop.turn, o).type = "turn/end"
    BY DEF TurnEnd
  <2>3. Surface(log').nodes = Surface(log).nodes
    BY <1>1, <2>1, <2>2, SurfaceKeeps DEF Appends, IsMessage
  <2>4. Live /\ loop.pending = << >>
    BY <1>12 DEF Ends
  <2>5. PendingNow = << >>
    BY <1>4, <2>4, OpenLive
  <2>6. PendingNow' = << >>
    BY <1>12, OpenClosed
  <2>7. Surface(log).nodes \in Seq(Nodes) /\ << >> \in Seq(Pendings) /\ DOMAIN << >> = {}
    BY <1>1, SurfaceType DEF Surfaces
  <2> QED
    BY <1>4, <2>3, <2>5, <2>6, <2>7, PairedSame
<1>13. CASE Answers
  <2>1. Live'
    BY <1>13 DEF Answers, Later
  <2> QED
    BY <1>1, <1>4, <1>5, <1>13, <2>1, PairedAnswers
<1>14. CASE Requested
  <2>1. Live /\ Live' /\ loop.pending = << >> /\ loop'.turn = loop.turn
    BY <1>14 DEF Requested, Later, At, Live, Runs
  <2>2. PICK b \in Batches :
          /\ Appends(ToolCalls(loop.turn, BatchCalls(b)))
          /\ loop'.pending = [k \in DOMAIN BatchCalls(b) |->
                                [call |-> BatchCalls(b)[k], started |-> FALSE]]
    BY <1>14 DEF Requested
  <2> DEFINE e == ToolCalls(loop.turn, BatchCalls(b))
  <2>3. e.type = "assistant/tool-calls" /\ e.turn = loop.turn /\ e.calls = BatchCalls(b)
    BY DEF ToolCalls
  <2> HIDE DEF e
  <2>4. DOMAIN loop'.pending = DOMAIN e.calls
        /\ \A k \in DOMAIN e.calls : loop'.pending[k].call = e.calls[k]
    BY <2>2, <2>3
  <2>5. Appends(e)
    BY <2>2 DEF e
  <2> QED
    BY <1>1, <1>4, <1>5, <2>1, <2>3, <2>4, <2>5, PairedSays
<1>15. CASE Recorded
  <2>1. Appends(ToolCall(loop.turn, Current)) /\ ToolCall(loop.turn, Current).type = "tool/call"
    BY <1>15 DEF Recorded, ToolCall
  <2>2. Live /\ Live' /\ loop'.turn = loop.turn
        /\ loop'.pending = [loop.pending EXCEPT ![1].started = TRUE]
    BY <1>15 DEF Recorded, Later, At, Live, Runs
  <2>3. DOMAIN loop'.pending = DOMAIN loop.pending
        /\ \A i \in DOMAIN loop.pending : loop'.pending[i].call = loop.pending[i].call
    <3>1. loop.pending \in Seq(Requests)
      BY <1>1 DEF TypeInv, Loops
    <3> QED
      BY <2>2, <3>1 DEF Requests
  <2> QED
    BY <1>8, <2>1, <2>2, <2>3 DEF IsMessage
<1>16. CASE Asked
  <2>1. /\ Appends(ApprovalAsked(loop.turn, Current))
        /\ ApprovalAsked(loop.turn, Current).type = "approval/asked"
    BY <1>16 DEF Asked, ApprovalAsked
  <2>2. Live /\ Live' /\ loop'.turn = loop.turn /\ loop'.pending = loop.pending
    BY <1>16 DEF Asked, Later, Same, At, Live, Runs
  <2> QED
    BY <1>8, <2>1, <2>2 DEF IsMessage
<1>17. CASE Judged
  <2>1. PICK o : Appends(ApprovalDecided(loop.turn, Current, o))
    BY <1>17 DEF Judged
  <2>2. ApprovalDecided(loop.turn, Current, o).type = "approval/decided"
    BY DEF ApprovalDecided
  <2>3. Live /\ Live' /\ loop'.turn = loop.turn /\ loop'.pending = loop.pending
    BY <1>17 DEF Judged, Later, Same, At, Live, Runs
  <2> QED
    BY <1>8, <2>1, <2>2, <2>3 DEF IsMessage
<1>18. CASE Readied
  <2>1. /\ Appends(SandboxPrepared(loop.turn, Current))
        /\ SandboxPrepared(loop.turn, Current).type = "sandbox/prepared"
    BY <1>18 DEF Readied, SandboxPrepared
  <2>2. Live /\ Live' /\ loop'.turn = loop.turn /\ loop'.pending = loop.pending
    BY <1>18 DEF Readied, Later, Same, At, Live, Runs
  <2> QED
    BY <1>8, <2>1, <2>2 DEF IsMessage
<1>19. CASE Reload
  <2>1. CASE Open.turn = 0
    <3>1. log' = log
      BY <1>19, <2>1, ReloadIs
    <3> QED
      BY <1>4, <3>1 DEF PendingNow, Open
  <2>2. CASE Open.turn # 0
    BY <1>4, <1>19, <2>2, PairedReload
  <2> QED
    BY <2>1, <2>2
<1> QED
  BY <1>2, <1>6, <1>7, <1>9, <1>10, <1>11, <1>12, <1>13, <1>14, <1>15, <1>16, <1>17, <1>18, <1>19
-------------------------------------------------------------------------------
(* Paired with nothing pending is what the model may be shown.             *)
LEMMA PairedSurfaceIs ==
  ASSUME NEW s \in Seq(Nodes), NEW t
  PROVE  PairedSurface(s) <=> PairedWith(s, << >>, t)
<1>1. DOMAIN s = 1 .. Len(s) /\ Len(s) \in Nat /\ Len(<< >>) = 0
  BY NodesType
<1>2. \A i : IsBatch(s, i) =>
        /\ i \in 1 .. Len(s) /\ LastOf(s, i) = i + Len(s[i].event.calls)
        /\ Len(s[i].event.calls) \in Nat /\ DOMAIN s[i].event.calls = 1 .. Len(s[i].event.calls)
  BY <1>1, NodesType DEF IsBatch, LastOf
<1>3. ASSUME PairedSurface(s) PROVE PairedWith(s, << >>, t)
  <2>1. ASSUME NEW i \in DOMAIN s, IsBatch(s, i)
        PROVE  /\ LastOf(s, i) <= Len(s)
               /\ \A k \in DOMAIN s[i].event.calls :
                    /\ i + k <= Len(s)
                    /\ s[i + k].event.type = "tool/result"
                    /\ s[i + k].event.call = s[i].event.calls[k]
                    /\ s[i + k].turn = s[i].turn
    <3>1. /\ i + Len(s[i].event.calls) <= Len(s)
          /\ \A k \in DOMAIN s[i].event.calls :
               /\ s[i + k].event.type = "tool/result"
               /\ s[i + k].event.call = s[i].event.calls[k]
               /\ s[i + k].turn = s[i].turn
      BY <1>3, <2>1 DEF PairedSurface, IsBatch
    <3> QED
      BY <1>1, <1>2, <2>1, <3>1
  <2>2. ASSUME NEW i \in DOMAIN s, s[i].event.type = "tool/result"
        PROVE  \E j \in 1 .. i - 1 : IsBatch(s, j) /\ i <= LastOf(s, j)
    <3>1. PICK j \in 1 .. i - 1 : /\ s[j].event.type = "assistant/tool-calls"
                                  /\ \E k \in DOMAIN s[j].event.calls : j + k = i
      BY <1>3, <2>2 DEF PairedSurface
    <3>2. IsBatch(s, j)
      BY <1>1, <2>2, <3>1 DEF IsBatch
    <3>3. i <= LastOf(s, j)
      BY <1>2, <3>1, <3>2
    <3> QED
      BY <3>2, <3>3
  <2>3. ASSUME NEW i \in DOMAIN s, IsBatch(s, i)
        PROVE  LastOf(s, i) <= Len(s) + Len(<< >>) /\ ~(LastOf(s, i) > Len(s))
    BY <1>1, <1>2, <2>1, <2>3
  <2> QED
    BY <2>1, <2>2, <2>3 DEF PairedWith
<1>4. ASSUME PairedWith(s, << >>, t) PROVE PairedSurface(s)
  <2>1. ASSUME NEW i \in DOMAIN s, IsBatch(s, i)
        PROVE  /\ i + Len(s[i].event.calls) <= Len(s)
               /\ \A k \in DOMAIN s[i].event.calls :
                    /\ s[i + k].event.type = "tool/result"
                    /\ s[i + k].event.call = s[i].event.calls[k]
                    /\ s[i + k].turn = s[i].turn
    <3>1. LastOf(s, i) <= Len(s) + Len(<< >>)
      BY <1>4, <2>1 DEF PairedWith
    <3>2. i + Len(s[i].event.calls) <= Len(s) /\ \A k \in DOMAIN s[i].event.calls : i + k <= Len(s)
      BY <1>1, <1>2, <2>1, <3>1
    <3> QED
      BY <1>4, <2>1, <3>2 DEF PairedWith
  <2>2. ASSUME NEW i \in DOMAIN s, s[i].event.type = "tool/result"
        PROVE  \E j \in 1 .. i - 1 :
                 /\ s[j].event.type = "assistant/tool-calls"
                 /\ \E k \in DOMAIN s[j].event.calls :
                      j + k = i /\ s[j].event.calls[k] = s[i].event.call
    <3>1. PICK j \in 1 .. i - 1 : IsBatch(s, j) /\ i <= LastOf(s, j)
      BY <1>4, <2>2 DEF PairedWith
    <3>2. i - j \in DOMAIN s[j].event.calls /\ j + (i - j) = i /\ j \in DOMAIN s
      BY <1>1, <1>2, <2>2, <3>1
    <3>3. s[j].event.calls[i - j] = s[i].event.call
      BY <2>1, <3>1, <3>2
    <3> QED
      BY <3>1, <3>2, <3>3 DEF IsBatch
  <2> QED
    BY <2>1, <2>2 DEF PairedSurface, IsBatch
<1> QED
  BY <1>3, <1>4

(* The invariant holds at the start.                                       *)
LEMMA InitTurn ==
  ASSUME Init
  PROVE  TurnInv
<1>1. BaseInv /\ SurfaceInv /\ Open.scan.ok /\ Open.turn = 0
  BY InitBase DEF SurfaceInv, Open
<1>2. log \in Seq(Events) /\ ~Live /\ At("idle") /\ effects = {} /\ loop = Idle
  BY <1>1 DEF BaseInv, TypeInv, Init, Live, Runs, At, Idle
<1>3. log \in InitialLogs /\ storage.transient = 0
  BY DEF Init
<1>4. /\ Settled(log) /\ PairedSurface(Surface(log).nodes)
      /\ \A i \in DOMAIN log : log[i].turn <= Turns
  BY <1>3, LogAssumption DEF Turns, Settled
<1>5. PendingNow = << >> /\ Open.scan.step = 0
  BY <1>1, <1>2, TailZero DEF PendingNow, Open
<1>6. ApprovalInv /\ HonestResults
  BY <1>2 DEF ApprovalInv, HonestResults, Idle, At
<1>7. NumberInv /\ PastInv
  BY <1>2, <1>4 DEF NumberInv, PastInv
<1>8. OpenInv
  BY <1>2 DEF OpenInv, StartedIn
<1>9. CleanInv
  <2>1. Bracketed(log)
    <3>1. \A type \in Brackets : Count(log, type) \in Nat
      BY <1>2, CountType
    <3> QED
      BY <1>1, <1>4, <1>5, <3>1 DEF Bracketed, Settled, One, Open, Brackets
  <2> QED
    BY <1>1, <2>1 DEF CleanInv
<1>10. PairedInv
  <2>1. Surface(log).nodes \in Seq(Nodes)
    BY <1>2, SurfaceType DEF Surfaces
  <2> QED
    BY <1>1, <1>4, <1>5, <2>1, PairedSurfaceIs DEF PairedInv
<1> QED
  BY <1>1, <1>6, <1>7, <1>8, <1>9, <1>10 DEF TurnInv, BaseInv
-------------------------------------------------------------------------------
(* The invariant of a turn holds whatever the host, the model, the tools,  *)
(* the caller and the storage do.                                          *)
THEOREM TurnIsInvariant == Spec => []TurnInv
<1>1. Init => TurnInv
  BY InitTurn
<1>2. TurnInv /\ [Next]_vars => TurnInv'
  <2> SUFFICES ASSUME TurnInv, [Next]_vars PROVE TurnInv'
    OBVIOUS
  <2>1. BaseInv /\ ApprovalInv /\ NumberInv /\ PastInv /\ OpenInv /\ CleanInv /\ SurfaceInv
        /\ PairedInv /\ HonestResults
    BY DEF TurnInv, BaseInv
  <2>2. BaseInv'
    BY <2>1, BaseStep
  <2>3. ApprovalInv' /\ NumberInv'
    BY <2>1, ApprovalStep, NumberStep
  <2>4. PastInv'
    BY <2>1, PastStep
  <2>5. OpenInv'
    BY <2>1, OpenStep
  <2>6. HonestResults'
    BY <2>1, HonestStep
  <2>7. CleanInv'
    BY <2>1, CleanStep
  <2>8. SurfaceInv'
    BY <2>1, SurfaceStep
  <2>9. PairedInv'
    BY <2>1, PairedStep
  <2> QED
    BY <2>2, <2>3, <2>4, <2>5, <2>6, <2>7, <2>8, <2>9 DEF TurnInv, BaseInv
<1> QED
  BY <1>1, <1>2, PTL DEF Spec

(* A result that says a call never started is true, whoever wrote it: the  *)
(* loop (executeCalls and its catch block) or the process that found the   *)
(* log cut short (interruptedTurnClosers).                                 *)
THEOREM ResultsAreHonest == Spec => []HonestResults
<1>1. TurnInv => HonestResults
  BY DEF TurnInv
<1> QED
  BY <1>1, TurnIsInvariant, PTL

(* A consequential tool acts only after the file holds the call, then its  *)
(* question, then an allowed-once decision, then the prepared sandbox,     *)
(* whatever dies between the appends of ToolRegistry.execute.              *)
THEOREM EffectsAreApproved == Spec => []ApprovedEffects
<1>1. TurnInv => ApprovedEffects
  <2> SUFFICES ASSUME TurnInv, NEW x \in effects, x.call.kind = "guarded"
               PROVE  \E i \in DOMAIN log :
                        /\ log[i] = ToolCall(x.turn, x.call)
                        /\ \E a \in i + 1 .. Len(log) :
                             /\ log[a] = ApprovalAsked(x.turn, x.call)
                             /\ \E j \in a + 1 .. Len(log) :
                                  /\ log[j] = ApprovalDecided(x.turn, x.call, "allowed-once")
                                  /\ \E k \in j + 1 .. Len(log) :
                                       log[k] = SandboxPrepared(x.turn, x.call)
    BY DEF ApprovedEffects
  <2>1. log \in Seq(Events) /\ DOMAIN log = 1 .. Len(log) /\ Len(log) \in Nat
    BY DEF TurnInv, TypeInv
  <2>2. IsPrepared(log, x.turn, x.call)
    BY DEF TurnInv, ApprovalInv
  <2>3. PICK i, a, j, k \in DOMAIN log :
          /\ i < a /\ log[i] = ToolCall(x.turn, x.call)
          /\ log[a] = ApprovalAsked(x.turn, x.call)
          /\ a < j /\ log[j] = ApprovalDecided(x.turn, x.call, "allowed-once")
          /\ j < k /\ log[k] = SandboxPrepared(x.turn, x.call)
    BY <2>2 DEF IsPrepared
  <2>4. a \in i + 1 .. Len(log) /\ j \in a + 1 .. Len(log) /\ k \in j + 1 .. Len(log)
    BY <2>1, <2>3
  <2> QED
    BY <2>3, <2>4
<1> QED
  BY <1>1, TurnIsInvariant, PTL

(* A session whose storage has not failed and that has no turn running has *)
(* nothing open: run closes every step and every turn it opens, and so     *)
(* does the process that loads what a dead one left.                       *)
THEOREM LogIsSettled == Spec => []SettledLog
<1>1. TurnInv => SettledLog
  <2> SUFFICES ASSUME TurnInv, At("idle"), ~storage.broken, storage.transient = 0
               PROVE  Settled(log)
    BY DEF SettledLog
  <2>1. /\ log \in Seq(Events) /\ Bracketed(log) /\ Open.turn = 0
        /\ PairedWith(Surface(log).nodes, PendingNow, Open.turn)
    BY DEF TurnInv, TypeInv, CleanInv, PairedInv
  <2>2. TailScan(log).turn = 0 /\ TailScan(log).scan.step = 0
    BY <2>1, TailZero DEF Open
  <2>3. \A type \in Brackets : Count(log, type) \in Nat
    BY <2>1, CountType
  <2>4. PairedSurface(Surface(log).nodes)
    <3>1. PendingNow = << >>
      BY <2>1, TailZero DEF PendingNow, Open
    <3>2. Surface(log).nodes \in Seq(Nodes)
      BY <2>1, SurfaceType DEF Surfaces
    <3> QED
      BY <2>1, <3>1, <3>2, PairedSurfaceIs
  <2> QED
    BY <2>1, <2>2, <2>3, <2>4 DEF Bracketed, Settled, One, Brackets
<1> QED
  BY <1>1, TurnIsInvariant, PTL

(* Wherever the process dies, the next one can load the log: neither       *)
(* deriveSessionSurface nor interruptedTurnClosers refuses it.  It takes   *)
(* that no append has failed that would have succeeded later: the closers  *)
(* of such a turn can be refused.                                          *)
THEOREM LogIsRecoverable == Spec => [](storage.transient = 0 => Recoverable)
<1>1. TurnInv => (storage.transient = 0 => Recoverable)
  BY DEF TurnInv, SurfaceInv, CommandInv, CleanInv, Bracketed, Recoverable, Loadable
<1> QED
  BY <1>1, TurnIsInvariant, PTL

(* Each batch of calls the model is shown is followed by exactly its       *)
(* results, in order, as long as no append has failed that would have      *)
(* succeeded later.                                                        *)
THEOREM RequestsArePaired == Spec => [](storage.transient = 0 => RequestPaired)
<1>1. TurnInv => (storage.transient = 0 => RequestPaired)
  <2> SUFFICES ASSUME TurnInv, storage.transient = 0, At("model")
               PROVE  PairedSurface(Surface(log).nodes)
    BY DEF RequestPaired
  <2>1. log \in Seq(Events) /\ BaseInv /\ OpenInv /\ Open.scan.ok
        /\ PairedWith(Surface(log).nodes, PendingNow, Open.turn)
    BY DEF TurnInv, TypeInv, BaseInv, CleanInv, PairedInv, Bracketed, Open
  <2>2. loop.pending = << >> /\ Live
    BY DEF TurnInv, LoopInv, LoopOk, At, Live, Runs, Executing
  <2>3. PendingNow = << >>
    BY <2>1, <2>2, OpenLive
  <2>4. Surface(log).nodes \in Seq(Nodes)
    BY <2>1, SurfaceType DEF Surfaces
  <2> QED
    BY <2>1, <2>3, <2>4, PairedSurfaceIs
<1> QED
  BY <1>1, TurnIsInvariant, PTL
===============================================================================
