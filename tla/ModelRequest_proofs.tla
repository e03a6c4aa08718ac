-------------------------- MODULE ModelRequest_proofs --------------------------
(***************************************************************************)
(* What ModelRequest guarantees for every retry policy, every header of    *)
(* the server and every body.                                              *)
(*                                                                         *)
(* Retries: the places before a body is accepted have one request for each *)
(* attempt, and have shown nothing; a request sleeps only after a failure  *)
(* that may pass, with an attempt left and a delay below the ceiling, and  *)
(* the next request is sent from there.                                    *)
(* Cancellation: every step that ends a request goes through the catch     *)
(* block, or looks at the signal itself.                                   *)
(* Answers: a body is a sequence of tokens, and what the reader has in its  *)
(* buffer is what is left of the first p of them, with the line ends made   *)
(* one, when the first m events have been taken out (Left).  A chunk more   *)
(* is more tokens of the same (JoinedIs); an event taken out is the next    *)
(* payload, and one more (EventLeft, EventLast); and the answer so far is   *)
(* what the first m payloads say (Told).                                    *)
(***************************************************************************)
EXTENDS ModelRequest, SequenceTheorems, FiniteSetTheorems, TLAPS

Before == {"send", "fetch", "sleep"}

Delayed ==
  /\ wait <= MaxDelay
  /\ after # NoHeader => wait = after

RetryInv ==
  /\ attempt \in Nat \ {0} /\ requests \in Nat
  /\ pc \in Before => attempt <= MaxRetries + 1 /\ delivered = << >>
  /\ pc = "send" =>
       /\ requests = attempt - 1 /\ Delayed
       /\ last \in {"none", "network", "transient"}
  /\ pc = "fetch" => requests = attempt
  /\ pc = "sleep" =>
       /\ requests = attempt /\ attempt <= MaxRetries /\ Delayed
       /\ last \in {"network", "transient"}
-------------------------------------------------------------------------------
(* The first request has not been sent yet.                                *)
LEMMA RetryInit == Init => RetryInv
BY RetryAssumption DEF Init, RetryInv, Before, Delayed

(* The exponential delay is cut off at the ceiling.                         *)
LEMMA BackoffBelowCeiling == Backoff <= MaxDelay
BY RetryAssumption DEF Backoff, Least

(* A step to "sleep" has a delay below the ceiling, the server's own if it  *)
(* named one.                                                               *)
LEMMA WaitIsDelay ==
  ASSUME NEW header \in RetryAfters \cup {NoHeader}, WaitFor(header)
  PROVE  \/ pc' = "done"
         \/ pc' = "sleep" /\ wait' <= MaxDelay /\ (header # NoHeader => wait' = header)
<1> DEFINE ms == IF header = NoHeader THEN Backoff ELSE header
<1>1. CASE ms > MaxDelay \/ aborted
  BY <1>1 DEF WaitFor, Fail, End
<1>2. CASE ~(ms > MaxDelay \/ aborted)
  <2>1. wait' = ms /\ pc' = "sleep"
    BY <1>2 DEF WaitFor
  <2>2. ms <= MaxDelay
    <3>1. CASE header = NoHeader
      BY <3>1, BackoffBelowCeiling
    <3>2. CASE header # NoHeader
      <4>1. header \in Nat /\ MaxDelay \in Nat
        BY <3>2, RetryAssumption
      <4> QED  BY <1>2, <3>2, <4>1
    <3> QED  BY <3>1, <3>2
  <2> QED  BY <2>1, <2>2
<1> QED  BY <1>1, <1>2

(* No step of the body goes back to a place before it.                      *)
LEMMA BodyStep ==
  ASSUME RetryInv, pc \notin Before, pc' \notin Before, UNCHANGED http
  PROVE  RetryInv'
BY DEF RetryInv, Before, http

(* Every step keeps one request for each attempt.                           *)
LEMMA RetryStep == RetryInv /\ [Next]_vars => RetryInv'
<1> SUFFICES ASSUME RetryInv, [Next]_vars PROVE RetryInv'
  OBVIOUS
<1> USE DEF RetryInv, Before
<1>1. CASE Send
  BY <1>1 DEF Send, Fail, End, answer
<1>2. CASE NetworkFails
  <2>1. pc = "fetch" /\ last' = "network" /\ after' = NoHeader
        /\ UNCHANGED <<attempt, requests, delivered>>
    BY <1>2 DEF NetworkFails, answer
  <2>2. CASE pc' = "done"
    BY <2>1, <2>2
  <2>3. CASE ~(aborted \/ attempt > MaxRetries) /\ WaitFor(NoHeader)
    <3>1. pc' = "done" \/ (pc' = "sleep" /\ wait' <= MaxDelay)
      BY <2>3, WaitIsDelay
    <3>2. attempt <= MaxRetries
      BY <2>3, RetryAssumption
    <3> QED  BY <2>1, <3>1, <3>2 DEF Delayed
  <2> QED  BY <1>2, <2>2, <2>3 DEF NetworkFails, Fail, End
<1>3. ASSUME NEW status \in {"fatal", "overflow", "transient"},
             NEW header \in RetryAfters \cup {NoHeader}, Refused(status, header)
      PROVE  RetryInv'
  <2>1. pc = "fetch" /\ last' = status /\ after' = header
        /\ UNCHANGED <<attempt, requests, delivered>>
    BY <1>3 DEF Refused, answer
  <2>2. CASE pc' = "done"
    BY <2>1, <2>2
  <2>3. CASE ~(status # "transient" \/ attempt > MaxRetries) /\ WaitFor(header)
    <3>1. pc' = "done" \/ (pc' = "sleep" /\ wait' <= MaxDelay
                           /\ (header # NoHeader => wait' = header))
      BY <2>3, WaitIsDelay
    <3>2. attempt <= MaxRetries
      BY <2>3, RetryAssumption
    <3> QED  BY <2>1, <2>3, <3>1, <3>2 DEF Delayed, NoHeader
  <2> QED  BY <1>3, <2>2, <2>3 DEF Refused, Fail, End
<1>4. CASE Wake
  <2>1. pc = "sleep" /\ UNCHANGED <<requests, last, after, wait, delivered>>
    BY <1>4 DEF Wake, answer
  <2>2. CASE pc' = "done" /\ UNCHANGED attempt
    BY <2>1, <2>2
  <2>3. CASE attempt' = attempt + 1 /\ pc' = "send"
    BY <2>1, <2>3, RetryAssumption DEF Delayed, NoHeader
  <2> QED  BY <1>4, <2>2, <2>3 DEF Wake, Fail, End
<1>5. ASSUME NEW ps \in Bodies, NEW crlf \in BOOLEAN, NEW cut \in 0 .. Len(Stream(ps, crlf)),
             Accepted(ps, crlf, cut)
      PROVE  RetryInv'
  BY <1>5 DEF Accepted
<1>6. CASE Abort
  BY <1>6 DEF Abort, http, answer, Delayed, NoHeader
<1>7. CASE (\E n \in 1 .. Len(body) : ReadChunk(n)) \/ ReadEnd \/ ReadFails
  BY <1>7, BodyStep DEF ReadChunk, ReadEnd, ReadFails, Fail, End
<1>8. CASE SkipEvent \/ DoneEvent \/ BadEvent
  BY <1>8, BodyStep DEF SkipEvent, DoneEvent, BadEvent, HasPayload, Fail, End
<1>9. CASE UsageEvent \/ TextEvent \/ CallEvent
  BY <1>9, BodyStep DEF UsageEvent, TextEvent, CallEvent, GoodEvent, HasPayload, End
<1>10. CASE Finish
  BY <1>10, BodyStep DEF Finish, Fail, End
<1>11. CASE UNCHANGED vars
  BY <1>11 DEF vars, http, answer, Delayed, NoHeader
<1> QED
  BY <1>1, <1>2, <1>3, <1>4, <1>5, <1>6, <1>7, <1>8, <1>9, <1>10, <1>11 DEF Next, Fetch

(* Only Send sends.                                                         *)
LEMMA OnlySendSends ==
  ASSUME [Next]_vars, requests' # requests
  PROVE  pc = "send" /\ ~aborted /\ requests' = requests + 1
<1>1. CASE Send
  BY <1>1 DEF Send
<1>2. CASE Fetch
  BY <1>2 DEF Fetch, NetworkFails, Refused, Accepted
<1>3. CASE Wake \/ Abort \/ UNCHANGED vars
  BY <1>3 DEF Wake, Abort, vars, http
<1>4. CASE (\E n \in 1 .. Len(body) : ReadChunk(n)) \/ ReadEnd \/ ReadFails
           \/ SkipEvent \/ DoneEvent \/ BadEvent \/ Finish
  BY <1>4 DEF ReadChunk, ReadEnd, ReadFails, SkipEvent, DoneEvent, BadEvent, Finish, http
<1>5. CASE UsageEvent \/ TextEvent \/ CallEvent
  BY <1>5 DEF UsageEvent, TextEvent, CallEvent, GoodEvent, http
<1> QED  BY <1>1, <1>2, <1>3, <1>4, <1>5 DEF Next

(* A request is repeated only after a failure that may pass, at most        *)
(* MaxRetries times, not before the server's delay nor above the ceiling,   *)
(* and never once it was cancelled or has shown anything.                   *)
THEOREM NothingIsReplayed == Spec => NoReplay
<1>1. RetryInv /\ [Next]_vars =>
        [requests' # requests =>
           /\ requests' = requests + 1 /\ requests' <= MaxRetries + 1
           /\ ~aborted
           /\ last \in {"none", "network", "transient"}
           /\ delivered = <<>>
           /\ wait <= MaxDelay
           /\ after # NoHeader => wait = after]_vars
  BY OnlySendSends, RetryAssumption DEF RetryInv, Before, Delayed
<1> QED
  BY <1>1, RetryInit, RetryStep, PTL DEF Spec, NoReplay
-------------------------------------------------------------------------------
(* Whatever ends a request while its signal is aborted reports that.        *)
LEMMA EndsAborted ==
  ASSUME [Next]_vars, aborted, result' # result
  PROVE  result'.kind = "aborted"
<1>1. \A error : Fail(error) => result'.kind = "aborted"
  BY DEF Fail, End, Failed
<1>2. CASE Send \/ Wake \/ ReadFails \/ BadEvent
  BY <1>1, <1>2 DEF Send, Wake, ReadFails, BadEvent, HasPayload
<1>3. \A header : WaitFor(header) => UNCHANGED result \/ result'.kind = "aborted"
  BY <1>1 DEF WaitFor
<1>4. CASE Fetch
  BY <1>1, <1>3, <1>4 DEF Fetch, NetworkFails, Refused, Accepted
<1>5. CASE Finish
  BY <1>1, <1>5 DEF Finish
<1>6. CASE UsageEvent \/ TextEvent \/ CallEvent
  BY <1>6 DEF UsageEvent, TextEvent, CallEvent, GoodEvent
<1>7. CASE (\E n \in 1 .. Len(body) : ReadChunk(n)) \/ ReadEnd \/ SkipEvent \/ DoneEvent
           \/ Abort \/ UNCHANGED vars
  BY <1>7 DEF ReadChunk, ReadEnd, SkipEvent, DoneEvent, Abort, vars
<1> QED  BY <1>2, <1>4, <1>5, <1>6, <1>7 DEF Next

(* A cancelled request ends as cancelled, never with an answer or with the  *)
(* error the cancellation caused.                                           *)
THEOREM CancellationIsReported == Spec => CancelReported
<1>1. [Next]_vars => [(aborted /\ result' # result) => result'.kind = "aborted"]_vars
  BY EndsAborted
<1> QED
  BY <1>1, PTL DEF Spec, CancelReported
-------------------------------------------------------------------------------
(* A set of naturals has a least element.  The library states induction    *)
(* over an operator; this is the form over a set, from the                 *)
(* well-foundedness of finite sets under inclusion.                        *)
LEMMA LeastNatural ==
  ASSUME NEW B \in SUBSET Nat, B # {}
  PROVE  \E n \in B : \A m \in B : n <= m
<1> DEFINE R == StrictSubsetOrdering(Nat)
           T == {0 .. n - 1 : n \in B}
<1>1. IsWellFoundedOn(R, FiniteSubsetsOf(Nat))
  BY FS_StrictSubsetOrderingWellFounded
<1>2. T \subseteq FiniteSubsetsOf(Nat)
  <2> SUFFICES ASSUME NEW n \in B PROVE 0 .. n - 1 \in FiniteSubsetsOf(Nat)
    OBVIOUS
  <2>1. IsFiniteSet(0 .. n - 1)
    BY FS_Interval
  <2> QED
    BY <2>1 DEF FiniteSubsetsOf
<1>3. \E x \in T : \A y \in T : <<y, x>> \notin R
  <2>1. T # {}
    OBVIOUS
  <2> HIDE DEF R, T
  <2> QED
    BY <1>1, <1>2, <2>1, WFMin
<1>4. PICK n \in B : \A m \in B : <<0 .. m - 1, 0 .. n - 1>> \notin R
  BY <1>3
<1>5. ASSUME NEW m \in B, m < n PROVE FALSE
  <2>1. 0 .. m - 1 \subseteq 0 .. n - 1 /\ 0 .. m - 1 # 0 .. n - 1
    <3>1. m \in 0 .. n - 1 /\ m \notin 0 .. m - 1
      BY <1>5
    <3> QED
      BY <1>5, <3>1
  <2>2. 0 .. m - 1 \in SUBSET Nat /\ 0 .. n - 1 \in SUBSET Nat
    OBVIOUS
  <2>3. <<0 .. m - 1, 0 .. n - 1>> \in R
    BY <2>1, <2>2 DEF StrictSubsetOrdering
  <2> QED
    BY <1>4, <2>3
<1> QED
  BY <1>5

(* Induction up to n.                                                      *)
LEMMA UpTo ==
  ASSUME NEW n \in Nat, NEW B, 0 \in B, \A i \in 1 .. n : i - 1 \in B => i \in B
  PROVE  0 .. n \subseteq B
<1> DEFINE Missing == (0 .. n) \ B
<1> SUFFICES ASSUME Missing # {} PROVE FALSE
  OBVIOUS
<1>1. Missing \in SUBSET Nat
  OBVIOUS
<1>2. PICK i \in Missing : \A j \in Missing : i <= j
  BY <1>1, LeastNatural
<1>3. i \in 1 .. n /\ i - 1 \notin Missing
  BY <1>1, <1>2
<1> QED
  BY <1>2, <1>3

(* f lists the n members of I in order.                                    *)
Lists(f, n, I) ==
  /\ n \in Nat /\ f \in [1 .. n -> I] /\ I \subseteq Nat
  /\ \A j, k \in 1 .. n : j < k => f[j] < f[k]
  /\ \A i \in I : \E k \in 1 .. n : f[k] = i

(* What Pick returns for a set that is listed.                             *)
LEMMA PickIs ==
  ASSUME NEW s, NEW I, NEW n, NEW f, Lists(f, n, I)
  PROVE  /\ Pick(s, I) = [k \in 1 .. n |-> s[f[k]]]
         /\ IsFiniteSet(I) /\ Cardinality(I) = n
<1> USE DEF Lists
<1>1. IsFiniteSet(I) /\ Cardinality(I) = n
  <2>1. f \in Bijection(1 .. n, I)
    <3>1. \A j, k \in 1 .. n : f[j] = f[k] => j = k
      <4> SUFFICES ASSUME NEW j \in 1 .. n, NEW k \in 1 .. n, f[j] = f[k], j # k PROVE FALSE
        OBVIOUS
      <4>1. f[j] \in I /\ f[k] \in I
        OBVIOUS
      <4>2. f[j] \in Nat /\ f[k] \in Nat
        BY <4>1
      <4>3. j < k \/ k < j
        OBVIOUS
      <4> QED  BY <4>2, <4>3
    <3> QED  BY <3>1 DEF Bijection, Injection, Surjection, IsInjective
  <2>2. IsFiniteSet(1 .. n) /\ Cardinality(1 .. n) = n
    BY FS_Interval
  <2> QED
    BY <2>1, <2>2, FS_Bijection DEF ExistsBijection
<1>2. ASSUME NEW k \in 1 .. n
      PROVE  Cardinality({j \in I : j < f[k]}) = k - 1
  <2> DEFINE T == {j \in I : j < f[k]}
             g == [x \in 1 .. k - 1 |-> f[x]]
  <2>1. \A x \in 1 .. k - 1 : x \in 1 .. n /\ f[x] \in T
    OBVIOUS
  <2>2. \A j \in T : \E x \in 1 .. k - 1 : g[x] = j
    <3> SUFFICES ASSUME NEW j \in T PROVE \E x \in 1 .. k - 1 : g[x] = j
      OBVIOUS
    <3>1. PICK x \in 1 .. n : f[x] = j
      OBVIOUS
    <3>2. x < k
      <4>1. CASE k < x
        <5>1. f[k] < f[x] /\ f[k] \in Nat /\ f[x] \in Nat
          BY <4>1
        <5> QED  BY <3>1, <5>1
      <4>2. CASE k = x
        BY <3>1, <4>2
      <4> QED  BY <4>1, <4>2
    <3> QED  BY <3>1, <3>2
  <2>3. \A x, y \in 1 .. k - 1 : g[x] = g[y] => x = y
    <3> SUFFICES ASSUME NEW x \in 1 .. k - 1, NEW y \in 1 .. k - 1, g[x] = g[y], x # y PROVE FALSE
      OBVIOUS
    <3>1. f[x] = f[y] /\ f[x] \in Nat /\ x \in 1 .. n /\ y \in 1 .. n
      BY <2>1
    <3>2. x < y \/ y < x
      OBVIOUS
    <3> QED  BY <3>1, <3>2
  <2>4. g \in Bijection(1 .. k - 1, T)
    BY <2>1, <2>2, <2>3 DEF Bijection, Injection, Surjection, IsInjective
  <2>5. IsFiniteSet(1 .. k - 1) /\ Cardinality(1 .. k - 1) = k - 1
    BY FS_Interval
  <2> HIDE DEF T, g
  <2>6. Cardinality(T) = k - 1
    BY <2>4, <2>5, FS_Bijection DEF ExistsBijection
  <2> QED  BY <2>6 DEF T
<1>3. ASSUME NEW k \in 1 .. n
      PROVE  (CHOOSE i \in I : Cardinality({j \in I : j < i}) = k - 1) = f[k]
  <2>1. f[k] \in I /\ Cardinality({j \in I : j < f[k]}) = k - 1
    BY <1>2
  <2>2. ASSUME NEW i \in I, Cardinality({j \in I : j < i}) = k - 1
        PROVE  i = f[k]
    <3>1. PICK x \in 1 .. n : f[x] = i
      OBVIOUS
    <3>2. Cardinality({j \in I : j < f[x]}) = x - 1
      BY <1>2
    <3> QED  BY <2>2, <3>1, <3>2
  <2> QED  BY <2>1, <2>2
<1>4. Pick(s, I) =
        [k \in 1 .. n |-> s[CHOOSE i \in I : Cardinality({j \in I : j < i}) = k - 1]]
  BY <1>1 DEF Pick
<1> QED  BY <1>1, <1>3, <1>4

(* Every set of positions can be listed.                                   *)
LEMMA ListExists ==
  ASSUME NEW n \in Nat, NEW I \in SUBSET (1 .. n)
  PROVE  \E c \in 0 .. n : \E f \in [1 .. c -> I] : Lists(f, c, I)
<1> DEFINE B == {m \in 0 .. n : \A J \in SUBSET (1 .. m) :
                    \E c \in 0 .. m : \E f \in [1 .. c -> J] : Lists(f, c, J)}
<1>1. 0 \in B
  <2> SUFFICES ASSUME NEW J \in SUBSET (1 .. 0)
               PROVE  \E c \in 0 .. 0 : \E f \in [1 .. c -> J] : Lists(f, c, J)
    OBVIOUS
  <2>1. J = {} /\ 1 .. 0 = {}
    OBVIOUS
  <2> DEFINE f == [k \in {} |-> k]
  <2>2. f \in [1 .. 0 -> J] /\ Lists(f, 0, J)
    BY <2>1 DEF Lists
  <2> HIDE DEF f
  <2>3. 0 \in 0 .. 0
    OBVIOUS
  <2> QED  BY <2>2, <2>3
<1>2. ASSUME NEW m \in 1 .. n, m - 1 \in B
      PROVE  m \in B
  <2> SUFFICES ASSUME NEW J \in SUBSET (1 .. m)
               PROVE  \E c \in 0 .. m : \E f \in [1 .. c -> J] : Lists(f, c, J)
    OBVIOUS
  <2> DEFINE H == J \ {m}
  <2>1. H \in SUBSET (1 .. m - 1)
    OBVIOUS
  <2>2. PICK c \in 0 .. m - 1 : \E f \in [1 .. c -> H] : Lists(f, c, H)
    BY <1>2, <2>1
  <2>3. PICK f \in [1 .. c -> H] : Lists(f, c, H)
    BY <2>2
  <2>4. CASE m \notin J
    <3>1. H = J
      BY <2>4
    <3> HIDE DEF H
    <3>2. f \in [1 .. c -> J] /\ Lists(f, c, J) /\ c \in 0 .. m
      BY <2>3, <3>1
    <3> QED  BY <3>2
  <2>5. CASE m \in J
    <3> DEFINE g == [k \in 1 .. c + 1 |-> IF k <= c THEN f[k] ELSE m]
    <3>1. g \in [1 .. c + 1 -> J]
      BY <2>5
    <3>2. \A j, k \in 1 .. c + 1 : j < k => g[j] < g[k]
      <4> SUFFICES ASSUME NEW j \in 1 .. c + 1, NEW k \in 1 .. c + 1, j < k PROVE g[j] < g[k]
        OBVIOUS
      <4>1. j \in 1 .. c /\ g[j] = f[j] /\ f[j] \in 1 .. m - 1
        <5>1. j \in 1 .. c
          OBVIOUS
        <5>2. f[j] \in H
          BY <5>1
        <5>3. f[j] \in 1 .. m - 1
          BY <2>1, <5>2
        <5> QED  BY <5>1, <5>3
      <4>2. CASE k <= c
        BY <2>3, <4>1, <4>2 DEF Lists
      <4>3. CASE k = c + 1
        BY <4>1, <4>3
      <4> QED  BY <4>2, <4>3
    <3>3. \A i \in J : \E k \in 1 .. c + 1 : g[k] = i
      <4> SUFFICES ASSUME NEW i \in J PROVE \E k \in 1 .. c + 1 : g[k] = i
        OBVIOUS
      <4>1. CASE i = m
        <5>1. c + 1 \in 1 .. c + 1 /\ g[c + 1] = m
          OBVIOUS
        <5> QED  BY <4>1, <5>1
      <4>2. CASE i # m
        <5>1. PICK k \in 1 .. c : f[k] = i
          BY <2>3, <4>2 DEF Lists
        <5>2. k \in 1 .. c + 1 /\ g[k] = i
          BY <5>1
        <5> QED  BY <5>2
      <4> QED  BY <4>1, <4>2
    <3>4. Lists(g, c + 1, J)
      BY <3>1, <3>2, <3>3 DEF Lists
    <3>5. c + 1 \in 0 .. m
      OBVIOUS
    <3> HIDE DEF g
    <3> QED  BY <3>1, <3>4, <3>5
  <2> QED  BY <2>4, <2>5
<1>3. n \in B
  <2> HIDE DEF B
  <2> QED  BY <1>1, <1>2, UpTo
<1> QED  BY <1>3

(* Pick from a sequence with one more element.                             *)
LEMMA PickAppend ==
  ASSUME NEW S, NEW s \in Seq(S), NEW e \in S, NEW I \in SUBSET (1 .. Len(s))
  PROVE  /\ Pick(s, I) \in Seq(S)
         /\ Pick(Append(s, e), I) = Pick(s, I)
         /\ Pick(Append(s, e), I \cup {Len(s) + 1}) = Append(Pick(s, I), e)
<1> DEFINE n == Len(s)
           t == Append(s, e)
           J == I \cup {n + 1}
<1>1. n \in Nat /\ t[n + 1] = e /\ \A i \in 1 .. n : t[i] = s[i] /\ s[i] \in S
  OBVIOUS
<1>2. PICK c \in 0 .. n : \E f \in [1 .. c -> I] : Lists(f, c, I)
  BY <1>1, ListExists
<1>3. PICK f \in [1 .. c -> I] : Lists(f, c, I)
  BY <1>2
<1>4. \A k \in 1 .. c : f[k] \in 1 .. n /\ t[f[k]] = s[f[k]] /\ s[f[k]] \in S
  BY <1>1
<1> HIDE DEF n, t
<1>5. Pick(s, I) = [k \in 1 .. c |-> s[f[k]]] /\ Pick(t, I) = [k \in 1 .. c |-> t[f[k]]]
  BY <1>3, PickIs
<1>6. Pick(s, I) \in Seq(S) /\ Pick(t, I) = Pick(s, I) /\ Len(Pick(s, I)) = c
  <2>1. c \in Nat
    OBVIOUS
  <2> QED  BY <1>4, <1>5, <2>1
<1>7. Pick(t, J) = Append(Pick(s, I), e)
  <2> DEFINE g == [k \in 1 .. c + 1 |-> IF k <= c THEN f[k] ELSE n + 1]
  <2>1. Lists(g, c + 1, J)
    <3>1. g \in [1 .. c + 1 -> J] /\ J \subseteq Nat /\ c + 1 \in Nat
      BY <1>1
    <3>2. \A j, k \in 1 .. c + 1 : j < k => g[j] < g[k]
      <4> SUFFICES ASSUME NEW j \in 1 .. c + 1, NEW k \in 1 .. c + 1, j < k PROVE g[j] < g[k]
        OBVIOUS
      <4>1. j \in 1 .. c /\ g[j] = f[j] /\ f[j] \in 1 .. n
        BY <1>4
      <4>2. CASE k <= c
        BY <1>3, <4>1, <4>2 DEF Lists
      <4>3. CASE k = c + 1
        BY <1>1, <4>1, <4>3
      <4> QED  BY <4>2, <4>3
    <3>3. \A i \in J : \E k \in 1 .. c + 1 : g[k] = i
      <4> SUFFICES ASSUME NEW i \in J PROVE \E k \in 1 .. c + 1 : g[k] = i
        OBVIOUS
      <4>1. CASE i = n + 1
        <5>1. c + 1 \in 1 .. c + 1 /\ g[c + 1] = n + 1
          OBVIOUS
        <5> QED  BY <4>1, <5>1
      <4>2. CASE i \in I
        <5>1. PICK k \in 1 .. c : f[k] = i
          BY <1>3, <4>2 DEF Lists
        <5>2. k \in 1 .. c + 1 /\ g[k] = i
          BY <5>1
        <5> QED  BY <5>2
      <4> QED  BY <4>1, <4>2
    <3> QED  BY <3>1, <3>2, <3>3 DEF Lists
  <2>2. Pick(t, J) = [k \in 1 .. c + 1 |-> t[g[k]]]
    <3> HIDE DEF g, J
    <3> QED  BY <2>1, PickIs
  <2>3. \A k \in 1 .. c + 1 : t[g[k]] = IF k <= c THEN s[f[k]] ELSE e
    BY <1>1, <1>4 DEF n, t
  <2>4. Pick(t, J) = [k \in 1 .. c + 1 |-> IF k <= c THEN s[f[k]] ELSE e]
    BY <2>2, <2>3
  <2> HIDE DEF g, J
  <2>5. Append(Pick(s, I), e) = [k \in 1 .. c + 1 |-> IF k <= c THEN s[f[k]] ELSE e]
    BY <1>4, <1>5, <1>6
  <2> QED  BY <2>4, <2>5
<1> QED  BY <1>6, <1>7 DEF n, t

(* Pick of an initial part.                                                *)
LEMMA PickFirst ==
  ASSUME NEW s, NEW n \in Nat
  PROVE  Pick(s, 1 .. n) = [k \in 1 .. n |-> s[k]]
<1> DEFINE f == [k \in 1 .. n |-> k]
<1>1. Lists(f, n, 1 .. n)
  BY DEF Lists
<1>2. \A k \in 1 .. n : s[f[k]] = s[k]
  OBVIOUS
<1>3. Pick(s, 1 .. n) = [k \in 1 .. n |-> s[f[k]]]
  <2> HIDE DEF f
  <2> QED  BY <1>1, PickIs
<1> QED  BY <1>2, <1>3

(* The first payloads, and what a sequence starts with.                    *)
First(ps, m) == SubSeq(ps, 1, m)
Starts(a, b) == Len(a) <= Len(b) /\ a = SubSeq(b, 1, Len(a))

(* One payload more.                                                       *)
LEMMA FirstNext ==
  ASSUME NEW P, NEW ps \in Seq(P), NEW m \in 0 .. Len(ps)
  PROVE  /\ First(ps, m) \in Seq(P) /\ Len(First(ps, m)) = m
         /\ \A i \in 1 .. m : First(ps, m)[i] = ps[i]
         /\ m < Len(ps) => First(ps, m + 1) = Append(First(ps, m), ps[m + 1])
         /\ m = Len(ps) => First(ps, m) = ps
<1>1. /\ First(ps, m) \in Seq(P) /\ Len(First(ps, m)) = m
      /\ \A i \in 1 .. m : First(ps, m)[i] = ps[i]
  BY SubSeqProperties DEF First
<1>2. m < Len(ps) => First(ps, m + 1) = Append(First(ps, m), ps[m + 1])
  <2> SUFFICES ASSUME m < Len(ps) PROVE First(ps, m + 1) = Append(First(ps, m), ps[m + 1])
    OBVIOUS
  <2>1. /\ First(ps, m + 1) \in Seq(P) /\ Len(First(ps, m + 1)) = m + 1
        /\ \A i \in 1 .. m + 1 : First(ps, m + 1)[i] = ps[i]
    BY SubSeqProperties DEF First
  <2>2. ps[m + 1] \in P
    OBVIOUS
  <2> DEFINE a == Append(First(ps, m), ps[m + 1])
  <2>3. a \in Seq(P) /\ Len(a) = m + 1 /\ \A i \in 1 .. m + 1 : a[i] = ps[i]
    BY <1>1, <2>2
  <2> HIDE DEF a
  <2>4. First(ps, m + 1) = a
    BY <2>1, <2>3, SeqEqual
  <2> QED  BY <2>4 DEF a
<1>3. m = Len(ps) => First(ps, m) = ps
  BY SubSeqFull DEF First
<1> QED  BY <1>1, <1>2, <1>3

(* The texts of one payload more.                                          *)
LEMMA TextsAppend ==
  ASSUME NEW P, NEW ps \in Seq(P), NEW p \in P
  PROVE  /\ TextsOf(ps) \in Seq({q.delta : q \in P})
         /\ TextsOf(Append(ps, p)) =
              IF p.type = "text" THEN Append(TextsOf(ps), p.delta) ELSE TextsOf(ps)
<1> DEFINE n == Len(ps)
           t == Append(ps, p)
           I == {i \in DOMAIN ps : ps[i].type = "text"}
           J == {i \in DOMAIN t : t[i].type = "text"}
           D == {q.delta : q \in P}
           texts == Pick(ps, I)
<1>1. n \in Nat /\ DOMAIN ps = 1 .. n /\ DOMAIN t = 1 .. n + 1 /\ t[n + 1] = p
      /\ \A i \in 1 .. n : t[i] = ps[i]
  OBVIOUS
<1>2. I \in SUBSET (1 .. n) /\ J = IF p.type = "text" THEN I \cup {n + 1} ELSE I
  BY <1>1
<1>3. /\ texts \in Seq(P) /\ Pick(t, I) = texts
      /\ Pick(t, I \cup {n + 1}) = Append(texts, p)
  <2> HIDE DEF I
  <2> QED  BY <1>2, PickAppend
<1>4. TextsOf(ps) = [i \in DOMAIN texts |-> texts[i].delta]
      /\ TextsOf(t) = [i \in DOMAIN Pick(t, J) |-> Pick(t, J)[i].delta]
  BY DEF TextsOf
<1> HIDE DEF I, J, texts
<1>5. TextsOf(ps) \in Seq(D)
  <2>1. Len(texts) \in Nat /\ DOMAIN texts = 1 .. Len(texts)
        /\ \A i \in 1 .. Len(texts) : texts[i] \in P
    BY <1>3
  <2> QED  BY <1>4, <2>1
<1>6. CASE p.type # "text"
  <2>1. J = I
    BY <1>2, <1>6
  <2> QED  BY <1>3, <1>4, <1>5, <1>6, <2>1 DEF t
<1>7. CASE p.type = "text"
  <2>1. J = I \cup {n + 1}
    BY <1>2, <1>7
  <2> DEFINE c == Len(texts)
             a == Append(texts, p)
  <2>2. /\ c \in Nat /\ DOMAIN texts = 1 .. c /\ DOMAIN a = 1 .. c + 1
        /\ \A i \in 1 .. c + 1 : a[i] = IF i <= c THEN texts[i] ELSE p
    BY <1>3
  <2>3. TextsOf(t) = [i \in 1 .. c + 1 |-> a[i].delta]
    BY <1>3, <1>4, <2>1, <2>2
  <2>4. \A i \in 1 .. c + 1 : a[i].delta = IF i <= c THEN texts[i].delta ELSE p.delta
    BY <2>2
  <2>5. TextsOf(t) = [i \in 1 .. c + 1 |-> IF i <= c THEN texts[i].delta ELSE p.delta]
    BY <2>3, <2>4
  <2>6. TextsOf(ps) = [i \in 1 .. c |-> texts[i].delta]
    BY <1>4, <2>2
  <2> HIDE DEF c, a
  <2>7. p.delta \in D /\ Len(TextsOf(ps)) = c
    BY <1>5, <2>2, <2>6
  <2>8. Append(TextsOf(ps), p.delta) = [i \in 1 .. c + 1 |-> IF i <= c THEN texts[i].delta ELSE p.delta]
    BY <1>5, <2>2, <2>6, <2>7
  <2> QED  BY <1>5, <1>7, <2>5, <2>8 DEF t
<1> QED  BY <1>6, <1>7

(* The calls of one payload more.                                          *)
LEMMA CallsAppend ==
  ASSUME NEW P, NEW ps \in Seq(P), NEW p \in P
  PROVE  CallsOf(Append(ps, p)) =
           IF p.type = "call"
             THEN [i \in DOMAIN CallsOf(ps) \cup {p.index} |->
                     IF i # p.index THEN CallsOf(ps)[i]
                     ELSE IF i \in DOMAIN CallsOf(ps) THEN Append(CallsOf(ps)[i], p.part)
                     ELSE <<p.part>>]
             ELSE CallsOf(ps)
<1> DEFINE n == Len(ps)
           t == Append(ps, p)
           K(s) == {s[i].index : i \in {j \in DOMAIN s : s[j].type = "call"}}
           F(s, k) == LET parts == Pick(s, Ours(s, k)) IN [i \in DOMAIN parts |-> parts[i].part]
<1>1. n \in Nat /\ DOMAIN ps = 1 .. n /\ DOMAIN t = 1 .. n + 1 /\ t[n + 1] = p
      /\ \A i \in 1 .. n : t[i] = ps[i] /\ ps[i] \in P
  OBVIOUS
<1>2. CallsOf(ps) = [k \in K(ps) |-> F(ps, k)] /\ CallsOf(t) = [k \in K(t) |-> F(t, k)]
  BY DEF CallsOf
<1>3. K(t) = IF p.type = "call" THEN K(ps) \cup {p.index} ELSE K(ps)
  <2>1. CASE p.type = "call"
    BY <1>1, <2>1
  <2>2. CASE p.type # "call"
    BY <1>1, <2>2
  <2> QED  BY <2>1, <2>2
<1> HIDE DEF t
<1>4. ASSUME NEW k, ~(p.type = "call" /\ p.index = k)
      PROVE  F(t, k) = F(ps, k)
  <2>1. Ours(t, k) = Ours(ps, k) /\ Ours(ps, k) \in SUBSET (1 .. n)
    BY <1>1, <1>4 DEF Ours
  <2> DEFINE O == Ours(ps, k)
  <2>2. Pick(t, O) = Pick(ps, O)
    <3>1. O \in SUBSET (1 .. Len(ps))
      BY <2>1
    <3> HIDE DEF O
    <3>2. /\ Pick(ps, O) \in Seq(P) /\ Pick(Append(ps, p), O) = Pick(ps, O)
          /\ Pick(Append(ps, p), O \cup {Len(ps) + 1}) = Append(Pick(ps, O), p)
      BY ONLY <3>1, PickAppend
    <3> QED  BY <3>2 DEF t
  <2> QED  BY <2>1, <2>2
<1>5. CASE p.type # "call"
  BY <1>2, <1>3, <1>4, <1>5 DEF t
<1>6. CASE p.type = "call"
  <2> DEFINE k == p.index
             parts == Pick(ps, Ours(ps, k))
             D == {q.part : q \in P}
  <2>1. Ours(t, k) = Ours(ps, k) \cup {n + 1} /\ Ours(ps, k) \in SUBSET (1 .. n)
    BY <1>1, <1>6 DEF Ours
  <2>2. parts \in Seq(P) /\ Pick(t, Ours(t, k)) = Append(parts, p)
    <3> DEFINE O == Ours(ps, k)
    <3>1. O \in SUBSET (1 .. Len(ps)) /\ Ours(t, k) = O \cup {Len(ps) + 1} /\ parts = Pick(ps, O)
      BY <2>1
    <3> HIDE DEF O, parts
    <3>2. Pick(ps, O) \in Seq(P) /\ Pick(Append(ps, p), O \cup {Len(ps) + 1}) = Append(Pick(ps, O), p)
      BY <3>1, PickAppend
    <3> QED  BY <3>1, <3>2 DEF t
  <2> DEFINE c == Len(parts)
             a == Append(parts, p)
  <2>3. /\ c \in Nat /\ DOMAIN parts = 1 .. c /\ DOMAIN a = 1 .. c + 1
        /\ \A i \in 1 .. c + 1 : a[i] = IF i <= c THEN parts[i] ELSE p
        /\ \A i \in 1 .. c : parts[i] \in P
    BY <2>2
  <2>4. F(t, k) = [i \in 1 .. c + 1 |-> a[i].part]
    BY <2>2, <2>3
  <2>5. F(ps, k) = [i \in 1 .. c |-> parts[i].part]
    BY <2>3
  <2>6. \A i \in 1 .. c + 1 : a[i].part = IF i <= c THEN parts[i].part ELSE p.part
    BY <2>3
  <2>7. F(t, k) = [i \in 1 .. c + 1 |-> IF i <= c THEN parts[i].part ELSE p.part]
    BY <2>4, <2>6
  <2>8. p.part \in D /\ \A i \in 1 .. c : parts[i].part \in D
    BY <2>3
  <2> HIDE DEF c, a, parts, F, D
  <2>9. F(t, k) = Append(F(ps, k), p.part)
    <3>1. F(ps, k) \in Seq(D) /\ Len(F(ps, k)) = c
      BY <2>3, <2>5, <2>8
    <3> QED  BY <2>3, <2>5, <2>7, <2>8, <3>1
  <2>10. k \notin K(ps) => F(t, k) = <<p.part>>
    <3> SUFFICES ASSUME k \notin K(ps) PROVE F(t, k) = <<p.part>>
      OBVIOUS
    <3>1. Ours(ps, k) = {}
      BY <1>1 DEF Ours
    <3>2. Lists([x \in {} |-> x], 0, {})
      BY DEF Lists
    <3>3. parts = [x \in 1 .. 0 |-> ps[[y \in {} |-> y][x]]]
      BY <3>1, <3>2, PickIs DEF parts
    <3>4. c = 0
      <4>1. DOMAIN parts = 1 .. 0
        BY <3>3
      <4> QED  BY <2>3, <4>1
    <3> QED  BY <2>7, <3>4
  <2> DEFINE calls0 == CallsOf(ps)
  <2>11. DOMAIN calls0 = K(ps) /\ \A x \in K(ps) : calls0[x] = F(ps, x)
    BY <1>2
  <2>12. CallsOf(t) = [x \in K(ps) \cup {k} |-> F(t, x)]
    BY <1>2, <1>3, <1>6
  <2>13. \A x \in K(ps) \cup {k} :
           F(t, x) = IF x # k THEN calls0[x]
                     ELSE IF x \in DOMAIN calls0 THEN Append(calls0[x], p.part) ELSE <<p.part>>
    BY <1>4, <2>9, <2>10, <2>11
  <2> HIDE DEF calls0, K
  <2>14. CallsOf(t) = [x \in DOMAIN calls0 \cup {k} |->
           IF x # k THEN calls0[x]
           ELSE IF x \in DOMAIN calls0 THEN Append(calls0[x], p.part) ELSE <<p.part>>]
    BY <2>11, <2>12, <2>13
  <2> QED  BY <1>6, <2>14 DEF calls0, t
<1> QED  BY <1>5, <1>6

(* What was told stays told.                                               *)
LEMMA TextsGrow ==
  ASSUME NEW P, NEW ps \in Seq(P), NEW m \in 0 .. Len(ps), NEW n \in m .. Len(ps)
  PROVE  Starts(TextsOf(First(ps, m)), TextsOf(First(ps, n)))
<1> DEFINE D == {q.delta : q \in P}
           T(i) == TextsOf(First(ps, i))
           B == {i \in 0 .. n - m : Starts(T(m), T(m + i))}
<1>1. Len(ps) \in Nat /\ m \in Nat /\ n \in Nat /\ n - m \in Nat
  OBVIOUS
<1>2. ASSUME NEW i \in 0 .. Len(ps)
      PROVE  /\ i = 0 \/ i - 1 \in 0 .. Len(ps)
             /\ i # 0 => /\ T(i - 1) \in Seq(D)
                         /\ \/ T(i) = T(i - 1)
                            \/ \E d \in D : T(i) = Append(T(i - 1), d)
  <2> SUFFICES ASSUME i # 0
               PROVE  /\ T(i - 1) \in Seq(D)
                      /\ T(i) = T(i - 1) \/ \E d \in D : T(i) = Append(T(i - 1), d)
    OBVIOUS
  <2>1. i - 1 \in 0 .. Len(ps) /\ i - 1 < Len(ps) /\ (i - 1) + 1 = i /\ ps[i] \in P
    OBVIOUS
  <2>2. First(ps, i - 1) \in Seq(P) /\ First(ps, i) = Append(First(ps, i - 1), ps[i])
    BY <2>1, FirstNext
  <2>3. /\ T(i - 1) \in Seq(D)
        /\ T(i) = IF ps[i].type = "text" THEN Append(T(i - 1), ps[i].delta) ELSE T(i - 1)
    <3> DEFINE a == First(ps, i - 1)
    <3>1. a \in Seq(P) /\ ps[i] \in P /\ T(i - 1) = TextsOf(a) /\ T(i) = TextsOf(Append(a, ps[i]))
      BY <2>1, <2>2
    <3> HIDE DEF a, T
    <3>2. /\ TextsOf(a) \in Seq(D)
          /\ TextsOf(Append(a, ps[i])) =
               IF ps[i].type = "text" THEN Append(TextsOf(a), ps[i].delta) ELSE TextsOf(a)
      BY ONLY <3>1, TextsAppend
    <3> QED  BY <3>1, <3>2
  <2>4. ps[i].delta \in D
    BY <2>1
  <2> QED  BY <2>3, <2>4
<1>3. T(m) \in Seq(D)
  <2>1. First(ps, m) \in Seq(P)
    BY FirstNext
  <2>2. CASE P = {}
    <3>1. Len(ps) = 0
      BY <2>2
    <3>2. First(ps, m) = << >>
      BY <2>1, <2>2
    <3>3. Lists([x \in {} |-> x], 0, {})
      BY DEF Lists
    <3>4. Pick(<< >>, {}) = [x \in 1 .. 0 |-> << >>[[y \in {} |-> y][x]]]
      BY <3>3, PickIs
    <3>5. {i \in DOMAIN << >> : << >>[i].type = "text"} = {}
      OBVIOUS
    <3>6. DOMAIN Pick(<< >>, {}) = {}
      BY <3>4
    <3>7. T(m) = [i \in {} |-> Pick(<< >>, {})[i].delta]
      BY <3>2, <3>5, <3>6 DEF TextsOf
    <3> QED  BY <3>7
  <2>3. CASE P # {}
    <3>1. PICK p \in P : TRUE
      BY <2>3
    <3> QED  BY <2>1, <3>1, TextsAppend
  <2> QED  BY <2>2, <2>3
<1> HIDE DEF T, D
<1>4. \A a \in Seq(D), b \in Seq(D) : \A d \in D : Starts(a, b) => Starts(a, Append(b, d))
  <2> SUFFICES ASSUME NEW a \in Seq(D), NEW b \in Seq(D), NEW d \in D, Starts(a, b)
               PROVE  Starts(a, Append(b, d))
    OBVIOUS
  <2>1. Len(a) \in Nat /\ Len(b) \in Nat /\ Len(a) <= Len(b) /\ a = SubSeq(b, 1, Len(a))
    BY DEF Starts
  <2> DEFINE c == Append(b, d)
             e == SubSeq(c, 1, Len(a))
  <2>2. c \in Seq(D) /\ Len(c) = Len(b) + 1 /\ \A i \in 1 .. Len(b) : c[i] = b[i]
    OBVIOUS
  <2> HIDE DEF c
  <2>3. e \in Seq(D) /\ Len(e) = Len(a) /\ \A i \in 1 .. Len(a) : e[i] = c[i]
    BY <2>1, <2>2, SubSeqProperties
  <2>4. \A i \in 1 .. Len(a) : a[i] = b[i]
    <3> DEFINE h == SubSeq(b, 1, Len(a))
    <3>1. \A i \in 1 .. Len(a) : h[i] = b[i]
      BY <2>1, SubSeqProperties
    <3> QED  BY <2>1, <3>1
  <2> HIDE DEF e
  <2>5. a = e
    BY <2>1, <2>2, <2>3, <2>4, SeqEqual
  <2> QED  BY <2>1, <2>2, <2>5 DEF Starts, e, c
<1>5. 0 \in B
  <2>1. Starts(T(m), T(m))
    BY <1>3, SubSeqFull DEF Starts
  <2>2. m + 0 = m /\ 0 \in 0 .. n - m
    BY <1>1
  <2> QED  BY <2>1, <2>2
<1>6. ASSUME NEW i \in 1 .. n - m, i - 1 \in B PROVE i \in B
  <2>1. m + i \in 0 .. Len(ps) /\ (m + i) - 1 = m + (i - 1) /\ m + i # 0 /\ i \in 0 .. n - m
    OBVIOUS
  <2>2. Starts(T(m), T((m + i) - 1))
    BY <1>6, <2>1
  <2> QED  BY <1>2, <1>3, <1>4, <2>1, <2>2
<1>7. n - m \in B
  <2> HIDE DEF B
  <2>1. 0 .. n - m \subseteq B
    BY <1>1, <1>5, <1>6, UpTo
  <2> QED  BY <1>1, <2>1
<1>8. m + (n - m) = n
  BY <1>1
<1> QED  BY <1>7, <1>8 DEF T

(* Where the answer ends, when [DONE] is not among the first m.             *)
LEMMA UntilIs ==
  ASSUME NEW P, NEW ps \in Seq(P), NEW m \in 0 .. Len(ps), \A i \in 1 .. m : ps[i] # Done
  PROVE  /\ \E e \in m .. Len(ps) : Until(ps) = First(ps, e)
         /\ m = Len(ps) => Until(ps) = First(ps, m)
         /\ m < Len(ps) /\ ps[m + 1] = Done => Until(ps) = First(ps, m)
<1> DEFINE ends == {i \in DOMAIN ps : ps[i] = Done}
<1>1. /\ Len(ps) \in Nat /\ m \in 0 .. Len(ps)
      /\ DOMAIN ps = 1 .. Len(ps) /\ \A i \in ends : i \in m + 1 .. Len(ps)
  OBVIOUS
<1>2. m < Len(ps) /\ ps[m + 1] = Done => m + 1 \in ends
  BY <1>1
<1>3. ends = {} => Until(ps) = First(ps, Len(ps)) /\ Len(ps) \in m .. Len(ps)
  BY <1>1, FirstNext DEF Until
<1> HIDE DEF ends
<1>4. CASE ends = {}
  BY <1>1, <1>3, <1>4, <1>2
<1>5. CASE ends # {}
  <2>1. PICK i \in ends : \A j \in ends : i <= j
    <3>1. ends \in SUBSET Nat
      BY <1>1
    <3> QED  BY <1>5, <3>1, LeastNatural
  <2>2. (CHOOSE x \in ends : \A j \in ends : x <= j) = i
    <3>1. \A x \in ends : x \in Nat
      BY <1>1
    <3>2. \A x \in ends : (\A j \in ends : x <= j) => x = i
      BY <2>1, <3>1
    <3> QED  BY <2>1, <3>2
  <2>3. Until(ps) = First(ps, i - 1)
    BY <1>5, <2>2 DEF Until, First, ends
  <2>4. i \in m + 1 .. Len(ps)
    BY <1>1, <2>1
  <2>5. i - 1 \in m .. Len(ps) /\ m # Len(ps)
    <3>1. m \in Nat /\ Len(ps) \in Nat
      BY ONLY <1>1
    <3> QED  BY ONLY <2>4, <3>1
  <2>6. m < Len(ps) /\ ps[m + 1] = Done => i - 1 = m
    BY <1>1, <1>2, <2>1, <2>4
  <2> QED  BY <2>3, <2>5, <2>6
<1> QED  BY <1>4, <1>5

-------------------------------------------------------------------------------
(* Of the first p tokens of a stream, those left when the returns before a  *)
(* line feed are gone; whether the last one is a return whose line feed is  *)
(* still to come; and where the t-th of those left was.                     *)
CleanCR(p) ==
  4 * (p \div 6) + (IF p % 6 <= 2 THEN p % 6 ELSE IF p % 6 = 3 THEN 2 ELSE 3)
HangsCR(p) == p % 6 \in {3, 5}
PlaceCR(t) ==
  6 * ((t - 1) \div 4)
    + (IF (t - 1) % 4 <= 1 THEN ((t - 1) % 4) + 1 ELSE IF (t - 1) % 4 = 2 THEN 4 ELSE 6)

Clean(p, crlf) == IF crlf THEN CleanCR(p) ELSE p
Hangs(p, crlf) == crlf /\ HangsCR(p)
Place(t, crlf) == IF crlf THEN PlaceCR(t) ELSE t

(* A position in a stream is one of an event, and one in the event.          *)
LEMMA DivideBySix ==
  ASSUME NEW p \in Nat
  PROVE  \E q \in Nat, r \in 0 .. 5 : p = 6 * q + r /\ p \div 6 = q /\ p % 6 = r
<1>1. p \div 6 \in Nat /\ p % 6 \in 0 .. 5 /\ p = 6 * (p \div 6) + (p % 6)
  OBVIOUS
<1> QED  BY <1>1

(* The same where lines end with a line feed alone.                        *)
LEMMA DivideByFour ==
  ASSUME NEW t \in Nat \ {0}
  PROVE  \E q \in Nat, r \in 0 .. 3 : t = 4 * q + r + 1 /\ (t - 1) \div 4 = q /\ (t - 1) % 4 = r
<1>1. /\ (t - 1) \div 4 \in Nat /\ (t - 1) % 4 \in 0 .. 3
      /\ t - 1 = 4 * ((t - 1) \div 4) + ((t - 1) % 4)
  OBVIOUS
<1> QED  BY <1>1

(* Division of a position that is known.                                    *)
LEMMA RemainderIs ==
  ASSUME NEW q \in Nat
  PROVE  /\ \A r \in 0 .. 5 : (6 * q + r) \div 6 = q /\ (6 * q + r) % 6 = r
         /\ \A r \in 0 .. 3 : (4 * q + r) \div 4 = q /\ (4 * q + r) % 4 = r
OBVIOUS

(* What is left of the first tokens, by their position in the event.       *)
LEMMA CleanAt ==
  ASSUME NEW x \in Nat, NEW q \in Nat, NEW r \in 0 .. 5, x = 6 * q + r
  PROVE  /\ CleanCR(x) = 4 * q + (IF r <= 2 THEN r ELSE IF r = 3 THEN 2 ELSE 3)
         /\ HangsCR(x) <=> r \in {3, 5}
<1>1. x \div 6 = q /\ x % 6 = r
  BY RemainderIs
<1> QED  BY <1>1 DEF CleanCR, HangsCR

(* Where a token was, by its position in the event.                        *)
LEMMA PlaceAt ==
  ASSUME NEW x \in Nat, NEW u \in Nat, NEW v \in 0 .. 3, x - 1 = 4 * u + v
  PROVE  PlaceCR(x) = 6 * u + (IF v <= 1 THEN v + 1 ELSE IF v = 2 THEN 4 ELSE 6)
<1>1. (x - 1) \div 4 = u /\ (x - 1) % 4 = v
  BY RemainderIs
<1> QED  BY <1>1 DEF PlaceCR

(* Positions before and after, when lines end with a return.                *)
LEMMA PositionsCRLF ==
  ASSUME NEW p \in Nat, NEW t \in Nat \ {0}
  PROVE  /\ CleanCR(p) \in Nat /\ PlaceCR(t) \in Nat \ {0}
         /\ PlaceCR(t) <= p <=> t <= CleanCR(p)
         /\ CleanCR(PlaceCR(t)) = t /\ ~HangsCR(PlaceCR(t))
         /\ p # 0 /\ ~HangsCR(p) =>
              CleanCR(p) # 0 /\ PlaceCR(CleanCR(p)) = p
         /\ HangsCR(p) =>
              /\ p # 0 /\ ~HangsCR(p - 1) /\ ~HangsCR(p + 1)
              /\ CleanCR(p - 1) = CleanCR(p)
<1>1. PICK q \in Nat, r \in 0 .. 5 : p = 6 * q + r /\ p \div 6 = q /\ p % 6 = r
  BY DivideBySix
<1>2. PICK u \in Nat, v \in 0 .. 3 : t = 4 * u + v + 1 /\ (t - 1) \div 4 = u /\ (t - 1) % 4 = v
  BY DivideByFour
<1> DEFINE c == IF r <= 2 THEN r ELSE IF r = 3 THEN 2 ELSE 3
           h == IF v <= 1 THEN v + 1 ELSE IF v = 2 THEN 4 ELSE 6
<1>3. /\ CleanCR(p) = 4 * q + c /\ PlaceCR(t) = 6 * u + h
      /\ HangsCR(p) <=> r \in {3, 5}
  BY <1>1, <1>2 DEF CleanCR, PlaceCR, HangsCR
<1>4. c \in 0 .. 3 /\ h \in {1, 2, 4, 6} /\ c \in Nat /\ h \in Nat
  OBVIOUS
<1>5. CleanCR(p) \in Nat /\ PlaceCR(t) \in Nat \ {0}
  BY <1>3, <1>4
<1>6. PlaceCR(t) <= p <=> t <= CleanCR(p)
  BY <1>1, <1>2, <1>3
<1>7. CleanCR(PlaceCR(t)) = t /\ ~HangsCR(PlaceCR(t))
  <2>1. CASE v = 3
    <3>1. PlaceCR(t) = 6 * (u + 1) + 0 /\ u + 1 \in Nat /\ 0 \in 0 .. 5
      BY <1>3, <2>1
    <3>2. CleanCR(PlaceCR(t)) = 4 * (u + 1) + 0 /\ ~HangsCR(PlaceCR(t))
      BY <1>5, <3>1, CleanAt
    <3> QED  BY <1>2, <2>1, <3>2
  <2>2. CASE v # 3
    <3>1. h \in 0 .. 5 /\ h = IF v <= 1 THEN v + 1 ELSE 4
      BY <2>2
    <3> HIDE DEF h
    <3>2. /\ CleanCR(PlaceCR(t)) = 4 * u + (IF h <= 2 THEN h ELSE IF h = 3 THEN 2 ELSE 3)
          /\ HangsCR(PlaceCR(t)) <=> h \in {3, 5}
      BY <1>3, <1>5, <3>1, CleanAt
    <3> QED  BY <1>2, <2>2, <3>1, <3>2
  <2> QED  BY <2>1, <2>2
<1>8. p # 0 /\ ~HangsCR(p) => CleanCR(p) # 0 /\ PlaceCR(CleanCR(p)) = p
  <2> SUFFICES ASSUME p # 0, ~HangsCR(p)
               PROVE  CleanCR(p) # 0 /\ PlaceCR(CleanCR(p)) = p
    OBVIOUS
  <2> DEFINE x == CleanCR(p)
  <2>1. CASE r = 0
    <3>1. x \in Nat /\ x - 1 = 4 * (q - 1) + 3 /\ q - 1 \in Nat /\ x # 0
      BY <1>1, <1>3, <1>5, <2>1
    <3> HIDE DEF x
    <3>2. PlaceCR(x) = 6 * (q - 1) + 6
      BY <3>1, PlaceAt
    <3> QED  BY <1>1, <2>1, <3>1, <3>2 DEF x
  <2>2. CASE r \in {1, 2, 4}
    <3> DEFINE w == IF r = 4 THEN 2 ELSE r - 1
    <3>1. w \in 0 .. 3 /\ x \in Nat /\ x - 1 = 4 * q + w /\ x # 0
      BY <1>3, <1>5, <2>2
    <3>2. r = IF w <= 1 THEN w + 1 ELSE IF w = 2 THEN 4 ELSE 6
      BY <2>2
    <3> HIDE DEF x, w
    <3>3. PlaceCR(x) = 6 * q + (IF w <= 1 THEN w + 1 ELSE IF w = 2 THEN 4 ELSE 6)
      BY <3>1, PlaceAt
    <3> QED  BY <1>1, <3>1, <3>2, <3>3 DEF x
  <2> QED  BY <1>3, <2>1, <2>2
<1>9. HangsCR(p) =>
        /\ p # 0 /\ ~HangsCR(p - 1) /\ ~HangsCR(p + 1)
        /\ CleanCR(p - 1) = CleanCR(p)
  <2> SUFFICES ASSUME HangsCR(p)
               PROVE  /\ p # 0 /\ ~HangsCR(p - 1) /\ ~HangsCR(p + 1)
                      /\ CleanCR(p - 1) = CleanCR(p)
    OBVIOUS
  <2>1. r \in {3, 5} /\ r - 1 \in 0 .. 5 /\ p - 1 = 6 * q + (r - 1)
    BY <1>1, <1>3
  <2>2. (p - 1) \div 6 = q /\ (p - 1) % 6 = r - 1
    BY <2>1, RemainderIs
  <2>3. (p + 1) % 6 \in {0, 4}
    <3>1. CASE r = 3
      <4>1. p + 1 = 6 * q + 4
        BY <1>1, <3>1
      <4> QED  BY <4>1, RemainderIs
    <3>2. CASE r = 5
      <4>1. p + 1 = 6 * (q + 1) + 0
        BY <1>1, <3>2
      <4>2. (6 * (q + 1) + 0) % 6 = 0
        BY RemainderIs
      <4> QED  BY <4>1, <4>2
    <3> QED  BY <2>1, <3>1, <3>2
  <2> QED  BY <1>1, <1>3, <2>1, <2>2, <2>3 DEF HangsCR, CleanCR
<1> QED  BY <1>5, <1>6, <1>7, <1>8, <1>9

(* The same for both line ends.                                             *)
LEMMA Positions ==
  ASSUME NEW crlf \in BOOLEAN, NEW p \in Nat, NEW t \in Nat \ {0}
  PROVE  /\ Clean(p, crlf) \in Nat /\ Place(t, crlf) \in Nat \ {0}
         /\ Place(t, crlf) <= p <=> t <= Clean(p, crlf)
         /\ Clean(Place(t, crlf), crlf) = t /\ ~Hangs(Place(t, crlf), crlf)
         /\ p # 0 /\ ~Hangs(p, crlf) =>
              Clean(p, crlf) # 0 /\ Place(Clean(p, crlf), crlf) = p
         /\ Hangs(p, crlf) =>
              /\ p # 0 /\ ~Hangs(p - 1, crlf) /\ ~Hangs(p + 1, crlf)
              /\ Clean(p - 1, crlf) = Clean(p, crlf)
<1>1. CASE ~crlf
  BY <1>1 DEF Clean, Hangs, Place
<1>2. CASE crlf
  BY <1>2, PositionsCRLF DEF Clean, Hangs, Place
<1> QED  BY <1>1, <1>2

(* The tokens of payloads, and a body whose lines end with a line feed.     *)
Tokens(P) == {NL, CR} \cup {Half(p, k) : p \in P, k \in {1, 2}}
Plain(ps) == Stream(ps, FALSE)

(* Tokens of different kinds are different.                                *)
LEMMA TokenFacts ==
  /\ CR # NL /\ CR[1] = "cr" /\ NL[1] = "nl"
  /\ \A p, k : /\ Half(p, k) # CR /\ Half(p, k) # NL
               /\ Half(p, k)[1] = "half" /\ Half(p, k)[2] = p
BY DEF CR, NL, Half

(* The tokens of one event.                                                *)
LEMMA EventIs ==
  ASSUME NEW p
  PROVE  /\ LET e == Event(p, FALSE)
            IN  e[1] = Half(p, 1) /\ e[2] = Half(p, 2) /\ e[3] = NL /\ e[4] = NL
         /\ LET e == Event(p, TRUE)
            IN  /\ e[1] = Half(p, 1) /\ e[2] = Half(p, 2)
                /\ e[3] = CR /\ e[4] = NL /\ e[5] = CR /\ e[6] = NL
<1> DEFINE a == <<Half(p, 1), Half(p, 2)>>
           b == <<NL, NL>>
           c == <<CR, NL, CR, NL>>
           T == Tokens({p})
<1>1. a \in Seq(T) /\ b \in Seq(T) /\ c \in Seq(T)
  BY DEF Tokens
<1>2. Event(p, FALSE) = a \o b /\ Event(p, TRUE) = a \o c
  BY DEF Event, Halves
<1>3. /\ Len(a) = 2 /\ a[1] = Half(p, 1) /\ a[2] = Half(p, 2)
      /\ Len(b) = 2 /\ b[1] = NL /\ b[2] = NL
      /\ Len(c) = 4 /\ c[1] = CR /\ c[2] = NL /\ c[3] = CR /\ c[4] = NL
  OBVIOUS
<1> HIDE DEF a, b, c, T
<1> DEFINE d == a \o b
           e == a \o c
<1>4. /\ \A i \in 1 .. Len(a) + Len(b) : d[i] = IF i <= Len(a) THEN a[i] ELSE b[i - Len(a)]
      /\ \A i \in 1 .. Len(a) + Len(c) : e[i] = IF i <= Len(a) THEN a[i] ELSE c[i - Len(a)]
  BY <1>1, ConcatProperties
<1> HIDE DEF d, e
<1>5. d[1] = a[1] /\ d[2] = a[2] /\ d[3] = b[1] /\ d[4] = b[2]
  BY ONLY <1>3, <1>4
<1>6. e[1] = a[1] /\ e[2] = a[2] /\ e[3] = c[1] /\ e[4] = c[2] /\ e[5] = c[3] /\ e[6] = c[4]
  BY ONLY <1>3, <1>4
<1> QED  BY <1>2, <1>3, <1>5, <1>6 DEF d, e

(* The tokens of a stream, event by event.                                 *)
LEMMA StreamLF ==
  ASSUME NEW P, NEW ps \in Seq(P)
  PROVE  /\ Plain(ps) \in Seq(Tokens(P)) /\ Len(Plain(ps)) = 4 * Len(ps)
         /\ \A q \in 0 .. Len(ps) - 1 :
              /\ Plain(ps)[4 * q + 1] = Half(ps[q + 1], 1)
              /\ Plain(ps)[4 * q + 2] = Half(ps[q + 1], 2)
              /\ Plain(ps)[4 * q + 3] = NL
              /\ Plain(ps)[4 * q + 4] = NL
<1> DEFINE n == Len(ps)
           S == Plain(ps)
           F(i) == Event(ps[((i - 1) \div 4) + 1], FALSE)[((i - 1) % 4) + 1]
<1>1. EventLength(FALSE) = 4
  BY DEF EventLength
<1>2. S = [i \in 1 .. 4 * n |-> F(i)]
  BY <1>1 DEF Stream, Plain
<1>3. n \in Nat /\ \A q \in 0 .. n - 1 : ps[q + 1] \in P
  OBVIOUS
<1>4. ASSUME NEW q \in 0 .. n - 1
      PROVE  /\ S[4 * q + 1] = Half(ps[q + 1], 1)
             /\ S[4 * q + 2] = Half(ps[q + 1], 2)
             /\ S[4 * q + 3] = NL
             /\ S[4 * q + 4] = NL
  <2> DEFINE e == Event(ps[q + 1], FALSE)
  <2>1. ASSUME NEW r \in 0 .. 3
        PROVE  S[4 * q + r + 1] = e[r + 1]
    <3>1. q \in Nat /\ 4 * q + r + 1 \in 1 .. 4 * n /\ (4 * q + r + 1) - 1 = 4 * q + r
      BY <1>3
    <3>2. (4 * q + r) \div 4 = q /\ (4 * q + r) % 4 = r
      BY <3>1, RemainderIs
    <3> DEFINE x == 4 * q + r + 1
    <3>3. x \in 1 .. 4 * n /\ x - 1 = 4 * q + r
      BY <3>1
    <3> HIDE DEF x
    <3>4. ((x - 1) \div 4) + 1 = q + 1 /\ ((x - 1) % 4) + 1 = r + 1
      BY <3>2, <3>3
    <3>5. F(x) = e[r + 1]
      BY <3>4
    <3> HIDE DEF F, e
    <3>6. S[x] = e[r + 1]
      BY <1>2, <3>3, <3>5
    <3> QED  BY <3>6 DEF x
  <2>2. e[1] = Half(ps[q + 1], 1) /\ e[2] = Half(ps[q + 1], 2) /\ e[3] = NL /\ e[4] = NL
    BY EventIs
  <2> HIDE DEF e, S
  <2>3. S[4 * q + 0 + 1] = e[0 + 1] /\ S[4 * q + 1 + 1] = e[1 + 1]
        /\ S[4 * q + 2 + 1] = e[2 + 1] /\ S[4 * q + 3 + 1] = e[3 + 1]
    BY <2>1
  <2>4. /\ 4 * q + 0 + 1 = 4 * q + 1 /\ 4 * q + 1 + 1 = 4 * q + 2
        /\ 4 * q + 2 + 1 = 4 * q + 3 /\ 4 * q + 3 + 1 = 4 * q + 4
        /\ 0 + 1 = 1 /\ 1 + 1 = 2 /\ 2 + 1 = 3 /\ 3 + 1 = 4
    BY <1>3
  <2> QED  BY <2>2, <2>3, <2>4
<1>5. ASSUME NEW i \in 1 .. 4 * n
      PROVE  S[i] \in Tokens(P)
  <2>1. i \in Nat \ {0}
    BY <1>3
  <2>2. PICK q \in Nat, r \in 0 .. 3 : i = 4 * q + r + 1
    BY <2>1, DivideByFour
  <2>3. q \in 0 .. n - 1 /\ i \in {4 * q + 1, 4 * q + 2, 4 * q + 3, 4 * q + 4}
    BY <1>3, <2>2
  <2> HIDE DEF S
  <2>4. S[i] \in {Half(ps[q + 1], 1), Half(ps[q + 1], 2), NL}
    BY <1>4, <2>3
  <2> QED  BY <1>3, <2>3, <2>4 DEF Tokens
<1>6. S \in Seq(Tokens(P)) /\ Len(S) = 4 * n
  <2> HIDE DEF F
  <2>1. 4 * n \in Nat
    BY <1>3
  <2> QED  BY <1>2, <1>5, <2>1
<1> QED  BY <1>4, <1>6

(* The same when lines end with a return and a line feed.                  *)
LEMMA StreamCRLF ==
  ASSUME NEW P, NEW ps \in Seq(P)
  PROVE  LET S == Stream(ps, TRUE)
         IN  /\ S \in Seq(Tokens(P)) /\ Len(S) = 6 * Len(ps)
             /\ \A q \in 0 .. Len(ps) - 1 :
                  /\ S[6 * q + 1] = Half(ps[q + 1], 1)
                  /\ S[6 * q + 2] = Half(ps[q + 1], 2)
                  /\ S[6 * q + 3] = CR
                  /\ S[6 * q + 4] = NL
                  /\ S[6 * q + 5] = CR
                  /\ S[6 * q + 6] = NL
<1> DEFINE n == Len(ps)
           S == Stream(ps, TRUE)
           F(i) == Event(ps[((i - 1) \div 6) + 1], TRUE)[((i - 1) % 6) + 1]
<1>1. EventLength(TRUE) = 6
  BY DEF EventLength
<1>2. S = [i \in 1 .. 6 * n |-> F(i)]
  BY <1>1 DEF Stream
<1>3. n \in Nat /\ \A q \in 0 .. n - 1 : ps[q + 1] \in P
  OBVIOUS
<1>4. ASSUME NEW q \in 0 .. n - 1
      PROVE  /\ S[6 * q + 1] = Half(ps[q + 1], 1)
             /\ S[6 * q + 2] = Half(ps[q + 1], 2)
             /\ S[6 * q + 3] = CR
             /\ S[6 * q + 4] = NL
             /\ S[6 * q + 5] = CR
             /\ S[6 * q + 6] = NL
  <2> DEFINE e == Event(ps[q + 1], TRUE)
  <2>1. ASSUME NEW r \in 0 .. 5
        PROVE  S[6 * q + r + 1] = e[r + 1]
    <3>1. q \in Nat /\ 6 * q + r + 1 \in 1 .. 6 * n /\ (6 * q + r + 1) - 1 = 6 * q + r
      BY <1>3
    <3>2. (6 * q + r) \div 6 = q /\ (6 * q + r) % 6 = r
      BY <3>1, RemainderIs
    <3> DEFINE x == 6 * q + r + 1
    <3>3. x \in 1 .. 6 * n /\ x - 1 = 6 * q + r
      BY <3>1
    <3> HIDE DEF x
    <3>4. ((x - 1) \div 6) + 1 = q + 1 /\ ((x - 1) % 6) + 1 = r + 1
      BY <3>2, <3>3
    <3>5. F(x) = e[r + 1]
      BY <3>4
    <3> HIDE DEF F, e
    <3>6. S[x] = e[r + 1]
      BY <1>2, <3>3, <3>5
    <3> QED  BY <3>6 DEF x
  <2>2. /\ e[1] = Half(ps[q + 1], 1) /\ e[2] = Half(ps[q + 1], 2)
        /\ e[3] = CR /\ e[4] = NL /\ e[5] = CR /\ e[6] = NL
    BY EventIs
  <2> HIDE DEF e, S
  <2>3. S[6 * q + 0 + 1] = e[0 + 1] /\ S[6 * q + 1 + 1] = e[1 + 1]
        /\ S[6 * q + 2 + 1] = e[2 + 1] /\ S[6 * q + 3 + 1] = e[3 + 1]
        /\ S[6 * q + 4 + 1] = e[4 + 1] /\ S[6 * q + 5 + 1] = e[5 + 1]
    BY <2>1
  <2>4. /\ 6 * q + 0 + 1 = 6 * q + 1 /\ 6 * q + 1 + 1 = 6 * q + 2
        /\ 6 * q + 2 + 1 = 6 * q + 3 /\ 6 * q + 3 + 1 = 6 * q + 4
        /\ 6 * q + 4 + 1 = 6 * q + 5 /\ 6 * q + 5 + 1 = 6 * q + 6
        /\ 0 + 1 = 1 /\ 1 + 1 = 2 /\ 2 + 1 = 3 /\ 3 + 1 = 4 /\ 4 + 1 = 5 /\ 5 + 1 = 6
    BY <1>3
  <2> QED  BY <2>2, <2>3, <2>4
<1>5. ASSUME NEW i \in 1 .. 6 * n
      PROVE  S[i] \in Tokens(P)
  <2>1. i - 1 \in Nat
    BY <1>3
  <2>2. PICK q \in Nat, r \in 0 .. 5 : i - 1 = 6 * q + r
    BY <2>1, DivideBySix
  <2>3. q \in 0 .. n - 1
        /\ i \in {6 * q + 1, 6 * q + 2, 6 * q + 3, 6 * q + 4, 6 * q + 5, 6 * q + 6}
    BY <1>3, <2>2
  <2> HIDE DEF S
  <2>4. S[i] \in {Half(ps[q + 1], 1), Half(ps[q + 1], 2), NL, CR}
    BY <1>4, <2>3
  <2> QED  BY <1>3, <2>3, <2>4 DEF Tokens
<1>6. S \in Seq(Tokens(P)) /\ Len(S) = 6 * n
  <2> DEFINE k == 6 * n
  <2> HIDE DEF F, S
  <2>1. k \in Nat
    BY <1>3
  <2> HIDE DEF k
  <2>2. S \in [1 .. k -> Tokens(P)]
    BY <1>2, <1>5 DEF k
  <2>3. S \in Seq(Tokens(P)) /\ Len(S) = k
    BY <2>1, <2>2
  <2> QED  BY <2>3 DEF k
<1> QED  BY <1>4, <1>6

(* A stream of either kind against the plain one.                          *)
LEMMA StreamIs ==
  ASSUME NEW P, NEW ps \in Seq(P), NEW crlf \in BOOLEAN
  PROVE  LET S == Stream(ps, crlf)
         IN  /\ S \in Seq(Tokens(P)) /\ Len(S) = EventLength(crlf) * Len(ps)
             /\ Clean(Len(S), crlf) = 4 * Len(ps) /\ ~Hangs(Len(S), crlf)
             /\ \A p \in 1 .. Len(S) :
                  IF Hangs(p, crlf)
                    THEN S[p] = CR /\ p + 1 \in 1 .. Len(S) /\ S[p + 1] = NL
                    ELSE Clean(p, crlf) \in 1 .. 4 * Len(ps) /\ S[p] = Plain(ps)[Clean(p, crlf)]
             /\ \A t \in 1 .. 4 * Len(ps) : Plain(ps)[t] # CR
<1> DEFINE n == Len(ps)
<1>1. n \in Nat
  OBVIOUS
<1>2. \A t \in 1 .. 4 * n : Plain(ps)[t] # CR
  <2> SUFFICES ASSUME NEW t \in 1 .. 4 * n PROVE Plain(ps)[t] # CR
    OBVIOUS
  <2>1. t \in Nat \ {0}
    BY <1>1
  <2>2. PICK q \in Nat, r \in 0 .. 3 : t = 4 * q + r + 1
    BY <2>1, DivideByFour
  <2>3. q \in 0 .. n - 1 /\ t \in {4 * q + 1, 4 * q + 2, 4 * q + 3, 4 * q + 4}
    BY <1>1, <2>2
  <2>4. Plain(ps)[t] \in {Half(ps[q + 1], 1), Half(ps[q + 1], 2), NL}
    BY <2>3, StreamLF
  <2> QED  BY <2>4, TokenFacts
<1>3. CASE crlf = FALSE
  <2> DEFINE S == Plain(ps)
  <2>1. /\ S \in Seq(Tokens(P)) /\ Len(S) = 4 * n
        /\ Stream(ps, crlf) = S /\ EventLength(crlf) = 4
    BY <1>3, StreamLF DEF Plain, EventLength
  <2>2. \A p : Clean(p, crlf) = p /\ ~Hangs(p, crlf)
    BY <1>3 DEF Clean, Hangs
  <2> HIDE DEF S
  <2>3. \A p \in 1 .. Len(S) : p \in 1 .. 4 * Len(ps)
    BY <2>1
  <2> QED  BY <1>2, <2>1, <2>2, <2>3 DEF S
<1>4. CASE crlf = TRUE
  <2> DEFINE S == Stream(ps, TRUE)
  <2>1. /\ S \in Seq(Tokens(P)) /\ Len(S) = 6 * n
        /\ Stream(ps, crlf) = S /\ EventLength(crlf) = 6
    BY <1>4, StreamCRLF DEF EventLength
  <2>2. \A p : Clean(p, crlf) = CleanCR(p) /\ (Hangs(p, crlf) <=> HangsCR(p))
    BY <1>4 DEF Clean, Hangs
  <2>3. ASSUME NEW p \in 1 .. 6 * n
        PROVE  IF HangsCR(p)
                 THEN S[p] = CR /\ p + 1 \in 1 .. 6 * n /\ S[p + 1] = NL
                 ELSE CleanCR(p) \in 1 .. 4 * n /\ S[p] = Plain(ps)[CleanCR(p)]
    <3>1. p - 1 \in Nat
      BY <1>1
    <3>2. PICK q \in Nat, r \in 0 .. 5 : p - 1 = 6 * q + r
      BY <3>1, DivideBySix
    <3>3. q \in 0 .. n - 1 /\ p = 6 * q + (r + 1) /\ p \in Nat
      BY <1>1, <3>2
    <3>4. /\ S[6 * q + 1] = Half(ps[q + 1], 1) /\ S[6 * q + 2] = Half(ps[q + 1], 2)
          /\ S[6 * q + 3] = CR /\ S[6 * q + 4] = NL /\ S[6 * q + 5] = CR /\ S[6 * q + 6] = NL
      BY <3>3, StreamCRLF
    <3>5. /\ Plain(ps)[4 * q + 1] = Half(ps[q + 1], 1) /\ Plain(ps)[4 * q + 2] = Half(ps[q + 1], 2)
          /\ Plain(ps)[4 * q + 3] = NL /\ Plain(ps)[4 * q + 4] = NL
      BY <3>3, StreamLF
    <3> HIDE DEF S
    <3>6. CASE r = 5
      <4>1. p = 6 * (q + 1) + 0 /\ q + 1 \in Nat /\ 0 \in 0 .. 5
        BY <3>3, <3>6
      <4> DEFINE z == q + 1
      <4>2. CleanCR(p) = 4 * z + 0 /\ ~HangsCR(p)
        <5>1. z \in Nat /\ p = 6 * z + 0 /\ p \in Nat /\ 0 \in 0 .. 5
          BY <3>3, <4>1
        <5> HIDE DEF z
        <5>2. /\ CleanCR(p) = 4 * z + (IF 0 <= 2 THEN 0 ELSE IF 0 = 3 THEN 2 ELSE 3)
              /\ HangsCR(p) <=> 0 \in {3, 5}
          BY <5>1, CleanAt
        <5> QED  BY <5>2
      <4>3. CleanCR(p) = 4 * q + 4 /\ p = 6 * q + 6 /\ CleanCR(p) \in 1 .. 4 * n
        BY <1>1, <3>3, <3>6, <4>2
      <4> QED  BY <3>4, <3>5, <4>2, <4>3
    <3>7. CASE r # 5
      <4>1. r + 1 \in 0 .. 5
        BY <3>7
      <4>2. /\ CleanCR(p) = 4 * q + (IF r + 1 <= 2 THEN r + 1 ELSE IF r + 1 = 3 THEN 2 ELSE 3)
            /\ HangsCR(p) <=> r + 1 \in {3, 5}
        BY <3>3, <4>1, CleanAt
      <4>3. /\ \/ r = 0 /\ p = 6 * q + 1 /\ CleanCR(p) = 4 * q + 1
               \/ r = 1 /\ p = 6 * q + 2 /\ CleanCR(p) = 4 * q + 2
               \/ r = 2 /\ p = 6 * q + 3 /\ p + 1 = 6 * q + 4
               \/ r = 3 /\ p = 6 * q + 4 /\ CleanCR(p) = 4 * q + 3
               \/ r = 4 /\ p = 6 * q + 5 /\ p + 1 = 6 * q + 6
            /\ HangsCR(p) <=> r \in {2, 4}
            /\ CleanCR(p) \in 1 .. 4 * n /\ p + 1 \in 1 .. 6 * n
        BY <1>1, <3>3, <3>7, <4>2
      <4> HIDE DEF n
      <4>4. CASE r \in {2, 4}
        <5>1. HangsCR(p) /\ p + 1 \in 1 .. 6 * n
          BY <4>3, <4>4
        <5>2. \/ p = 6 * q + 3 /\ p + 1 = 6 * q + 4
              \/ p = 6 * q + 5 /\ p + 1 = 6 * q + 6
          BY <4>3, <4>4
        <5>3. S[p] = CR /\ S[p + 1] = NL
          BY <3>4, <5>2
        <5> QED  BY <5>1, <5>3
      <4>5. CASE r \notin {2, 4}
        BY <3>4, <3>5, <4>3, <4>5
      <4> QED  BY <4>4, <4>5
    <3> QED  BY <3>6, <3>7
  <2>4. CleanCR(6 * n) = 4 * n /\ ~HangsCR(6 * n)
    <3>1. 6 * n = 6 * n + 0 /\ 6 * n \in Nat /\ 0 \in 0 .. 5
      BY <1>1
    <3>2. CleanCR(6 * n) = 4 * n + 0 /\ ~HangsCR(6 * n)
      BY <1>1, <3>1, CleanAt
    <3> QED  BY <1>1, <3>2
  <2> HIDE DEF S
  <2> QED  BY <1>2, <2>1, <2>2, <2>3, <2>4
<1> QED  BY <1>3, <1>4

-------------------------------------------------------------------------------
(* What the buffer holds once p tokens were read and m events taken out.    *)
Left(ps, m, p, crlf) ==
  [k \in 1 .. (Clean(p, crlf) - 4 * m) + (IF Hangs(p, crlf) THEN 1 ELSE 0) |->
     IF k <= Clean(p, crlf) - 4 * m THEN Plain(ps)[4 * m + k] ELSE CR]

(* A chunk more, wherever it was cut.                                      *)
LEMMA JoinedIs ==
  ASSUME NEW P, NEW ps \in Seq(P), NEW crlf \in BOOLEAN, NEW m \in Nat,
         NEW p \in Nat, NEW n \in Nat, p + n <= Len(Stream(ps, crlf)), 4 * m <= Clean(p, crlf)
  PROVE  Normal(Left(ps, m, p, crlf) \o SubSeq(Stream(ps, crlf), p + 1, p + n))
           = Left(ps, m, p + n, crlf)
<1> DEFINE S == Stream(ps, crlf)
           F == Plain(ps)
           T == Tokens(P)
           cl(q) == Clean(q, crlf)
           hg(q) == Hangs(q, crlf)
           pl(t) == Place(t, crlf)
           d == 4 * m
           w == 4 * Len(ps)
           b == IF hg(p) THEN p - 1 ELSE p
           z == p + n
           a == cl(p) - d
           c == cl(z) - d
           final == c + (IF hg(z) THEN 1 ELSE 0)
           old == Left(ps, m, p, crlf)
           chunk == SubSeq(S, p + 1, z)
           x == old \o chunk
           len == a + (z - b)
           I == {i \in DOMAIN x : ~(x[i] = CR /\ i < Len(x) /\ x[i + 1] = NL)}
           f == [k \in 1 .. final |-> IF k <= a THEN k
                                     ELSE IF k <= c THEN a + (pl(d + k) - b) ELSE len]
<1>1. /\ \A q \in Nat : cl(q) \in Nat
      /\ \A t \in Nat \ {0} : pl(t) \in Nat \ {0} /\ cl(pl(t)) = t /\ ~hg(pl(t))
      /\ \A q \in Nat : \A t \in Nat \ {0} : pl(t) <= q <=> t <= cl(q)
      /\ \A q \in Nat : q # 0 /\ ~hg(q) => cl(q) \in Nat \ {0} /\ pl(cl(q)) = q
      /\ \A q \in Nat : hg(q) => q # 0 /\ ~hg(q - 1) /\ cl(q - 1) = cl(q)
  <2>1. 1 \in Nat \ {0} /\ 0 \in Nat
    OBVIOUS
  <2>2. \A q \in Nat : \A t \in Nat \ {0} :
          /\ cl(q) \in Nat /\ pl(t) \in Nat \ {0}
          /\ pl(t) <= q <=> t <= cl(q)
          /\ cl(pl(t)) = t /\ ~hg(pl(t))
          /\ q # 0 /\ ~hg(q) => cl(q) # 0 /\ pl(cl(q)) = q
          /\ hg(q) => q # 0 /\ ~hg(q - 1) /\ ~hg(q + 1) /\ cl(q - 1) = cl(q)
    BY Positions
  <2> HIDE DEF cl, hg, pl
  <2> QED  BY ONLY <2>1, <2>2
<1>2. /\ S \in Seq(T) /\ Len(S) \in Nat /\ cl(Len(S)) = w /\ ~hg(Len(S))
      /\ \A q \in 1 .. Len(S) :
           IF hg(q) THEN S[q] = CR /\ q + 1 \in 1 .. Len(S) /\ S[q + 1] = NL
           ELSE cl(q) \in 1 .. w /\ S[q] = F[cl(q)]
      /\ \A t \in 1 .. w : F[t] # CR
      /\ F \in Seq(T) /\ Len(F) = w
  BY StreamIs, StreamLF
<1>3. /\ d \in Nat /\ w \in Nat /\ z \in Nat /\ z <= Len(S) /\ p <= z /\ d <= cl(p)
      /\ n = z - p /\ CR # NL /\ CR \in T
  BY TokenFacts DEF Tokens
<1> HIDE DEF S, F, cl, hg, pl, d, w, z
<1>4. \A q \in Nat : cl(q) \in Nat
  BY <1>1
<1>5. d \in Nat /\ d <= cl(p) /\ p \in Nat
  BY <1>3
<1>6. /\ b \in Nat /\ b <= p /\ ~hg(b) /\ cl(b) = d + a /\ a \in Nat
      /\ a + (IF hg(p) THEN 1 ELSE 0) = a + (p - b) /\ p - b \in {0, 1}
      /\ p # b => hg(p) /\ p = b + 1
  <2>1. cl(p) \in Nat /\ cl(p) = d + a /\ a \in Nat
    <3>1. cl(p) \in Nat
      BY <1>4
    <3> QED  BY <1>5, <3>1
  <2>2. CASE hg(p)
    <3>1. p # 0 /\ ~hg(p - 1) /\ cl(p - 1) = cl(p)
      BY <1>1, <2>2
    <3> QED  BY <2>1, <2>2, <3>1
  <2>3. CASE ~hg(p)
    BY <2>1, <2>3
  <2> QED  BY <2>2, <2>3
<1>7. \A q, r \in Nat : q <= r => cl(q) <= cl(r)
  <2> SUFFICES ASSUME NEW q \in Nat, NEW r \in Nat, q <= r PROVE cl(q) <= cl(r)
    OBVIOUS
  <2>1. cl(q) \in Nat /\ cl(r) \in Nat
    BY <1>1
  <2>2. CASE cl(q) = 0
    BY <2>1, <2>2
  <2>3. CASE cl(q) # 0
    <3> DEFINE t == cl(q)
    <3>1. t \in Nat \ {0} /\ t <= cl(q)
      BY <2>1, <2>3
    <3> HIDE DEF t
    <3>2. pl(t) <= q /\ pl(t) \in Nat
      BY <1>1, <3>1
    <3>3. pl(t) <= r
      BY <3>2
    <3>4. t <= cl(r)
      BY <1>1, <3>1, <3>3
    <3> QED  BY <3>4 DEF t
  <2> QED  BY <2>2, <2>3
<1>8. c \in Nat /\ a <= c /\ d + c <= w /\ cl(z) = d + c
  <2>1. cl(b) <= cl(z) /\ cl(z) <= cl(Len(S)) /\ cl(z) \in Nat
    <3>1. b <= z
      BY <1>3, <1>6
    <3> HIDE DEF b
    <3> QED  BY <1>1, <1>2, <1>3, <1>6, <1>7, <3>1
  <2> QED  BY <1>2, <1>3, <1>6, <2>1
<1>9. /\ x \in Seq(T) /\ Len(x) = len /\ len \in Nat
      /\ \A i \in 1 .. a : x[i] = F[d + i] /\ d + i \in 1 .. w
      /\ \A i \in 1 .. len : i > a => b + (i - a) \in 1 .. z /\ x[i] = S[b + (i - a)]
  <2>1. old = [k \in 1 .. a + (IF hg(p) THEN 1 ELSE 0) |-> IF k <= a THEN F[d + k] ELSE CR]
    BY DEF Left, cl, hg, F, d
  <2>2. \A k \in 1 .. a : d + k \in 1 .. w
    BY <1>3, <1>6, <1>8
  <2>9. b <= p /\ p <= z /\ n = z - p /\ n \in Nat
    BY <1>3, <1>6
  <2>3. old \in Seq(T) /\ Len(old) = a + (p - b)
    <3> DEFINE e == a + (IF hg(p) THEN 1 ELSE 0)
    <3>1. e \in Nat /\ e = a + (p - b)
      BY <1>6
    <3>2. \A k \in 1 .. e : (IF k <= a THEN F[d + k] ELSE CR) \in T
      BY <1>2, <1>3, <1>6, <2>2
    <3> HIDE DEF e
    <3>3. old \in [1 .. e -> T]
      BY <2>1, <3>2 DEF e
    <3> HIDE DEF old
    <3>4. old \in Seq(T) /\ Len(old) = e
      BY <3>1, <3>3
    <3> QED  BY <3>1, <3>4
  <2>4. /\ chunk \in Seq(T) /\ Len(chunk) = n
        /\ \A i \in 1 .. n : chunk[i] = S[p + i]
    <3>1. \A i \in p + 1 .. z : S[i] \in T
      BY <1>2, <1>3
    <3>4. p + 1 \in Int /\ z \in Int
      BY <1>3
    <3>2. /\ chunk \in Seq(T) /\ Len(chunk) = IF p + 1 <= z THEN z - (p + 1) + 1 ELSE 0
          /\ \A i \in 1 .. z - (p + 1) + 1 : chunk[i] = S[(p + 1) + i - 1]
      BY <3>1, <3>4, SubSeqProperties
    <3>3. /\ z - (p + 1) + 1 = n /\ \A i \in 1 .. n : (p + 1) + i - 1 = p + i
          /\ n = IF p + 1 <= z THEN z - (p + 1) + 1 ELSE 0
      BY <1>3
    <3> HIDE DEF chunk
    <3> QED  BY <3>2, <3>3
  <2> HIDE DEF old, chunk
  <2>5. /\ x \in Seq(T) /\ Len(x) = (a + (p - b)) + n
        /\ \A i \in 1 .. (a + (p - b)) + n :
             x[i] = IF i <= a + (p - b) THEN old[i] ELSE chunk[i - (a + (p - b))]
    <3>1. /\ old \o chunk \in Seq(T) /\ Len(old \o chunk) = Len(old) + Len(chunk)
          /\ \A i \in 1 .. Len(old) + Len(chunk) :
               (old \o chunk)[i] = IF i <= Len(old) THEN old[i] ELSE chunk[i - Len(old)]
      BY ONLY <2>3, <2>4, ConcatProperties
    <3> HIDE DEF x
    <3> QED  BY <2>3, <2>4, <3>1 DEF x
  <2>6. (a + (p - b)) + n = len /\ len \in Nat
    <3> HIDE DEF a, b
    <3> QED  BY <1>3, <1>6
  <2> HIDE DEF x
  <2>7. \A i \in 1 .. a : x[i] = F[d + i]
    <3>1. \A i \in 1 .. a : i \in 1 .. (a + (p - b)) + n /\ i <= a + (p - b)
      BY <1>6
    <3>2. \A i \in 1 .. a : old[i] = F[d + i]
      BY <1>6, <2>1
    <3> QED  BY <2>5, <3>1, <3>2
  <2>8. ASSUME NEW i \in 1 .. len, i > a
        PROVE  b + (i - a) \in 1 .. z /\ x[i] = S[b + (i - a)]
    <3>1. b + (i - a) \in 1 .. z
      BY <1>3, <1>6, <2>8
    <3>2. CASE i <= a + (p - b)
      <4>1. hg(p) /\ i = a + 1 /\ b + (i - a) = p
        BY <1>6, <2>8, <3>2
      <4>2. x[i] = old[i]
        BY <2>5, <2>6, <3>2
      <4>3. old[i] = CR
        BY <1>6, <2>1, <4>1
      <4>4. p \in 1 .. Len(S)
        BY <1>2, <1>3, <3>1, <4>1
      <4>5. S[p] = CR
        BY <1>2, <4>1, <4>4
      <4> QED  BY <3>1, <4>1, <4>2, <4>3, <4>5
    <3>3. CASE i > a + (p - b)
      <4> DEFINE j == i - (a + (p - b))
      <4>1. j \in 1 .. n /\ p + j = b + (i - a)
        <5> HIDE DEF a, b, len
        <5>1. i <= (a + (p - b)) + n /\ i \in Nat
          BY <2>6
        <5> QED  BY <1>6, <3>3, <5>1
      <4>2. x[i] = chunk[j]
        BY <1>6, <2>5, <2>6, <3>3
      <4> HIDE DEF j
      <4> QED  BY <2>4, <3>1, <4>1, <4>2
    <3> QED  BY <1>6, <3>2, <3>3
  <2> QED  BY <2>2, <2>5, <2>6, <2>7, <2>8
<1> HIDE DEF x, old, chunk
<1>10. /\ hg(z) => len > a
      /\ len = a + (z - b) /\ b <= z
  <2>1. hg(z) => z # b
    BY <1>6
  <2>2. b <= z
    BY <1>3, <1>6
  <2>3. len = a + (z - b)
    OBVIOUS
  <2> HIDE DEF a, b, len
  <2> QED  BY <1>3, <1>6, <2>1, <2>2, <2>3
<1> DEFINE g(k) == IF k <= a THEN k ELSE IF k <= c THEN a + (pl(d + k) - b) ELSE len
<1>11. /\ f = [k \in 1 .. final |-> f[k]]
       /\ I = {i \in DOMAIN x : ~(x[i] = CR /\ i < Len(x) /\ x[i + 1] = NL)}
  OBVIOUS
<1>12. \A k \in 1 .. final : f[k] = g(k)
  OBVIOUS
<1>13. final = c + (IF hg(z) THEN 1 ELSE 0)
  OBVIOUS
<1> HIDE DEF a, b, c, len, final, f, I, g
<1>14. final \in Nat /\ c <= final /\ (final = IF hg(z) THEN c + 1 ELSE c)
  BY <1>8, <1>13
<1>15. ASSUME NEW i \in 1 .. len
      PROVE  i \in I <=> \/ i <= a
                         \/ i > a /\ ~hg(b + (i - a))
                         \/ hg(z) /\ i = len
  <2>1. DOMAIN x = 1 .. len /\ Len(x) = len
    BY <1>9
  <2>2. i \in I <=> ~(x[i] = CR /\ i < len /\ x[i + 1] = NL)
    BY <1>11, <2>1
  <2>3. CASE i <= a
    <3>1. i \in 1 .. a
      BY <1>6, <2>3
    <3>2. x[i] # CR
      BY <1>2, <1>9, <3>1
    <3> QED  BY <2>2, <2>3, <3>2
  <2>4. CASE i > a
    <3> DEFINE q == b + (i - a)
    <3>1. q \in 1 .. z /\ q \in 1 .. Len(S) /\ x[i] = S[q]
      BY <1>2, <1>3, <1>9, <2>4
    <3>2. i = len <=> q = z
      BY <1>3, <1>6, <1>10
    <3>3. CASE ~hg(q)
      <4>1. x[i] # CR
        BY <1>2, <3>1, <3>3
      <4> QED  BY <2>2, <2>4, <3>3, <4>1
    <3>4. CASE hg(q) /\ i < len
      <4>1. i + 1 \in 1 .. len /\ i + 1 > a /\ b + ((i + 1) - a) = q + 1
        <5>1. i \in Nat /\ i < len /\ len \in Nat /\ a \in Nat /\ b \in Nat /\ i > a
          BY <1>6, <1>9, <2>4, <3>4
        <5> QED  BY ONLY <5>1
      <4>2. x[i + 1] = S[q + 1]
        BY <1>9, <4>1
      <4>3. x[i] = CR /\ x[i + 1] = NL
        BY <1>2, <3>1, <3>4, <4>2
      <4>4. i # len /\ ~(i <= a)
        <5>1. i \in Nat /\ len \in Nat /\ a \in Nat /\ i < len /\ i > a
          BY <1>6, <1>9, <2>4, <3>4
        <5> QED  BY ONLY <5>1
      <4> QED  BY <2>2, <3>4, <4>3, <4>4
    <3>5. CASE hg(q) /\ i = len
      BY <1>9, <2>2, <3>2, <3>5
    <3> QED  BY <1>9, <3>3, <3>4, <3>5
  <2> QED  BY <1>6, <2>3, <2>4
<1>16. I \subseteq 1 .. len
  BY <1>9, <1>11
<1>17. ASSUME NEW k \in 1 .. final
       PROVE  /\ k <= a => f[k] = k /\ k \in 1 .. a
              /\ k > a /\ k <= c =>
                   /\ f[k] = a + (pl(d + k) - b) /\ d + k \in Nat \ {0}
                   /\ pl(d + k) > b /\ pl(d + k) <= z /\ f[k] \in a + 1 .. len
              /\ k > c => hg(z) /\ k = c + 1 /\ f[k] = len
              /\ f[k] \in I
  <2>1. k \in Nat /\ k >= 1 /\ (k > c => hg(z) /\ k = c + 1)
    BY <1>8, <1>14
  <2>2. CASE k <= a
    <3>1. f[k] = k /\ k \in 1 .. a /\ k <= c
      BY <1>6, <1>8, <1>12, <2>1, <2>2 DEF g
    <3>2. k \in 1 .. len
      BY <1>3, <1>6, <1>10, <2>1, <2>2
    <3>3. k \in I
      BY <1>15, <2>2, <3>2
    <3> QED  BY <1>6, <1>8, <2>1, <2>2, <3>1, <3>3
  <2>3. CASE k > a /\ k <= c
    <3> DEFINE t == d + k
    <3>1. t \in Nat \ {0} /\ t > cl(b) /\ t <= cl(z)
      BY <1>3, <1>6, <1>8, <2>1, <2>3
    <3>3. f[k] = a + (pl(t) - b)
      BY <1>6, <1>12, <2>1, <2>3 DEF g
    <3> HIDE DEF t
    <3>2. pl(t) \in Nat /\ pl(t) > b /\ pl(t) <= z /\ ~hg(pl(t))
      <4>1. pl(t) \in Nat /\ ~hg(pl(t)) /\ cl(b) \in Nat
        BY <1>1, <1>6, <3>1
      <4>2. pl(t) <= z
        BY <1>1, <1>3, <3>1
      <4>3. ~(pl(t) <= b)
        <5>1. ~(t <= cl(b))
          BY <3>1, <4>1
        <5> QED  BY <1>1, <1>6, <3>1, <5>1
      <4> QED  BY <1>6, <4>1, <4>2, <4>3
    <3>4. f[k] \in a + 1 .. len /\ f[k] \in 1 .. len /\ f[k] > a /\ b + (f[k] - a) = pl(t)
      BY <1>3, <1>6, <1>10, <3>2, <3>3
    <3>5. f[k] \in I
      BY <1>15, <3>2, <3>4
    <3>6. ~(k <= a) /\ ~(k > c)
      BY <1>6, <1>8, <2>1, <2>3
    <3> QED  BY <2>3, <3>1, <3>2, <3>3, <3>4, <3>5, <3>6 DEF t
  <2>4. CASE k > c
    <3>1. f[k] = len /\ ~(k <= a) /\ ~(k <= c)
      BY <1>6, <1>8, <1>12, <2>1, <2>4 DEF g
    <3>2. len \in 1 .. len
      BY <1>6, <1>9, <1>10, <2>1, <2>4
    <3>3. f[k] \in I
      BY <1>15, <2>1, <2>4, <3>1, <3>2
    <3> QED  BY <2>1, <2>4, <3>1, <3>3
  <2> QED  BY <1>6, <1>8, <2>1, <2>2, <2>3, <2>4
<1>18. \A j, k \in 1 .. final : j < k => f[j] < f[k]
  <2> SUFFICES ASSUME NEW j \in 1 .. final, NEW k \in 1 .. final, j < k PROVE f[j] < f[k]
    OBVIOUS
  <2>1. j \in Nat /\ k \in Nat /\ final \in Nat
    BY <1>14
  <2>2. CASE k <= a
    BY <1>6, <1>17, <2>1, <2>2
  <2>3. CASE k > a /\ k <= c /\ j <= a
    <3>1. f[j] = j /\ f[k] \in a + 1 .. len /\ j <= a
      BY <1>17, <2>3
    <3> QED  BY <1>6, <1>9, <2>1, <3>1
  <2>4. CASE k > a /\ k <= c /\ j > a
    <3>1. /\ f[j] = a + (pl(d + j) - b) /\ f[k] = a + (pl(d + k) - b)
          /\ d + j \in Nat \ {0} /\ d + k \in Nat \ {0}
      BY <1>8, <1>17, <2>1, <2>4
    <3>2. /\ pl(d + j) \in Nat /\ pl(d + k) \in Nat
          /\ ~(pl(d + k) <= pl(d + j))
      <4>1. cl(pl(d + j)) = d + j /\ pl(d + j) \in Nat /\ pl(d + k) \in Nat
        BY <1>1, <3>1
      <4>2. pl(d + k) <= pl(d + j) <=> d + k <= cl(pl(d + j))
        BY <1>1, <3>1, <4>1
      <4> QED  BY <1>3, <2>1, <4>1, <4>2
    <3> QED  BY <1>6, <3>1, <3>2
  <2>5. CASE k > c
    <3>1. hg(z) /\ f[k] = len /\ j <= c
      BY <1>8, <1>17, <2>1, <2>5
    <3>2. CASE j <= a
      <4>1. f[j] = j
        BY <1>17, <3>2
      <4> QED  BY <1>6, <1>9, <1>10, <2>1, <3>1, <3>2, <4>1
    <3>3. CASE j > a
      <4>1. /\ f[j] = a + (pl(d + j) - b) /\ d + j \in Nat \ {0} /\ pl(d + j) <= z
        BY <1>17, <3>1, <3>3
      <4>2. pl(d + j) \in Nat /\ ~hg(pl(d + j))
        BY <1>1, <4>1
      <4>3. pl(d + j) # z
        BY <3>1, <4>2
      <4>4. pl(d + j) < z
        BY <1>3, <4>1, <4>2, <4>3
      <4> QED  BY <1>3, <1>6, <1>10, <3>1, <4>1, <4>2, <4>4
    <3> QED  BY <1>6, <2>1, <3>2, <3>3
  <2> QED  BY <1>6, <1>8, <2>1, <2>2, <2>3, <2>4, <2>5
<1>19. \A i \in I : \E k \in 1 .. final : f[k] = i
  <2> SUFFICES ASSUME NEW i \in I PROVE \E k \in 1 .. final : f[k] = i
    OBVIOUS
  <2>1. i \in 1 .. len
    BY <1>16
  <2>2. CASE i <= a
    <3>1. i \in 1 .. final
      BY <1>6, <1>8, <1>14, <2>1, <2>2
    <3> QED  BY <1>17, <2>2, <3>1
  <2>3. CASE i > a /\ ~hg(b + (i - a))
    <3> DEFINE q == b + (i - a)
               k == cl(q) - d
    <3>1. q \in Nat /\ q # 0 /\ q > b /\ q <= z /\ ~hg(q)
      <4>1. i \in Nat /\ i > a /\ i <= a + (z - b)
        BY <1>6, <1>9, <1>10, <2>1, <2>3
      <4>2. q \in Nat /\ q # 0 /\ q > b /\ q <= z
        BY <1>3, <1>6, <4>1
      <4> QED  BY <2>3, <4>2
    <3> HIDE DEF q
    <3>2. cl(q) \in Nat \ {0} /\ pl(cl(q)) = q
      BY <1>1, <3>1
    <3>3. cl(q) <= cl(z) /\ ~(cl(q) <= cl(b))
      <4>1. cl(q) <= cl(b) => pl(cl(q)) <= b
        BY <1>1, <1>6, <3>2
      <4>2. cl(q) <= cl(z)
        BY <1>3, <1>7, <3>1
      <4> QED  BY <1>6, <3>1, <3>2, <4>1, <4>2
    <3>4. k \in 1 .. final /\ k > a /\ k <= c /\ d + k = cl(q)
      <4>1. k \in Nat /\ k > a /\ k <= c /\ d + k = cl(q)
        BY <1>3, <1>6, <1>8, <3>2, <3>3
      <4>2. final \in Nat /\ c <= final
        BY <1>8, <1>14
      <4> HIDE DEF k
      <4> QED  BY <1>6, <1>8, <4>1, <4>2
    <3> HIDE DEF k
    <3>5. f[k] = a + (q - b)
      BY <1>17, <3>2, <3>4
    <3>6. a + (q - b) = i
      BY <1>6, <2>1 DEF q
    <3> QED  BY <3>4, <3>5, <3>6
  <2>4. CASE hg(z) /\ i = len
    <3>1. c + 1 \in 1 .. final /\ c + 1 > c
      BY <1>8, <1>14, <2>4
    <3> QED  BY <1>17, <2>4, <3>1
  <2> QED  BY <1>15, <2>1, <2>2, <2>3, <2>4
<1>20. Lists(f, final, I)
  <2>1. final \in Nat /\ I \subseteq Nat
    BY <1>9, <1>16, <1>14
  <2>2. f \in [1 .. final -> I]
    <3>1. \A k \in 1 .. final : f[k] \in I
      BY <1>17
    <3>2. f = [k \in 1 .. final |-> f[k]]
      BY <1>11
    <3> QED  BY <3>1, <3>2
  <2> QED  BY <1>18, <1>19, <2>1, <2>2 DEF Lists
<1>21. Normal(x) = [k \in 1 .. final |-> x[f[k]]]
  <2>1. Normal(x) = Pick(x, I)
    BY <1>11 DEF Normal
  <2> QED  BY <1>20, <2>1, PickIs
<1>22. ASSUME NEW k \in 1 .. final
       PROVE  x[f[k]] = IF k <= c THEN F[d + k] ELSE CR
  <2>1. k \in Nat
    BY <1>14
  <2>2. CASE k <= a
    <3>1. f[k] = k /\ k \in 1 .. a /\ k <= c
      BY <1>6, <1>8, <1>17, <2>1, <2>2
    <3> QED  BY <1>9, <3>1
  <2>3. CASE k > a /\ k <= c
    <3>1. /\ f[k] = a + (pl(d + k) - b) /\ d + k \in Nat \ {0}
          /\ pl(d + k) <= z /\ f[k] \in a + 1 .. len
      BY <1>17, <2>3
    <3>2. /\ pl(d + k) \in Nat \ {0} /\ ~hg(pl(d + k)) /\ cl(pl(d + k)) = d + k
      BY <1>1, <3>1
    <3>3. f[k] \in 1 .. len /\ f[k] > a /\ b + (f[k] - a) = pl(d + k)
      <4>1. f[k] \in Nat /\ f[k] > a /\ f[k] <= len
        BY <1>6, <1>9, <3>1
      <4>2. pl(d + k) \in Nat /\ f[k] = a + (pl(d + k) - b)
        BY <3>1, <3>2
      <4>3. b + (f[k] - a) = pl(d + k)
        BY ONLY <1>6, <4>2
      <4>4. f[k] \in 1 .. len
        BY <1>6, <1>9, <3>1
      <4> QED  BY <4>1, <4>3, <4>4
    <3>4. x[f[k]] = S[pl(d + k)]
      BY <1>9, <3>3
    <3>5. pl(d + k) \in 1 .. Len(S)
      BY <1>2, <1>3, <3>1, <3>2
    <3>6. S[pl(d + k)] = F[d + k]
      BY <1>2, <3>2, <3>5
    <3> QED  BY <2>3, <3>4, <3>6
  <2>4. CASE k > c
    <3>1. hg(z) /\ f[k] = len /\ ~(k <= c)
      BY <1>8, <1>17, <2>1, <2>4
    <3>2. len \in 1 .. len /\ len > a /\ b + (len - a) = z
      BY <1>3, <1>6, <1>9, <1>10, <3>1
    <3>3. x[len] = S[z] /\ z \in 1 .. Len(S)
      BY <1>2, <1>3, <1>9, <3>2
    <3> QED  BY <1>2, <3>1, <3>3
  <2> QED  BY <1>6, <1>8, <2>1, <2>2, <2>3, <2>4
<1>23. Normal(x) = [k \in 1 .. final |-> IF k <= c THEN F[d + k] ELSE CR]
  BY <1>21, <1>22
<1> QED  BY <1>23 DEF Left, x, old, chunk, S, F, cl, hg, d, z, c, final

(* More tokens, more of them left.                                         *)
LEMMA CleanGrows ==
  ASSUME NEW crlf \in BOOLEAN, NEW p \in Nat, NEW z \in Nat, p <= z
  PROVE  Clean(p, crlf) \in Nat /\ Clean(p, crlf) <= Clean(z, crlf)
<1> DEFINE cl(q) == Clean(q, crlf)
           pl(t) == Place(t, crlf)
<1>1. 1 \in Nat \ {0}
  OBVIOUS
<1>2. \A q \in Nat : \A t \in Nat \ {0} :
        cl(q) \in Nat /\ pl(t) \in Nat \ {0} /\ (pl(t) <= q <=> t <= cl(q))
  BY Positions
<1> HIDE DEF cl, pl
<1>3. cl(p) \in Nat /\ cl(z) \in Nat
  BY <1>1, <1>2
<1>4. CASE cl(p) = 0
  BY <1>3, <1>4 DEF cl
<1>5. CASE cl(p) # 0
  <2> DEFINE t == cl(p)
  <2>1. t \in Nat \ {0} /\ t <= cl(p)
    BY <1>3, <1>5
  <2> HIDE DEF t
  <2>2. pl(t) <= p /\ pl(t) \in Nat
    BY <1>2, <2>1
  <2>3. t <= cl(z)
    BY <1>2, <2>1, <2>2
  <2> QED  BY <1>3, <2>3 DEF t, cl
<1> QED  BY <1>4, <1>5

(* A return is pending only behind the halves of a payload.                *)
LEMMA HangsAt ==
  ASSUME NEW crlf \in BOOLEAN, NEW p \in Nat, NEW m \in Nat, Hangs(p, crlf),
         4 * m <= Clean(p, crlf), Clean(p, crlf) < 4 * m + 4
  PROVE  Clean(p, crlf) - 4 * m \in {2, 3}
<1>1. Clean(p, crlf) = CleanCR(p) /\ HangsCR(p)
  BY DEF Clean, Hangs
<1>2. PICK q \in Nat, r \in 0 .. 5 : p = 6 * q + r
  BY DivideBySix
<1>3. /\ CleanCR(p) = 4 * q + (IF r <= 2 THEN r ELSE IF r = 3 THEN 2 ELSE 3)
      /\ HangsCR(p) <=> r \in {3, 5}
  BY <1>2, CleanAt
<1>4. CleanCR(p) \in {4 * q + 2, 4 * q + 3}
  BY <1>1, <1>3
<1>5. 4 * m <= CleanCR(p) /\ CleanCR(p) < 4 * m + 4
  BY <1>1
<1>6. q = m
  BY <1>4, <1>5
<1> QED  BY <1>1, <1>4, <1>6

(* What is in a buffer.                                                    *)
LEMMA LeftIs ==
  ASSUME NEW P, NEW ps \in Seq(P), NEW crlf \in BOOLEAN, NEW m \in Nat,
         NEW p \in Nat, p <= Len(Stream(ps, crlf)), 4 * m <= Clean(p, crlf)
  PROVE  LET L == Left(ps, m, p, crlf)
             a == Clean(p, crlf) - 4 * m
         IN  /\ L \in Seq(Tokens(P)) /\ a \in Nat
             /\ Len(L) = a + (IF Hangs(p, crlf) THEN 1 ELSE 0)
             /\ Hangs(p, crlf) => L[a + 1] = CR
             /\ a >= 1 => m < Len(ps) /\ L[1] = Half(ps[m + 1], 1)
             /\ a >= 2 => L[2] = Half(ps[m + 1], 2)
             /\ a >= 3 => L[3] = NL
             /\ a >= 4 => L[4] = NL /\ SubSeq(L, 5, Len(L)) = Left(ps, m + 1, p, crlf)
<1> DEFINE cl == Clean(p, crlf)
           h == Hangs(p, crlf)
           a == cl - 4 * m
           F == Plain(ps)
           e == a + (IF h THEN 1 ELSE 0)
           L == [k \in 1 .. e |-> IF k <= a THEN F[4 * m + k] ELSE CR]
<1>1. cl \in Nat /\ cl <= 4 * Len(ps) /\ Len(ps) \in Nat
  <2>1. Len(Stream(ps, crlf)) \in Nat /\ Clean(Len(Stream(ps, crlf)), crlf) = 4 * Len(ps)
    BY StreamIs
  <2> QED  BY <2>1, CleanGrows
<1>2. a \in Nat /\ e \in Nat /\ a <= e /\ 4 * m + a <= 4 * Len(ps) /\ cl = 4 * m + a
  BY <1>1
<1>3. /\ F \in Seq(Tokens(P)) /\ Len(F) = 4 * Len(ps)
      /\ m < Len(ps) =>
           /\ F[4 * m + 1] = Half(ps[m + 1], 1) /\ F[4 * m + 2] = Half(ps[m + 1], 2)
           /\ F[4 * m + 3] = NL /\ F[4 * m + 4] = NL
  <2>1. m < Len(ps) => m \in 0 .. Len(ps) - 1
    OBVIOUS
  <2> QED  BY <2>1, StreamLF
<1>4. Left(ps, m, p, crlf) = L
  BY DEF Left
<1>5. \A k \in 1 .. a : F[4 * m + k] \in Tokens(P) /\ k \in 1 .. e
  <2> HIDE DEF F, a, e
  <2>1. \A k \in 1 .. a : 4 * m + k \in 1 .. Len(F) /\ k \in 1 .. e
    BY <1>1, <1>2, <1>3
  <2> QED  BY <1>3, <2>1
<1> HIDE DEF a, F, cl
<1>6. CR \in Tokens(P)
  BY DEF Tokens
<1>7. L \in Seq(Tokens(P)) /\ Len(L) = e
  <2> HIDE DEF e
  <2>1. L \in [1 .. e -> Tokens(P)]
    BY <1>2, <1>5, <1>6
  <2> HIDE DEF L
  <2> QED  BY <1>2, <2>1
<1>8. h => L[a + 1] = CR
  BY <1>2
<1>9. a >= 1 => m < Len(ps)
  BY <1>1, <1>2
<1>10. \A k \in 1 .. a : L[k] = F[4 * m + k]
  BY <1>2, <1>5
<1>11. /\ a >= 1 => L[1] = Half(ps[m + 1], 1)
       /\ a >= 2 => L[2] = Half(ps[m + 1], 2)
       /\ a >= 3 => L[3] = NL
       /\ a >= 4 => L[4] = NL
  <2> HIDE DEF L
  <2>1. /\ a >= 1 => 1 \in 1 .. a
        /\ a >= 2 => 2 \in 1 .. a
        /\ a >= 3 => 3 \in 1 .. a
        /\ a >= 4 => 4 \in 1 .. a
    BY <1>2
  <2>2. a >= 2 \/ a >= 3 \/ a >= 4 => a >= 1
    BY <1>2
  <2> QED  BY <1>3, <1>9, <1>10, <2>1, <2>2
<1>12. a >= 4 => SubSeq(L, 5, Len(L)) = Left(ps, m + 1, p, crlf)
  <2> SUFFICES ASSUME a >= 4 PROVE SubSeq(L, 5, Len(L)) = Left(ps, m + 1, p, crlf)
    OBVIOUS
  <2> DEFINE a2 == a - 4
             e2 == a2 + (IF h THEN 1 ELSE 0)
             R == [k \in 1 .. e2 |-> IF k <= a2 THEN F[4 * (m + 1) + k] ELSE CR]
             s == SubSeq(L, 5, e)
  <2>1. Left(ps, m + 1, p, crlf) = R
    <3>1. Clean(p, crlf) - 4 * (m + 1) = a2
      BY <1>1 DEF a, cl
    <3> QED  BY <3>1 DEF Left, F
  <2>2. e2 \in Nat /\ e2 = e - 4 /\ a2 \in Nat
    BY <1>2
  <2>3. \A k \in 1 .. e2 : R[k] = L[k + 4]
    <3> SUFFICES ASSUME NEW k \in 1 .. e2 PROVE R[k] = L[k + 4]
      OBVIOUS
    <3>1. k + 4 \in 1 .. e /\ (k + 4 <= a <=> k <= a2) /\ 4 * m + (k + 4) = 4 * (m + 1) + k
      BY <1>2, <2>2
    <3> QED  BY <3>1
  <2> HIDE DEF e, e2, a2, L
  <2>4. s = [k \in 1 .. e2 |-> L[k + 4]]
    <3>1. 5 \in Int /\ e \in Int /\ \A k \in 5 .. e : L[k] \in Tokens(P)
      BY <1>2, <1>7
    <3>2. /\ s \in Seq(Tokens(P)) /\ Len(s) = IF 5 <= e THEN e - 5 + 1 ELSE 0
          /\ \A k \in 1 .. e - 5 + 1 : s[k] = L[5 + k - 1]
      BY <3>1, SubSeqProperties
    <3>3. Len(s) = e2 /\ \A k \in 1 .. e2 : k \in 1 .. e - 5 + 1 /\ 5 + k - 1 = k + 4
      BY <1>2, <2>2, <3>2
    <3> HIDE DEF s
    <3> QED  BY <3>2, <3>3
  <2>5. s = R
    <3>1. R = [k \in 1 .. e2 |-> R[k]]
      OBVIOUS
    <3> HIDE DEF R
    <3> QED  BY <2>3, <2>4, <3>1
  <2> QED  BY <1>7, <2>1, <2>5
<1> QED  BY <1>2, <1>4, <1>7, <1>8, <1>9, <1>11, <1>12 DEF a, cl

(* The first empty line of a buffer, and the data before it.               *)
LEMMA EventIn ==
  ASSUME NEW T, NEW s \in Seq(T), NEW b \in Nat, b >= 1, b + 1 <= Len(s), s[b] = NL, s[b + 1] = NL,
         \A i \in 1 .. b - 1 : ~(s[i] = NL /\ s[i + 1] = NL),
         NEW k \in Nat, k < b,
         \A i \in 1 .. b - 1 :
           (IsData(s[i]) \/ (s[i] = CR /\ i > 1 /\ IsData(s[i - 1]))) <=> i <= k
  PROVE  /\ Boundaries(s) # {} /\ Boundary(s) = b
         /\ EventData(s) = [i \in 1 .. k |-> s[i]]
<1>1. Len(s) \in Nat
  OBVIOUS
<1>2. b \in Boundaries(s) /\ \A i \in Boundaries(s) : i \in Nat /\ b <= i
  BY <1>1 DEF Boundaries
<1>3. Boundary(s) = b
  <2>1. \A i \in Boundaries(s) : (\A j \in Boundaries(s) : i <= j) => i = b
    BY <1>2
  <2> QED  BY <1>2, <2>1 DEF Boundary
<1> DEFINE I == {i \in 1 .. Boundary(s) - 1 :
                   IsData(s[i]) \/ (s[i] = CR /\ i > 1 /\ IsData(s[i - 1]))}
<1>4. I = 1 .. k
  BY <1>3
<1>5. EventData(s) = Pick(s, I)
  BY DEF EventData
<1> HIDE DEF I
<1> QED  BY <1>2, <1>3, <1>4, <1>5, PickFirst

(* A buffer with no two line feeds in a row.                               *)
LEMMA NoEventIn ==
  ASSUME NEW T, NEW s \in Seq(T), \A i \in 1 .. Len(s) - 1 : ~(s[i] = NL /\ s[i + 1] = NL)
  PROVE  Boundaries(s) = {}
BY DEF Boundaries

(* The payloads that were sent whole.                                      *)
LEMMA WholeIs ==
  ASSUME NEW P, NEW ps \in Seq(P), NEW crlf \in BOOLEAN, NEW cut \in Nat,
         cut <= Len(Stream(ps, crlf))
  PROVE  \E w \in 0 .. Len(ps) :
           /\ Whole(ps, crlf, cut) = First(ps, w)
           /\ \A i \in 1 .. Len(ps) : i <= w <=> 4 * i - 2 <= Clean(cut, crlf)
           /\ cut = Len(Stream(ps, crlf)) => w = Len(ps)
<1> DEFINE n == Len(ps)
           N == EventLength(crlf)
           W == {i \in DOMAIN ps : N * (i - 1) + 2 <= cut}
<1>1. n \in Nat /\ DOMAIN ps = 1 .. n
  OBVIOUS
<1>2. \A i \in 1 .. n : N * (i - 1) + 2 <= cut <=> 4 * i - 2 <= Clean(cut, crlf)
  <2>1. CASE crlf = FALSE
    <3>1. N = 4 /\ Clean(cut, crlf) = cut
      BY <2>1 DEF EventLength, Clean
    <3> HIDE DEF N
    <3> QED  BY <1>1, <3>1
  <2>2. CASE crlf = TRUE
    <3>1. N = 6 /\ Clean(cut, crlf) = CleanCR(cut)
      BY <2>2 DEF EventLength, Clean
    <3> HIDE DEF N
    <3>2. PICK q \in Nat, r \in 0 .. 5 : cut = 6 * q + r
      BY DivideBySix
    <3>3. CleanCR(cut) = 4 * q + (IF r <= 2 THEN r ELSE IF r = 3 THEN 2 ELSE 3)
      BY <3>2, CleanAt
    <3> SUFFICES ASSUME NEW i \in 1 .. n
                 PROVE  6 * (i - 1) + 2 <= cut <=> 4 * i - 2 <= CleanCR(cut)
      BY <3>1
    <3>4. i \in Nat /\ i >= 1
      BY <1>1
    <3> QED  BY ONLY <3>2, <3>3, <3>4
  <2> QED  BY <2>1, <2>2
<1> DEFINE c == Clean(cut, crlf)
<1>3. c \in Nat /\ c <= 4 * n /\ (cut = Len(Stream(ps, crlf)) => c = 4 * n)
  <2>1. Len(Stream(ps, crlf)) \in Nat /\ Clean(Len(Stream(ps, crlf)), crlf) = 4 * n
    BY StreamIs
  <2> QED  BY <2>1, CleanGrows
<1> DEFINE w == (c + 2) \div 4
<1>4. w \in 0 .. n /\ (c = 4 * n => w = n) /\ \A i \in 1 .. n : i <= w <=> 4 * i - 2 <= c
  <2> HIDE DEF c
  <2>1. c + 2 \in Nat
    BY <1>3
  <2>2. w \in Nat /\ 4 * w <= c + 2 /\ c + 2 < 4 * w + 4
    BY <2>1
  <2> HIDE DEF w, n
  <2> QED  BY <1>1, <1>3, <2>2
<1> HIDE DEF w, c
<1>5. W = 1 .. w
  <2>1. \A i \in 1 .. n : i \in W <=> i <= w
    BY <1>1, <1>2, <1>4 DEF c
  <2>2. W \subseteq 1 .. n
    BY <1>1
  <2> HIDE DEF W, n
  <2>3. \A i \in 1 .. w : i \in 1 .. n /\ i <= w
    BY <1>1, <1>4
  <2>4. \A i \in 1 .. n : i <= w => i \in 1 .. w
    BY <1>1, <1>4
  <2> QED  BY ONLY <2>1, <2>2, <2>3, <2>4
<1>6. Cardinality(W) = w
  <2>1. w \in Nat
    BY <1>4
  <2>2. Cardinality(1 .. w) = w
    BY <2>1, FS_Interval
  <2> QED  BY <1>5, <2>2
<1>7. Whole(ps, crlf, cut) = First(ps, w)
  BY <1>6 DEF Whole, First
<1> QED  BY <1>3, <1>4, <1>7 DEF c

(* The first event of a buffer while the body goes on.                     *)
LEMMA EventLeft ==
  ASSUME NEW P, NEW ps \in Seq(P), NEW crlf \in BOOLEAN, NEW m \in Nat,
         NEW p \in Nat, p <= Len(Stream(ps, crlf)), 4 * m <= Clean(p, crlf)
  PROVE  LET L == Left(ps, m, p, crlf)
         IN  IF Clean(p, crlf) < 4 * m + 4
               THEN Boundaries(L) = {}
               ELSE /\ Boundaries(L) # {} /\ m < Len(ps)
                    /\ EventData(L) = IF ps[m + 1].type = "comment" THEN << >> ELSE Halves(ps[m + 1])
                    /\ AfterEvent(L) = Left(ps, m + 1, p, crlf)
<1> DEFINE L == Left(ps, m, p, crlf)
           a == Clean(p, crlf) - 4 * m
           h == Hangs(p, crlf)
           x == ps[m + 1]
           T == Tokens(P)
<1>1. /\ L \in Seq(T) /\ a \in Nat /\ Len(L) = a + (IF h THEN 1 ELSE 0)
      /\ h => L[a + 1] = CR
      /\ a >= 1 => m < Len(ps) /\ L[1] = Half(x, 1)
      /\ a >= 2 => L[2] = Half(x, 2)
      /\ a >= 3 => L[3] = NL
      /\ a >= 4 => L[4] = NL /\ SubSeq(L, 5, Len(L)) = Left(ps, m + 1, p, crlf)
  BY LeftIs, SMTT(100)
<1>2. /\ Clean(p, crlf) \in Nat /\ (Clean(p, crlf) < 4 * m + 4 <=> a < 4)
  <2>1. Clean(p, crlf) \in Nat
    BY CleanGrows
  <2> HIDE DEF L, h, x, T
  <2> QED  BY <2>1
<1>3. /\ CR # NL /\ Half(x, 1) # NL /\ Half(x, 2) # NL /\ Half(x, 1) # CR /\ Half(x, 2) # CR
      /\ IsData(Half(x, 1)) <=> x.type # "comment"
      /\ IsData(Half(x, 2)) <=> x.type # "comment"
  BY TokenFacts DEF IsData
<1> HIDE DEF L, a, h, x, T
<1>4. CASE a < 4
  <2>0. (a >= 2 => a >= 1) /\ Len(L) \in a .. a + 1
    BY <1>1
  <2>1. \A i \in 1 .. Len(L) - 1 : ~(L[i] = NL /\ L[i + 1] = NL)
    <3> SUFFICES ASSUME NEW i \in 1 .. Len(L) - 1 PROVE ~(L[i] = NL /\ L[i + 1] = NL)
      OBVIOUS
    <3>1. i \in 1 .. a /\ i \in Nat /\ a \in Nat
      BY <1>1, <2>0
    <3>2. CASE i <= 2
      <4>1. (i = 1 /\ a >= 1) \/ (i = 2 /\ a >= 2)
        BY ONLY <3>1, <3>2
      <4>2. L[i] \in {Half(x, 1), Half(x, 2)}
        BY ONLY <1>1, <4>1
      <4> QED  BY ONLY <1>3, <4>2
    <3>3. CASE i = 3
      <4>1. a = 3 /\ h
        BY <1>1, <1>4, <3>1, <3>3
      <4> QED  BY <1>1, <1>3, <3>3, <4>1
    <3>4. i <= 2 \/ i = 3
      BY ONLY <1>1, <1>4, <3>1
    <3> QED  BY ONLY <3>2, <3>3, <3>4
  <2>2. Boundaries(L) = {}
    BY <1>1, <2>1, NoEventIn
  <2> QED  BY <1>2, <1>4, <2>2 DEF L
<1>5. CASE a >= 4
  <2> DEFINE k == IF x.type = "comment" THEN 0 ELSE 2
  <2>1. /\ L[1] = Half(x, 1) /\ L[2] = Half(x, 2) /\ L[3] = NL /\ L[4] = NL
        /\ Len(L) \in Nat /\ Len(L) >= 4 /\ m < Len(ps)
    BY <1>1, <1>5
  <2>2. /\ \A i \in 1 .. 3 - 1 : ~(L[i] = NL /\ L[i + 1] = NL)
        /\ \A i \in 1 .. 3 - 1 : (IsData(L[i]) \/ (L[i] = CR /\ i > 1 /\ IsData(L[i - 1]))) <=> i <= k
    <3>1. \A i \in 1 .. 3 - 1 : i = 1 \/ i = 2
      OBVIOUS
    <3> QED  BY <1>3, <2>1, <3>1
  <2>3. k \in Nat /\ k < 3 /\ 3 \in Nat /\ 3 >= 1 /\ 3 + 1 <= Len(L) /\ L[3 + 1] = NL
    BY <2>1
  <2> HIDE DEF k
  <2>4. Boundaries(L) # {} /\ Boundary(L) = 3 /\ EventData(L) = [i \in 1 .. k |-> L[i]]
    BY <1>1, <2>1, <2>2, <2>3, EventIn
  <2>5. EventData(L) = IF x.type = "comment" THEN << >> ELSE Halves(x)
    <3>1. CASE x.type = "comment"
      <4>1. EventData(L) = [i \in 1 .. 0 |-> L[i]]
        BY <2>4, <3>1 DEF k
      <4> QED  BY <3>1, <4>1
    <3>2. CASE x.type # "comment"
      <4>1. EventData(L) = [i \in 1 .. 2 |-> L[i]]
        BY <2>4, <3>2 DEF k
      <4>2. EventData(L) = <<L[1], L[2]>>
        BY <4>1
      <4> QED  BY <2>1, <3>2, <4>2 DEF Halves
    <3> QED  BY <3>1, <3>2
  <2>6. AfterEvent(L) = Left(ps, m + 1, p, crlf)
    BY <1>1, <1>5, <2>4 DEF AfterEvent
  <2>7. ~(Clean(p, crlf) < 4 * m + 4)
    BY ONLY <1>1, <1>2, <1>5
  <2> QED  BY ONLY <2>1, <2>4, <2>5, <2>6, <2>7 DEF L, x
<1> QED  BY <1>1, <1>4, <1>5

(* The last event of a body, which may have been cut short.                *)
LEMMA EventLast ==
  ASSUME NEW P, NEW ps \in Seq(P), NEW crlf \in BOOLEAN, NEW m \in Nat,
         NEW p \in Nat, p <= Len(Stream(ps, crlf)), 4 * m <= Clean(p, crlf),
         Clean(p, crlf) < 4 * m + 4
  PROVE  LET s == Left(ps, m, p, crlf) \o <<NL, NL>>
             a == Clean(p, crlf) - 4 * m
             x == ps[m + 1]
         IN  /\ Boundaries(s) # {} /\ AfterEvent(s) \in {<< >>, <<NL>>}
             /\ a = 0 => EventData(s) = << >>
             /\ a = 1 => EventData(s) \in {<< >>, <<Half(x, 1)>>}
             /\ a >= 2 => IF x.type = "comment" THEN EventData(s) = << >>
                          ELSE EventData(s) \in {Halves(x), Halves(x) \o <<CR>>}
<1> DEFINE L == Left(ps, m, p, crlf)
           a == Clean(p, crlf) - 4 * m
           h == Hangs(p, crlf)
           x == ps[m + 1]
           T == Tokens(P)
           s == L \o <<NL, NL>>
           said == x.type # "comment"
<1>1. /\ L \in Seq(T) /\ a \in Nat /\ Len(L) = a + (IF h THEN 1 ELSE 0)
      /\ h => L[a + 1] = CR
      /\ a >= 1 => m < Len(ps) /\ L[1] = Half(x, 1)
      /\ a >= 2 => L[2] = Half(x, 2)
      /\ a >= 3 => L[3] = NL
      /\ a >= 4 => L[4] = NL /\ SubSeq(L, 5, Len(L)) = Left(ps, m + 1, p, crlf)
  BY LeftIs
<1>2. /\ a < 4 /\ (h => a \in {2, 3})
  <2>1. Clean(p, crlf) \in Nat
    BY CleanGrows
  <2>2. h => a \in {2, 3}
    BY HangsAt
  <2> QED  BY <2>1, <2>2
<1>3. /\ CR # NL /\ Half(x, 1) # NL /\ Half(x, 2) # NL /\ Half(x, 1) # CR /\ Half(x, 2) # CR
      /\ IsData(Half(x, 1)) <=> said
      /\ IsData(Half(x, 2)) <=> said
      /\ ~IsData(NL) /\ ~IsData(CR)
  BY TokenFacts DEF IsData
<1> HIDE DEF L, a, h, x, T
<1>4. NL \in T /\ CR \in T
  BY DEF Tokens, T
<1>5. /\ s \in Seq(T) /\ Len(s) = Len(L) + 2
      /\ \A i \in 1 .. Len(L) : s[i] = L[i]
      /\ s[Len(L) + 1] = NL /\ s[Len(L) + 2] = NL
  <2> DEFINE two == <<NL, NL>>
  <2>1. two \in Seq(T) /\ Len(two) = 2 /\ two[1] = NL /\ two[2] = NL
    BY <1>4
  <2> HIDE DEF two
  <2>2. /\ L \o two \in Seq(T) /\ Len(L \o two) = Len(L) + Len(two)
        /\ \A i \in 1 .. Len(L) + Len(two) :
             (L \o two)[i] = IF i <= Len(L) THEN L[i] ELSE two[i - Len(L)]
    BY <1>1, <2>1, ConcatProperties
  <2> DEFINE r == L \o two
  <2>3. r = s
    BY DEF two
  <2> HIDE DEF r, s
  <2>4. Len(L) \in Nat
    BY <1>1, <1>2
  <2>5. /\ Len(L) + 1 \in 1 .. Len(L) + 2 /\ ~(Len(L) + 1 <= Len(L)) /\ (Len(L) + 1) - Len(L) = 1
        /\ Len(L) + 2 \in 1 .. Len(L) + 2 /\ ~(Len(L) + 2 <= Len(L)) /\ (Len(L) + 2) - Len(L) = 2
        /\ \A i \in 1 .. Len(L) : i \in 1 .. Len(L) + 2 /\ i <= Len(L)
    BY <2>4
  <2> QED  BY <2>1, <2>2, <2>3, <2>5 DEF r
<1> HIDE DEF s, said
<1>6. ASSUME NEW b \in Nat, b >= 1, b + 1 <= Len(s), s[b] = NL, s[b + 1] = NL,
             \A i \in 1 .. b - 1 : ~(s[i] = NL /\ s[i + 1] = NL),
             NEW k \in Nat, k < b,
             \A i \in 1 .. b - 1 :
               (IsData(s[i]) \/ (s[i] = CR /\ i > 1 /\ IsData(s[i - 1]))) <=> i <= k
      PROVE  /\ Boundaries(s) # {} /\ EventData(s) = [i \in 1 .. k |-> s[i]]
             /\ AfterEvent(s) = SubSeq(s, b + 2, Len(s))
  <2>1. /\ Boundaries(s) # {} /\ Boundary(s) = b
        /\ EventData(s) = [i \in 1 .. k |-> s[i]]
    BY <1>5, <1>6, EventIn
  <2> QED  BY <2>1 DEF AfterEvent
<1>7. [i \in 1 .. 0 |-> s[i]] = << >>
  OBVIOUS
<1>8. CASE a = 0
  <2>1. Len(L) = 0 /\ Len(s) = 2 /\ s[1] = NL /\ s[2] = NL
    <3>1. Len(L) = 0
      BY <1>1, <1>2, <1>8
    <3> QED  BY <1>5, <3>1
  <2>2. /\ Boundaries(s) # {} /\ EventData(s) = [i \in 1 .. 0 |-> s[i]]
        /\ AfterEvent(s) = SubSeq(s, 3, 2)
    BY <1>6, <2>1
  <2>3. SubSeq(s, 3, 2) = << >>
    BY SubSeqEmpty
  <2> QED  BY <1>7, <1>8, <2>2, <2>3 DEF a, s, L, x
<1>9. CASE a = 1
  <2>1. Len(s) = 3 /\ s[1] = Half(x, 1) /\ s[2] = NL /\ s[3] = NL
    <3>1. Len(L) = 1 /\ L[1] = Half(x, 1)
      BY <1>1, <1>2, <1>9
    <3> QED  BY <1>5, <3>1
  <2> DEFINE k == IF said THEN 1 ELSE 0
  <2>2. /\ Boundaries(s) # {} /\ EventData(s) = [i \in 1 .. k |-> s[i]]
        /\ AfterEvent(s) = SubSeq(s, 4, 3)
    <3>1. \A i \in 1 .. 2 - 1 : i = 1
      OBVIOUS
    <3>2. /\ \A i \in 1 .. 2 - 1 : ~(s[i] = NL /\ s[i + 1] = NL)
          /\ \A i \in 1 .. 2 - 1 :
               (IsData(s[i]) \/ (s[i] = CR /\ i > 1 /\ IsData(s[i - 1]))) <=> i <= k
          /\ k \in Nat /\ k < 2 /\ 2 \in Nat /\ 2 >= 1
          /\ 2 + 1 <= Len(s) /\ s[2 + 1] = NL /\ 2 + 2 = 4
      BY <1>3, <2>1, <3>1
    <3> HIDE DEF k
    <3> QED  BY <1>6, <2>1, <3>2
  <2>3. SubSeq(s, 4, 3) = << >>
    BY SubSeqEmpty
  <2>4. EventData(s) \in {<< >>, <<Half(x, 1)>>}
    <3>1. [i \in 1 .. 1 |-> s[i]] = <<s[1]>>
      OBVIOUS
    <3> QED  BY <1>7, <2>1, <2>2, <3>1
  <2> QED  BY <1>9, <2>2, <2>3, <2>4 DEF a, s, L, x
<1>10. CASE a >= 2
  <2>1. /\ Len(L) = a + (IF h THEN 1 ELSE 0) /\ a \in {2, 3}
        /\ L[1] = Half(x, 1) /\ L[2] = Half(x, 2) /\ (a = 3 => L[3] = NL) /\ (h => L[a + 1] = CR)
    BY <1>1, <1>2, <1>10
  <2>2. s[1] = Half(x, 1) /\ s[2] = Half(x, 2)
    <3>1. 1 \in 1 .. Len(L) /\ 2 \in 1 .. Len(L)
      BY <2>1
    <3> QED  BY <1>5, <2>1, <3>1
  <2> DEFINE k == IF said THEN 2 ELSE 0
  <2>3. [i \in 1 .. 2 |-> s[i]] = Halves(x)
    <3>1. [i \in 1 .. 2 |-> s[i]] = <<s[1], s[2]>>
      OBVIOUS
    <3> QED  BY <2>2, <3>1 DEF Halves
  <2>4. CASE a = 2 /\ ~h
    <3>1. Len(s) = 4 /\ s[3] = NL /\ s[4] = NL
      <4>1. Len(L) = 2
        BY <2>1, <2>4
      <4> QED  BY <1>5, <4>1
    <3>2. \A i \in 1 .. 3 - 1 : i = 1 \/ i = 2
      OBVIOUS
    <3>3. /\ \A i \in 1 .. 3 - 1 : ~(s[i] = NL /\ s[i + 1] = NL)
          /\ \A i \in 1 .. 3 - 1 :
               (IsData(s[i]) \/ (s[i] = CR /\ i > 1 /\ IsData(s[i - 1]))) <=> i <= k
          /\ k \in Nat /\ k < 3 /\ 3 \in Nat /\ 3 >= 1
          /\ 3 + 1 <= Len(s) /\ s[3 + 1] = NL /\ 3 + 2 = 5
      BY <1>3, <2>2, <3>1, <3>2
    <3> HIDE DEF k
    <3>4. /\ Boundaries(s) # {} /\ EventData(s) = [i \in 1 .. k |-> s[i]]
          /\ AfterEvent(s) = SubSeq(s, 5, 4)
      BY <1>6, <3>1, <3>3
    <3>5. SubSeq(s, 5, 4) = << >>
      BY SubSeqEmpty
    <3>6. IF said THEN EventData(s) = Halves(x) ELSE EventData(s) = << >>
      BY <1>7, <2>3, <3>4 DEF k
    <3> QED  BY <1>10, <2>1, <3>4, <3>5, <3>6 DEF a, s, L, x, said
  <2>5. CASE a = 2 /\ h
    <3>1. Len(s) = 5 /\ s[3] = CR /\ s[4] = NL /\ s[5] = NL
      <4>1. Len(L) = 3 /\ L[3] = CR
        BY <2>1, <2>5
      <4> QED  BY <1>5, <4>1
    <3> DEFINE l == IF said THEN 3 ELSE 0
    <3>2. \A i \in 1 .. 4 - 1 : i = 1 \/ i = 2 \/ i = 3
      OBVIOUS
    <3>3. /\ \A i \in 1 .. 4 - 1 : ~(s[i] = NL /\ s[i + 1] = NL)
          /\ \A i \in 1 .. 4 - 1 :
               (IsData(s[i]) \/ (s[i] = CR /\ i > 1 /\ IsData(s[i - 1]))) <=> i <= l
          /\ l \in Nat /\ l < 4 /\ 4 \in Nat /\ 4 >= 1
          /\ 4 + 1 <= Len(s) /\ s[4 + 1] = NL /\ 4 + 2 = 6
      BY <1>3, <2>2, <3>1, <3>2
    <3> HIDE DEF l
    <3>4. /\ Boundaries(s) # {} /\ EventData(s) = [i \in 1 .. l |-> s[i]]
          /\ AfterEvent(s) = SubSeq(s, 6, 5)
      BY <1>6, <3>1, <3>3
    <3>5. SubSeq(s, 6, 5) = << >>
      BY SubSeqEmpty
    <3>6. [i \in 1 .. 3 |-> s[i]] = Halves(x) \o <<CR>>
      <4>1. [i \in 1 .. 3 |-> s[i]] = <<Half(x, 1), Half(x, 2), CR>>
        BY <2>2, <3>1
      <4>2. <<Half(x, 1), Half(x, 2), CR>> = <<Half(x, 1), Half(x, 2)>> \o <<CR>>
        OBVIOUS
      <4> QED  BY <4>1, <4>2 DEF Halves
    <3>7. IF said THEN EventData(s) = Halves(x) \o <<CR>> ELSE EventData(s) = << >>
      BY <1>7, <3>4, <3>6 DEF l
    <3>8. a # 0 /\ a # 1
      BY ONLY <2>5
    <3> QED  BY ONLY <3>4, <3>5, <3>7, <3>8 DEF a, s, L, x, said
  <2>6. CASE a = 3 /\ ~h
    <3>1. Len(s) = 5 /\ s[3] = NL /\ s[4] = NL /\ s[5] = NL
      <4>1. Len(L) = 3 /\ L[3] = NL
        BY <2>1, <2>6
      <4> QED  BY <1>5, <4>1
    <3>2. \A i \in 1 .. 3 - 1 : i = 1 \/ i = 2
      OBVIOUS
    <3>3. /\ \A i \in 1 .. 3 - 1 : ~(s[i] = NL /\ s[i + 1] = NL)
          /\ \A i \in 1 .. 3 - 1 :
               (IsData(s[i]) \/ (s[i] = CR /\ i > 1 /\ IsData(s[i - 1]))) <=> i <= k
          /\ k \in Nat /\ k < 3 /\ 3 \in Nat /\ 3 >= 1
          /\ 3 + 1 <= Len(s) /\ s[3 + 1] = NL /\ 3 + 2 = 5
      BY <1>3, <2>2, <3>1, <3>2
    <3> HIDE DEF k
    <3>4. /\ Boundaries(s) # {} /\ EventData(s) = [i \in 1 .. k |-> s[i]]
          /\ AfterEvent(s) = SubSeq(s, 5, 5)
      BY <1>6, <3>1, <3>3
    <3>5. SubSeq(s, 5, 5) = <<NL>>
      <4> DEFINE r == SubSeq(s, 5, 5)
      <4>1. r \in Seq(T) /\ Len(r) = 1 /\ r[1] = NL
        <5>1. \A i \in 5 .. 5 : s[i] \in T
          BY <1>4, <3>1
        <5>2. /\ r \in Seq(T) /\ Len(r) = IF 5 <= 5 THEN 5 - 5 + 1 ELSE 0
              /\ \A i \in 1 .. 5 - 5 + 1 : r[i] = s[5 + i - 1]
          BY <5>1, SubSeqProperties
        <5> HIDE DEF r
        <5>3. 1 \in 1 .. 5 - 5 + 1 /\ 5 + 1 - 1 = 5
          OBVIOUS
        <5> QED  BY <3>1, <5>2, <5>3
      <4> HIDE DEF r
      <4>2. r = <<NL>>
        BY <4>1
      <4> QED  BY <4>2 DEF r
    <3>6. IF said THEN EventData(s) = Halves(x) ELSE EventData(s) = << >>
      BY <1>7, <2>3, <3>4 DEF k
    <3>7. a # 0 /\ a # 1
      BY ONLY <2>6
    <3> QED  BY ONLY <3>4, <3>5, <3>6, <3>7 DEF a, s, L, x, said
  <2>7. CASE a = 3 /\ h
    <3>1. Len(s) = 6 /\ s[3] = NL /\ s[4] = CR /\ s[5] = NL /\ s[6] = NL
      <4>1. Len(L) = 4 /\ L[3] = NL /\ L[4] = CR
        BY <2>1, <2>7
      <4> QED  BY <1>5, <4>1
    <3>2. \A i \in 1 .. 5 - 1 : i = 1 \/ i = 2 \/ i = 3 \/ i = 4
      OBVIOUS
    <3>3. /\ \A i \in 1 .. 5 - 1 : ~(s[i] = NL /\ s[i + 1] = NL)
          /\ \A i \in 1 .. 5 - 1 :
               (IsData(s[i]) \/ (s[i] = CR /\ i > 1 /\ IsData(s[i - 1]))) <=> i <= k
          /\ k \in Nat /\ k < 5 /\ 5 \in Nat /\ 5 >= 1
          /\ 5 + 1 <= Len(s) /\ s[5 + 1] = NL /\ 5 + 2 = 7
      BY <1>3, <2>2, <3>1, <3>2
    <3> HIDE DEF k
    <3>4. /\ Boundaries(s) # {} /\ EventData(s) = [i \in 1 .. k |-> s[i]]
          /\ AfterEvent(s) = SubSeq(s, 7, 6)
      BY <1>6, <3>1, <3>3
    <3>5. SubSeq(s, 7, 6) = << >>
      BY SubSeqEmpty
    <3>6. IF said THEN EventData(s) = Halves(x) ELSE EventData(s) = << >>
      BY <1>7, <2>3, <3>4 DEF k
    <3> QED  BY <1>10, <2>1, <3>4, <3>5, <3>6 DEF a, s, L, x, said
  <2> QED  BY <2>1, <2>4, <2>5, <2>6, <2>7
<1>11. a = 0 \/ a = 1 \/ a >= 2
  BY ONLY <1>1
<1> QED  BY ONLY <1>8, <1>9, <1>10, <1>11

-------------------------------------------------------------------------------
(* What was sent, and how much of it has arrived.                          *)
Payloads(ps) == {ps[i] : i \in DOMAIN ps}

Received(ps, crlf, cut, p) ==
  /\ ps \in Bodies /\ crlf \in BOOLEAN /\ cut \in Nat /\ p \in 0 .. cut
  /\ cut <= Len(Stream(ps, crlf))
  /\ body = SubSeq(Stream(ps, crlf), p + 1, cut)
  /\ sentBody = Whole(ps, crlf, cut)
  /\ entire = (cut = Len(Stream(ps, crlf)))

(* The first m events have been taken from the buffer.                     *)
Buffered(s, ps, crlf, cut, p, m) ==
  \/ /\ ~ended /\ 4 * m <= Clean(p, crlf)
     /\ s = Left(ps, m, p, crlf)
  \/ /\ ended /\ p = cut /\ 4 * m <= Clean(p, crlf) /\ Clean(p, crlf) < 4 * m + 4
     /\ s = Left(ps, m, p, crlf) \o <<NL, NL>>
  \/ /\ ended /\ m = Len(sentBody)
     /\ s \in {<< >>, <<NL>>}

(* How many payloads are whole.                                            *)
LEMMA Counted ==
  ASSUME NEW n \in Nat, NEW c \in Nat, c <= 4 * n, NEW w \in 0 .. n,
         \A i \in 1 .. n : i <= w <=> 4 * i - 2 <= c,
         NEW m \in Nat, 4 * m <= c
  PROVE  /\ m <= w /\ m <= n
         /\ 4 * m + 4 <= c => m + 1 <= w
         /\ c < 4 * m + 4 => IF c - 4 * m >= 2 THEN w = m + 1 ELSE w = m
<1>1. m <= n
  OBVIOUS
<1>2. m <= w
  <2>1. CASE m = 0
    BY <2>1
  <2>2. CASE m # 0
    <3>1. m \in 1 .. n /\ 4 * m - 2 <= c
      BY <1>1, <2>2
    <3> QED  BY <3>1
  <2> QED  BY <2>1, <2>2
<1>3. 4 * m + 4 <= c => m + 1 <= w
  <2>1. 4 * m + 4 <= c => m + 1 \in 1 .. n /\ 4 * (m + 1) - 2 <= c
    OBVIOUS
  <2> QED  BY <2>1
<1>4. ASSUME c < 4 * m + 4 PROVE IF c - 4 * m >= 2 THEN w = m + 1 ELSE w = m
  <2>1. w <= m + 1
    <3>1. CASE w = 0
      BY <3>1
    <3>2. CASE w # 0
      <4>1. w \in 1 .. n /\ w <= w
        BY <3>2
      <4>2. 4 * w - 2 <= c
        BY <4>1
      <4> QED  BY <1>4, <4>2
    <3> QED  BY <3>1, <3>2
  <2>2. CASE c - 4 * m >= 2
    <3>1. m + 1 \in 1 .. n /\ 4 * (m + 1) - 2 <= c
      BY <2>2
    <3>2. m + 1 <= w
      BY <3>1
    <3> QED  BY <2>1, <2>2, <3>2
  <2>3. CASE ~(c - 4 * m >= 2)
    <3>1. m + 1 \in 1 .. n => ~(4 * (m + 1) - 2 <= c)
      BY <2>3
    <3>2. ~(m + 1 <= w)
      BY <3>1
    <3> QED  BY <1>2, <2>3, <3>2
  <2> QED  BY <2>2, <2>3
<1> QED  BY <1>1, <1>2, <1>3, <1>4

(* The payloads that were sent whole are the first of the body.            *)
LEMMA SentIs ==
  ASSUME NEW ps, NEW crlf, NEW cut, NEW p, Received(ps, crlf, cut, p)
  PROVE  /\ ps \in Seq(Payloads(ps)) /\ sentBody \in Seq(Payloads(ps))
         /\ crlf \in BOOLEAN /\ cut \in Nat /\ p \in Nat /\ p <= cut
         /\ cut <= Len(Stream(ps, crlf)) /\ p <= Len(Stream(ps, crlf))
         /\ Len(sentBody) \in 0 .. Len(ps)
         /\ \A i \in 1 .. Len(sentBody) : sentBody[i] = ps[i]
         /\ \A i \in 1 .. Len(ps) : i <= Len(sentBody) <=> 4 * i - 2 <= Clean(cut, crlf)
         /\ Clean(p, crlf) \in Nat /\ Clean(cut, crlf) \in Nat
         /\ Clean(p, crlf) <= Clean(cut, crlf) /\ Clean(cut, crlf) <= 4 * Len(ps)
         /\ entire => Clean(cut, crlf) = 4 * Len(ps)
         /\ \A i \in DOMAIN sentBody : sentBody[i].type = "done" => sentBody[i] = Done
<1> DEFINE P == Payloads(ps)
           S == Stream(ps, crlf)
<1>1. /\ ps \in Bodies /\ crlf \in BOOLEAN /\ cut \in Nat /\ p \in Nat /\ p <= cut
      /\ cut <= Len(S) /\ sentBody = Whole(ps, crlf, cut) /\ entire = (cut = Len(S))
  BY DEF Received
<1>2. ps \in Seq(P) /\ \A i \in DOMAIN ps : ps[i].type = "done" => ps[i] = Done
  BY <1>1, BodyAssumption DEF Payloads
<1>3. Len(S) \in Nat /\ Clean(Len(S), crlf) = 4 * Len(ps)
  <2>1. S \in Seq(Tokens(P)) /\ Clean(Len(S), crlf) = 4 * Len(ps)
    BY <1>1, <1>2, StreamIs
  <2> HIDE DEF S
  <2> QED  BY <2>1
<1> HIDE DEF P, S
<1>4. /\ Clean(p, crlf) \in Nat /\ Clean(p, crlf) <= Clean(cut, crlf)
      /\ Clean(cut, crlf) \in Nat /\ Clean(cut, crlf) <= Clean(Len(S), crlf)
  BY <1>1, <1>3, CleanGrows
<1>5. PICK w \in 0 .. Len(ps) :
        /\ Whole(ps, crlf, cut) = First(ps, w)
        /\ \A i \in 1 .. Len(ps) : i <= w <=> 4 * i - 2 <= Clean(cut, crlf)
  BY <1>1, <1>2, WholeIs DEF S
<1>6. /\ sentBody \in Seq(P) /\ Len(sentBody) = w
      /\ \A i \in 1 .. w : sentBody[i] = ps[i]
  <2>1. /\ First(ps, w) \in Seq(P) /\ Len(First(ps, w)) = w
        /\ \A i \in 1 .. w : First(ps, w)[i] = ps[i]
    BY <1>2, <1>5, FirstNext
  <2> QED  BY <1>1, <1>5, <2>1
<1>7. \A i \in DOMAIN sentBody : sentBody[i].type = "done" => sentBody[i] = Done
  <2>1. DOMAIN sentBody = 1 .. w /\ 1 .. w \subseteq DOMAIN ps
    BY <1>2, <1>5, <1>6
  <2> QED  BY <1>2, <1>6, <2>1
<1>8. entire => Clean(cut, crlf) = 4 * Len(ps)
  BY <1>1, <1>3
<1>9. Clean(cut, crlf) <= 4 * Len(ps) /\ p <= Len(S)
  BY <1>1, <1>3, <1>4
<1> QED  BY <1>1, <1>2, <1>4, <1>5, <1>6, <1>7, <1>8, <1>9 DEF P, S

(* What the next event of the buffer says, and what it leaves.             *)
LEMMA EventOf ==
  ASSUME NEW ps, NEW crlf, NEW cut, NEW p, Received(ps, crlf, cut, p),
         NEW m \in Nat, Buffered(buffer, ps, crlf, cut, p, m)
  PROVE  IF Boundaries(buffer) = {} THEN ended => m = Len(sentBody)
         ELSE \/ /\ EventData(buffer) = << >>
                 /\ \/ Buffered(AfterEvent(buffer), ps, crlf, cut, p, m)
                    \/ /\ m + 1 \in 1 .. Len(sentBody) /\ sentBody[m + 1].type = "comment"
                       /\ Buffered(AfterEvent(buffer), ps, crlf, cut, p, m + 1)
              \/ /\ m + 1 \in 1 .. Len(sentBody)
                 /\ \/ EventData(buffer) = Halves(sentBody[m + 1])
                    \/ EventData(buffer) = Halves(sentBody[m + 1]) \o <<CR>> /\ ~entire
                 /\ Buffered(AfterEvent(buffer), ps, crlf, cut, p, m + 1)
              \/ /\ ~entire
                 /\ \E x : EventData(buffer) = <<Half(x, 1)>>
<1> DEFINE P == Payloads(ps)
           n == Len(ps)
           w == Len(sentBody)
           L == Left(ps, m, p, crlf)
           x == ps[m + 1]
           rest == AfterEvent(buffer)
           cl(q) == Clean(q, crlf)
<1>1. /\ ps \in Seq(P) /\ crlf \in BOOLEAN /\ p \in Nat /\ p <= Len(Stream(ps, crlf))
      /\ n \in Nat /\ w \in 0 .. n
      /\ \A i \in 1 .. w : sentBody[i] = ps[i]
      /\ \A i \in 1 .. n : i <= w <=> 4 * i - 2 <= cl(cut)
      /\ cl(p) \in Nat /\ cl(cut) \in Nat /\ cl(p) <= cl(cut) /\ cl(cut) <= 4 * n
      /\ entire => cl(cut) = 4 * n
  <2>1. /\ ps \in Seq(P) /\ sentBody \in Seq(P)
        /\ w \in 0 .. n
    BY SentIs
  <2>2. /\ crlf \in BOOLEAN /\ p \in Nat /\ p <= Len(Stream(ps, crlf))
        /\ \A i \in 1 .. w : sentBody[i] = ps[i]
    BY SentIs
  <2>3. /\ \A i \in 1 .. n : i <= w <=> 4 * i - 2 <= cl(cut)
        /\ cl(p) \in Nat /\ cl(cut) \in Nat /\ cl(p) <= cl(cut) /\ cl(cut) <= 4 * n
        /\ entire => cl(cut) = 4 * n
    BY SentIs
  <2>4. n \in Nat
    BY <2>1
  <2> QED  BY ONLY <2>1, <2>2, <2>3, <2>4
<1> HIDE DEF P, n, w
<1>2. m + 1 \in 1 .. w => sentBody[m + 1] = x
  BY <1>1
<1>3. CASE ~ended
  <2>1. 4 * m <= cl(p) /\ buffer = L
    BY <1>3 DEF Buffered
  <2>2. IF cl(p) < 4 * m + 4
          THEN Boundaries(L) = {}
          ELSE /\ Boundaries(L) # {} /\ m < n
               /\ EventData(L) = IF x.type = "comment" THEN << >> ELSE Halves(x)
               /\ AfterEvent(L) = Left(ps, m + 1, p, crlf)
    <3> HIDE DEF L, x
    <3> QED  BY <1>1, <2>1, EventLeft DEF L, x, n
  <2>3. CASE cl(p) < 4 * m + 4
    BY <1>3, <2>1, <2>2, <2>3
  <2>4. CASE ~(cl(p) < 4 * m + 4)
    <3>1. m + 1 \in 1 .. w
      <4> HIDE DEF cl
      <4>1. 4 * m <= cl(cut) /\ 4 * m + 4 <= cl(cut)
        BY ONLY <1>1, <2>1, <2>4
      <4>2. m + 1 <= w
        BY ONLY <1>1, <4>1, Counted, m \in Nat
      <4> QED  BY ONLY <1>1, <4>2, m \in Nat
    <3>2. Buffered(rest, ps, crlf, cut, p, m + 1)
      <4> HIDE DEF cl
      <4>1. 4 * (m + 1) <= cl(p)
        BY ONLY <1>1, <2>4, m \in Nat
      <4>2. rest = Left(ps, m + 1, p, crlf)
        BY <2>1, <2>2, <2>4
      <4> QED  BY <1>3, <4>1, <4>2 DEF Buffered, cl
    <3>3. /\ Boundaries(buffer) # {}
          /\ EventData(buffer) = IF x.type = "comment" THEN << >> ELSE Halves(x)
      BY <2>1, <2>2, <2>4
    <3> HIDE DEF x, rest, L
    <3> QED  BY <1>2, <3>1, <3>2, <3>3 DEF w, rest
  <2> QED  BY <2>3, <2>4
<1>4. CASE ended /\ m = w /\ buffer \in {<< >>, <<NL>>}
  <2>1. Boundaries(buffer) = {}
    <3>1. Len(buffer) \in {0, 1}
      BY <1>4
    <3> DEFINE l == Len(buffer)
    <3>2. \A i \in 1 .. l - 1 : FALSE
      <4>1. l = 0 \/ l = 1
        BY ONLY <3>1
      <4> HIDE DEF l
      <4> QED  BY ONLY <4>1
    <3> QED  BY ONLY <3>2 DEF Boundaries
  <2> QED  BY <1>4, <2>1 DEF w
<1>5. CASE /\ ended /\ p = cut /\ 4 * m <= cl(p) /\ cl(p) < 4 * m + 4
           /\ buffer = L \o <<NL, NL>>
  <2> DEFINE a == cl(p) - 4 * m
             ds == EventData(buffer)
  <2>1. /\ Boundaries(buffer) # {} /\ rest \in {<< >>, <<NL>>}
        /\ a = 0 => ds = << >>
        /\ a = 1 => ds \in {<< >>, <<Half(x, 1)>>}
        /\ a >= 2 => IF x.type = "comment" THEN ds = << >>
                     ELSE ds \in {Halves(x), Halves(x) \o <<CR>>}
    <3> DEFINE s == L \o <<NL, NL>>
    <3>1. /\ Boundaries(s) # {} /\ AfterEvent(s) \in {<< >>, <<NL>>}
          /\ a = 0 => EventData(s) = << >>
          /\ a = 1 => EventData(s) \in {<< >>, <<Half(x, 1)>>}
          /\ a >= 2 => IF x.type = "comment" THEN EventData(s) = << >>
                       ELSE EventData(s) \in {Halves(x), Halves(x) \o <<CR>>}
      <4>1. 4 * m <= Clean(p, crlf) /\ Clean(p, crlf) < 4 * m + 4
        BY <1>5
      <4> QED  BY <1>1, <4>1, EventLast
    <3>2. buffer = s
      BY <1>5
    <3> HIDE DEF s, a
    <3> QED  BY <3>1, <3>2
  <2> HIDE DEF cl, ds, rest, L, x
  <2>2. a \in 0 .. 3 /\ (a # 0 => ~entire) /\ (IF a >= 2 THEN w = m + 1 ELSE w = m)
    <3>1. a \in 0 .. 3
      BY ONLY <1>1, <1>5, m \in Nat
    <3>2. a # 0 => ~entire
      BY ONLY <1>1, <1>5, m \in Nat
    <3>3. cl(cut) = cl(p) /\ 4 * m <= cl(cut) /\ cl(cut) < 4 * m + 4
      BY ONLY <1>5
    <3>4. IF cl(cut) - 4 * m >= 2 THEN w = m + 1 ELSE w = m
      <4> DEFINE c == cl(cut)
      <4>1. /\ n \in Nat /\ c \in Nat /\ c <= 4 * n /\ w \in 0 .. n
            /\ \A i \in 1 .. n : i <= w <=> 4 * i - 2 <= c
        BY ONLY <1>1
      <4>2. 4 * m <= c /\ c < 4 * m + 4
        BY ONLY <3>3
      <4> HIDE DEF c
      <4>3. c < 4 * m + 4 => IF c - 4 * m >= 2 THEN w = m + 1 ELSE w = m
        BY ONLY <4>1, <4>2, Counted, m \in Nat
      <4> QED  BY ONLY <4>2, <4>3 DEF c
    <3> QED  BY ONLY <3>1, <3>2, <3>3, <3>4
  <2> HIDE DEF a
  <2>3. a = 0 \/ a = 1 \/ (a >= 2 /\ a # 0 /\ a # 1)
    BY ONLY <2>2
  <2>4. w = m => Buffered(rest, ps, crlf, cut, p, m)
    BY <1>5, <2>1 DEF Buffered, w
  <2>5. w = m + 1 => Buffered(rest, ps, crlf, cut, p, m + 1) /\ m + 1 \in 1 .. w
    BY <1>1, <1>5, <2>1 DEF Buffered, w
  <2>6. CASE a = 0
    BY <2>1, <2>2, <2>4, <2>6 DEF ds, rest
  <2>7. CASE a = 1
    BY <2>1, <2>2, <2>4, <2>7 DEF ds, rest
  <2>8. CASE a >= 2 /\ a # 0 /\ a # 1
    <3>1. /\ w = m + 1 /\ ~entire /\ Buffered(rest, ps, crlf, cut, p, m + 1)
          /\ m + 1 \in 1 .. w /\ sentBody[m + 1] = x
      BY <1>2, <2>2, <2>5, <2>8
    <3>2. IF x.type = "comment" THEN ds = << >> ELSE ds \in {Halves(x), Halves(x) \o <<CR>>}
      BY <2>1, <2>8
    <3> QED  BY <2>1, <3>1, <3>2 DEF w, ds, rest
  <2> QED  BY <2>3, <2>6, <2>7, <2>8
<1>6. \/ ~ended
      \/ ended /\ m = w /\ buffer \in {<< >>, <<NL>>}
      \/ /\ ended /\ p = cut /\ 4 * m <= cl(p) /\ cl(p) < 4 * m + 4
         /\ buffer = L \o <<NL, NL>>
  BY DEF Buffered, w
<1> QED  BY <1>3, <1>4, <1>5, <1>6

(* The answer so far is what the first m payloads say.                     *)
Told(m) ==
  /\ sentBody \in Seq(Payloads(sentBody)) /\ m \in 0 .. Len(sentBody)
  /\ \A i \in DOMAIN sentBody : sentBody[i].type = "done" => sentBody[i] = Done
  /\ \A i \in 1 .. m : sentBody[i].type \notin {"garbled", "error", "done"}
  /\ text = TextsOf(First(sentBody, m)) /\ delivered = text
  /\ calls = CallsOf(First(sentBody, m))
  /\ sawChoice <=> text # << >> \/ DOMAIN calls # {}

(* Before a body is accepted there is no answer; while it is read the      *)
(* buffer is what has arrived of the events not yet taken; and the answer  *)
(* is finished at the end of the body, or at [DONE].                       *)
BodyInv ==
  /\ FaithfulAnswer
  /\ pc \in Before \cup {"read", "finish", "done"}
  /\ pc # "done" => result = NoResult
  /\ pc \in Before =>
       /\ sentBody = << >> /\ buffer = << >> /\ ~ended
       /\ text = << >> /\ calls = NoCalls /\ ~sawChoice /\ delivered = << >>
  /\ pc = "read" =>
       \E ps \in Bodies, crlf \in BOOLEAN : \E cut \in 0 .. Len(Stream(ps, crlf)) :
         \E p \in 0 .. cut, m \in 0 .. Len(sentBody) :
           /\ Received(ps, crlf, cut, p)
           /\ Buffered(buffer, ps, crlf, cut, p, m)
           /\ Told(m)
  /\ pc = "finish" =>
       \E m \in 0 .. Len(sentBody) : Told(m) /\ Until(sentBody) = First(sentBody, m)
-------------------------------------------------------------------------------
(* The data of an event, and whether it parses.                            *)
LEMMA ParsesIs ==
  ASSUME NEW x
  PROVE  /\ Halves(x)[1][2] = x
         /\ Parses(Halves(x)) <=> x.type \notin {"garbled", "done"}
         /\ (Halves(x) \o <<CR>>)[1][2] = x
         /\ Parses(Halves(x) \o <<CR>>) <=> x.type \notin {"garbled", "done"}
         /\ ~Parses(<<Half(x, 1)>>)
         /\ Halves(x) # << >> /\ Halves(x) \o <<CR>> # << >> /\ <<Half(x, 1)>> # << >>
         /\ Halves(x) = Halves(Done) <=> x = Done
         /\ Halves(x) \o <<CR>> # Halves(Done) /\ <<Half(x, 1)>> # Halves(Done)
<1> DEFINE A == <<Half(x, 1), Half(x, 2)>>
           B == <<Half(x, 1), Half(x, 2), CR>>
           C == <<Half(x, 1)>>
           D == Halves(Done)
           bad == x.type \in {"garbled", "done"}
<1>1. Halves(x) = A /\ Halves(x) \o <<CR>> = B
  <2>1. Halves(x) = A
    BY DEF Halves
  <2>2. B = A \o <<CR>>
    OBVIOUS
  <2> HIDE DEF A, B
  <2> QED  BY <2>1, <2>2
<1>2. /\ Len(A) = 2 /\ Len(B) = 3 /\ Len(C) = 1 /\ Len(D) = 2
      /\ A # << >> /\ B # << >> /\ C # << >>
      /\ A[1] = Half(x, 1) /\ B[1] = Half(x, 1) /\ C[1] = Half(x, 1) /\ D[1] = Half(Done, 1)
  <2>1. D = <<Half(Done, 1), Half(Done, 2)>>
    BY DEF Halves
  <2>2. Len(A) = 2 /\ Len(B) = 3 /\ Len(C) = 1 /\ Len(D) = 2
    BY <2>1
  <2>3. A[1] = Half(x, 1) /\ B[1] = Half(x, 1) /\ C[1] = Half(x, 1) /\ D[1] = Half(Done, 1)
    BY <2>1
  <2>4. A # << >> /\ B # << >> /\ C # << >>
    OBVIOUS
  <2> QED  BY <2>2, <2>3, <2>4
<1>3. Half(x, 1)[2] = x /\ Half(Done, 1)[2] = Done
  BY TokenFacts
<1>4. A = D <=> x = Done
  BY <1>1, <1>2, <1>3
<1>5. B # D /\ C # D /\ C # A /\ C # B
  BY <1>2
<1>6. /\ Parses(A) <=> A \in {A, B} /\ ~bad
      /\ Parses(B) <=> B \in {A, B} /\ ~bad
      /\ Parses(C) <=> C \in {A, B} /\ ~bad
  <2> HIDE DEF A, B, C
  <2> QED  BY <1>1, <1>2, <1>3 DEF Parses
<1> HIDE DEF A, B, C, D
<1> QED  BY <1>1, <1>2, <1>3, <1>4, <1>5, <1>6 DEF C, D

(* Nothing told of nothing.                                                *)
LEMMA NothingTold ==
  First(<< >>, 0) = << >> /\ TextsOf(<< >>) = << >> /\ CallsOf(<< >>) = NoCalls
<1>1. First(<< >>, 0) = << >>
  BY SubSeqEmpty DEF First
<1>2. {i \in DOMAIN << >> : << >>[i].type = "text"} = {}
  OBVIOUS
<1>3. Pick(<< >>, {}) = [x \in 1 .. 0 |-> << >>[[y \in {} |-> y][x]]]
  <2>1. Lists([x \in {} |-> x], 0, {})
    BY DEF Lists
  <2> QED  BY <2>1, PickIs
<1>4. TextsOf(<< >>) = << >>
  <2>1. DOMAIN Pick(<< >>, {}) = {}
    BY <1>3
  <2>2. TextsOf(<< >>) = [i \in {} |-> Pick(<< >>, {})[i].delta]
    BY <1>2, <2>1 DEF TextsOf
  <2> QED  BY <2>2
<1>5. CallsOf(<< >>) = NoCalls
  <2>1. {<< >>[i].index : i \in {j \in DOMAIN << >> : << >>[j].type = "call"}} = {}
    OBVIOUS
  <2>2. \A F : [k \in {} |-> F[k]] = << >>
    OBVIOUS
  <2>3. DOMAIN CallsOf(<< >>) = {}
    BY <2>1 DEF CallsOf
  <2>4. CallsOf(<< >>) = [k \in {} |-> CallsOf(<< >>)[k]]
    BY <2>1, <2>3 DEF CallsOf
  <2> QED  BY <2>2, <2>4 DEF NoCalls
<1> QED  BY <1>1, <1>4, <1>5

(* One payload more was told.                                              *)
LEMMA ToldNext ==
  ASSUME NEW m, Told(m), m + 1 \in 1 .. Len(sentBody), UNCHANGED sentBody,
         sentBody[m + 1].type \notin {"garbled", "error", "done"},
         IF sentBody[m + 1].type = "text"
           THEN /\ text' = Append(text, sentBody[m + 1].delta)
                /\ delivered' = Append(delivered, sentBody[m + 1].delta)
           ELSE UNCHANGED <<text, delivered>>,
         IF sentBody[m + 1].type = "call"
           THEN calls' = WithFragment(sentBody[m + 1].index, sentBody[m + 1].part)
           ELSE UNCHANGED calls,
         IF sentBody[m + 1].type \in {"text", "call"}
           THEN sawChoice' = TRUE ELSE UNCHANGED sawChoice
  PROVE  Told(m + 1)'
<1> DEFINE P == Payloads(sentBody)
           x == sentBody[m + 1]
           f == First(sentBody, m)
           n == Len(sentBody)
<1>1. sentBody \in Seq(P) /\ n \in Nat /\ m \in 0 .. n /\ m + 1 \in 0 .. n /\ m + 1 \in 1 .. n /\ m < n
  BY DEF Told
<1>2. x \in P /\ f \in Seq(P) /\ First(sentBody, m + 1) = Append(f, x)
  BY <1>1, FirstNext
<1>3. /\ TextsOf(f) \in Seq({q.delta : q \in P})
      /\ TextsOf(Append(f, x)) =
           IF x.type = "text" THEN Append(TextsOf(f), x.delta) ELSE TextsOf(f)
      /\ CallsOf(Append(f, x)) =
           IF x.type = "call"
             THEN [i \in DOMAIN CallsOf(f) \cup {x.index} |->
                     IF i # x.index THEN CallsOf(f)[i]
                     ELSE IF i \in DOMAIN CallsOf(f) THEN Append(CallsOf(f)[i], x.part)
                     ELSE <<x.part>>]
             ELSE CallsOf(f)
  <2> HIDE DEF P, f, x
  <2>1. /\ TextsOf(f) \in Seq({q.delta : q \in P})
        /\ TextsOf(Append(f, x)) =
             IF x.type = "text" THEN Append(TextsOf(f), x.delta) ELSE TextsOf(f)
    BY <1>2, TextsAppend
  <2>2. CallsOf(Append(f, x)) =
          IF x.type = "call"
            THEN [i \in DOMAIN CallsOf(f) \cup {x.index} |->
                    IF i # x.index THEN CallsOf(f)[i]
                    ELSE IF i \in DOMAIN CallsOf(f) THEN Append(CallsOf(f)[i], x.part)
                    ELSE <<x.part>>]
            ELSE CallsOf(f)
    BY <1>2, CallsAppend
  <2> QED  BY <2>1, <2>2
<1>4. /\ \A i \in DOMAIN sentBody : sentBody[i].type = "done" => sentBody[i] = Done
      /\ \A i \in 1 .. m : sentBody[i].type \notin {"garbled", "error", "done"}
      /\ text = TextsOf(f) /\ delivered = text /\ calls = CallsOf(f)
      /\ sawChoice <=> text # << >> \/ DOMAIN calls # {}
  BY DEF Told
<1>5. \A i \in 1 .. m + 1 : sentBody[i].type \notin {"garbled", "error", "done"}
  <2>1. \A i \in 1 .. m + 1 : i \in 1 .. m \/ i = m + 1
    BY <1>1
  <2> QED  BY <1>4, <2>1
<1> DEFINE g == First(sentBody, m + 1)
<1>6. text' = TextsOf(g) /\ delivered' = text'
  BY <1>2, <1>3, <1>4
<1>7. calls' = CallsOf(g)
  <2>1. CASE x.type = "call"
    <3> DEFINE F(c) == [i \in DOMAIN c \cup {x.index} |->
                          IF i # x.index THEN c[i]
                          ELSE IF i \in DOMAIN c THEN Append(c[i], x.part) ELSE <<x.part>>]
    <3>1. calls' = F(calls)
      BY <2>1 DEF WithFragment
    <3>2. CallsOf(Append(f, x)) = F(CallsOf(f))
      BY <1>3, <2>1
    <3>3. calls = CallsOf(f) /\ g = Append(f, x)
      BY <1>2, <1>4
    <3> HIDE DEF f, x, g, F
    <3> QED  BY ONLY <3>1, <3>2, <3>3
  <2>2. CASE x.type # "call"
    BY <1>2, <1>3, <1>4, <2>2
  <2> QED  BY <2>1, <2>2
<1>8. sawChoice' <=> text' # << >> \/ DOMAIN calls' # {}
  <2>1. CASE x.type = "text"
    <3>1. sawChoice' /\ text' = Append(TextsOf(f), x.delta)
      BY <1>4, <2>1
    <3>2. text' # << >>
      BY <1>3, <3>1
    <3> QED  BY <3>1, <3>2
  <2>2. CASE x.type = "call"
    <3>1. sawChoice' /\ x.index \in DOMAIN calls'
      BY <2>2 DEF WithFragment
    <3> QED  BY <3>1
  <2>3. CASE x.type \notin {"text", "call"}
    BY <1>4, <2>3
  <2> QED  BY <2>1, <2>2, <2>3
<1>9. sentBody' = sentBody
  OBVIOUS
<1> HIDE DEF x, f, P, g
<1>10. /\ sentBody' \in Seq(Payloads(sentBody')) /\ m + 1 \in 0 .. Len(sentBody')
       /\ \A i \in DOMAIN sentBody' : sentBody'[i].type = "done" => sentBody'[i] = Done
       /\ \A i \in 1 .. m + 1 : sentBody'[i].type \notin {"garbled", "error", "done"}
       /\ text' = TextsOf(First(sentBody', m + 1)) /\ calls' = CallsOf(First(sentBody', m + 1))
  BY <1>1, <1>4, <1>5, <1>6, <1>7, <1>9 DEF P, g
<1> QED  BY <1>6, <1>8, <1>10 DEF Told

(* The payloads told so far stay told.                                     *)
LEMMA ToldStays ==
  ASSUME NEW m, Told(m), UNCHANGED <<sentBody, answer>>
  PROVE  Told(m)'
BY DEF Told, answer

-------------------------------------------------------------------------------
(* The payloads told begin what the body says.                             *)
LEMMA SaidIs ==
  ASSUME NEW P, NEW ps \in Seq(P), NEW m \in 0 .. Len(ps), \A i \in 1 .. m : ps[i] # Done
  PROVE  /\ Starts(TextsOf(First(ps, m)), TextsOf(Until(ps)))
         /\ \A i \in 1 .. m : i \in DOMAIN Until(ps) /\ Until(ps)[i] = ps[i]
<1>1. PICK e \in m .. Len(ps) : Until(ps) = First(ps, e)
  BY UntilIs
<1>2. e \in 0 .. Len(ps) /\ 1 .. m \subseteq 1 .. e
  OBVIOUS
<1>3. /\ First(ps, e) \in Seq(P) /\ Len(First(ps, e)) = e
      /\ \A i \in 1 .. e : First(ps, e)[i] = ps[i]
  BY <1>2, FirstNext
<1>4. DOMAIN First(ps, e) = 1 .. e
  BY <1>3
<1> QED  BY <1>1, <1>2, <1>3, <1>4, TextsGrow

(* No call has no fragments.                                               *)
LEMMA NoCallsIs ==
  ASSUME NEW ps
  PROVE  DOMAIN CallsOf(ps) = {} <=> CallsOf(ps) = NoCalls
<1> DEFINE K == {ps[i].index : i \in {j \in DOMAIN ps : ps[j].type = "call"}}
           c == CallsOf(ps)
<1>1. c = [k \in K |-> c[k]] /\ DOMAIN c = K
  BY DEF CallsOf
<1> HIDE DEF c, K
<1>2. ASSUME DOMAIN c = {} PROVE c = << >>
  <2>1. c = [k \in {} |-> c[k]]
    BY <1>1, <1>2
  <2>2. \A F : [k \in {} |-> F[k]] = << >>
    OBVIOUS
  <2> QED  BY <2>1, <2>2
<1>3. c = << >> => DOMAIN c = {}
  OBVIOUS
<1> QED  BY <1>2, <1>3 DEF c, NoCalls

(* What a request that has no answer may have told.                        *)
LEMMA EndsFaithfully ==
  ASSUME NEW m, Told(m)', result'.kind \notin {"message", "tool_calls"},
         (result' = [kind |-> "error", error |-> "response"] /\ entire') =>
           m + 1 \in 1 .. Len(sentBody') /\ sentBody'[m + 1].type \in {"garbled", "error"}
  PROVE  FaithfulAnswer'
<1> DEFINE ps == sentBody'
           P == Payloads(ps)
           said == Until(ps)
           texts == TextsOf(said)
           wrong == \E i \in DOMAIN said : said[i].type \in {"garbled", "error"}
<1>1. /\ ps \in Seq(P) /\ m \in 0 .. Len(ps) /\ delivered' = TextsOf(First(ps, m))
      /\ \A i \in 1 .. m : ps[i] # Done
  BY DEF Told, Done
<1>2. Starts(delivered', texts)
  BY <1>1, SaidIs
<1>3. ASSUME m + 1 \in 1 .. Len(ps), ps[m + 1].type \in {"garbled", "error"}
      PROVE  wrong
  <2>1. m + 1 \in 0 .. Len(ps) /\ m + 1 \in 1 .. m + 1 /\ \A i \in 1 .. m + 1 : i \in 1 .. m \/ i = m + 1
    BY <1>1, <1>3
  <2>2. ps[m + 1] # Done
    BY <1>3 DEF Done
  <2>3. \A i \in 1 .. m + 1 : ps[i] # Done
    BY <1>1, <2>1, <2>2
  <2>4. m + 1 \in DOMAIN said /\ said[m + 1] = ps[m + 1]
    <3> HIDE DEF P, ps
    <3> QED  BY <1>1, <2>1, <2>3, SaidIs
  <2> QED  BY <1>3, <2>4
<1>4. (result' = [kind |-> "error", error |-> "response"] /\ entire') => wrong
  <2> HIDE DEF wrong
  <2> QED  BY <1>3
<1>5. Len(delivered') <= Len(texts) /\ delivered' = SubSeq(texts, 1, Len(delivered'))
  BY <1>2 DEF Starts
<1> QED  BY <1>4, <1>5 DEF FaithfulAnswer

(* Where the answer ends, it is the calls or the text.                     *)
LEMMA FinishFaithfully ==
  ASSUME NEW m, Told(m), Until(sentBody) = First(sentBody, m), Finish
  PROVE  FaithfulAnswer'
<1> DEFINE P == Payloads(sentBody)
           said == Until(sentBody)
           texts == TextsOf(said)
           all == CallsOf(said)
           wrong == \E i \in DOMAIN said : said[i].type \in {"garbled", "error"}
<1>1. /\ sentBody \in Seq(P) /\ m \in 0 .. Len(sentBody)
      /\ \A i \in 1 .. m : sentBody[i].type \notin {"garbled", "error", "done"}
      /\ delivered = texts /\ text = texts /\ calls = all
      /\ sawChoice <=> text # << >> \/ DOMAIN calls # {}
  BY DEF Told
<1>2. ~wrong
  <2>1. /\ First(sentBody, m) \in Seq(P) /\ Len(First(sentBody, m)) = m
        /\ \A i \in 1 .. m : First(sentBody, m)[i] = sentBody[i]
    BY <1>1, FirstNext
  <2>2. DOMAIN First(sentBody, m) = 1 .. m
    BY <2>1
  <2> QED  BY <1>1, <2>1, <2>2
<1>3. Starts(texts, texts)
  <2>1. \A i \in 1 .. m : sentBody[i] # Done
    BY <1>1 DEF Done
  <2> QED  BY <1>1, <2>1, SaidIs
<1>4. DOMAIN all = {} <=> all = NoCalls
  BY NoCallsIs
<1>5. UNCHANGED <<sentBody, entire, delivered>>
  BY DEF Finish, sse, answer
<1> HIDE DEF P, said, texts, all, wrong
<1> DEFINE bad == [kind |-> "error", error |-> "response"]
           right == IF all # NoCalls THEN [kind |-> "tool_calls", calls |-> all]
                    ELSE [kind |-> "message", content |-> texts]
<1>6. /\ result'.kind \in {"message", "tool_calls"} => result' = right
      /\ result' = bad => \/ texts = << >> /\ all = NoCalls
                          \/ \E k \in DOMAIN all : ~Complete(all[k])
  <2>1. CASE aborted \/ ~sawChoice \/ \E i \in DOMAIN calls : ~Complete(calls[i])
    <3>1. result' = Failed("response")
      BY <2>1 DEF Finish, Fail, End
    <3>2. CASE aborted
      BY <3>1, <3>2 DEF Failed
    <3>3. CASE ~aborted
      <4>1. result' = bad
        BY <3>1, <3>3 DEF Failed
      <4>2. ~sawChoice => texts = << >> /\ all = NoCalls
        BY <1>1, <1>4
      <4>3. \/ texts = << >> /\ all = NoCalls
            \/ \E k \in DOMAIN all : ~Complete(all[k])
        BY <1>1, <2>1, <3>3, <4>2
      <4> QED  BY <4>1, <4>3
    <3> QED  BY <3>2, <3>3
  <2>2. CASE ~(aborted \/ ~sawChoice \/ \E i \in DOMAIN calls : ~Complete(calls[i]))
    <3>1. result' = Collected(Answer)
      BY <2>2 DEF Finish, End
    <3>2. Answer = right
      BY <1>1, <1>4 DEF Answer
    <3>3. right.kind \in {"message", "tool_calls"} /\ bad.kind = "error"
      OBVIOUS
    <3>4. Collected(Answer) \in {right, [kind |-> "error", error |-> "protocol"]}
      BY <3>2 DEF Collected
    <3> QED  BY <3>1, <3>3, <3>4
  <2> QED  BY <2>1, <2>2
<1> HIDE DEF bad, right
<1>7. Len(delivered) <= Len(texts) /\ delivered = SubSeq(texts, 1, Len(delivered))
  BY <1>1, <1>3 DEF Starts
<1> QED  BY <1>1, <1>2, <1>5, <1>6, <1>7 DEF FaithfulAnswer, said, texts, all, wrong, bad, right

-------------------------------------------------------------------------------
(* Nothing was sent yet.                                                   *)
LEMMA BodyInit == Init => BodyInv
<1> SUFFICES ASSUME Init PROVE BodyInv
  OBVIOUS
<1>1. /\ pc = "send" /\ result = NoResult /\ sentBody = << >> /\ buffer = << >> /\ ended = FALSE
      /\ text = << >> /\ calls = NoCalls /\ sawChoice = FALSE /\ delivered = << >>
  BY DEF Init
<1>2. Until(<< >>) = << >>
  <2>1. {i \in DOMAIN << >> : << >>[i] = Done} = {}
    OBVIOUS
  <2> QED  BY <2>1 DEF Until
<1>3. delivered = SubSeq(<< >>, 1, Len(delivered)) /\ Len(delivered) <= Len(<< >>)
  BY <1>1, SubSeqEmpty
<1>4. FaithfulAnswer
  BY <1>1, <1>2, <1>3, NothingTold DEF FaithfulAnswer, NoResult
<1> QED  BY <1>1, <1>4 DEF BodyInv, Before

(* Where nothing was told, nothing is wrong.                               *)
LEMMA EndsEmpty ==
  ASSUME sentBody' = << >>, delivered' = << >>,
         result'.kind \notin {"message", "tool_calls"},
         result' # [kind |-> "error", error |-> "response"]
  PROVE  FaithfulAnswer'
<1>1. Until(<< >>) = << >>
  <2>1. {i \in DOMAIN << >> : << >>[i] = Done} = {}
    OBVIOUS
  <2> QED  BY <2>1 DEF Until
<1>2. delivered' = SubSeq(<< >>, 1, Len(delivered')) /\ Len(delivered') <= Len(<< >>)
  BY SubSeqEmpty
<1> QED  BY <1>1, <1>2, NothingTold DEF FaithfulAnswer

(* The steps before a body is accepted.                                    *)
LEMMA BeforeKeeps ==
  ASSUME BodyInv, \/ Send \/ NetworkFails \/ Wake
                  \/ \E status \in {"fatal", "overflow", "transient"} :
                       \E header \in RetryAfters \cup {NoHeader} : Refused(status, header)
  PROVE  BodyInv'
<1> DEFINE Failures == {Failed(e) : e \in {"abort", "http", "network", "detail", "overflow"}}
<1>1. /\ pc \in Before /\ UNCHANGED <<sse, answer>>
      /\ \/ pc' \in Before /\ UNCHANGED result
         \/ pc' = "done" /\ result' \in Failures
  <2>1. CASE Send
    BY <2>1 DEF Send, Fail, End, Before
  <2>2. CASE Wake
    BY <2>2 DEF Wake, Fail, End, Before
  <2>3. CASE NetworkFails
    BY <2>3 DEF NetworkFails, WaitFor, Fail, End, Before
  <2>4. CASE \E status \in {"fatal", "overflow", "transient"} :
               \E header \in RetryAfters \cup {NoHeader} : Refused(status, header)
    BY <2>4 DEF Refused, WaitFor, Fail, End, Before
  <2> QED  BY <2>1, <2>2, <2>3, <2>4
<1>2. /\ sentBody' = << >> /\ buffer' = << >> /\ ~ended' /\ result = NoResult
      /\ text' = << >> /\ calls' = NoCalls /\ ~sawChoice' /\ delivered' = << >>
  BY <1>1 DEF BodyInv, Before, sse, answer
<1>3. CASE pc' \in Before /\ UNCHANGED result
  <2>1. FaithfulAnswer'
    BY <1>2, <1>3, EndsEmpty DEF NoResult
  <2> QED  BY <1>2, <1>3, <2>1 DEF BodyInv, Before
<1>4. CASE pc' = "done" /\ result' \in Failures
  <2>1. FaithfulAnswer'
    BY <1>2, <1>4, EndsEmpty DEF Failed
  <2> QED  BY <1>4, <2>1 DEF BodyInv, Before
<1> QED  BY <1>1, <1>3, <1>4

(* Reading goes on.                                                        *)
LEMMA ReadOn ==
  ASSUME NEW ps, NEW crlf, NEW cut, NEW p, NEW m,
         Received(ps, crlf, cut, p)', Buffered(buffer, ps, crlf, cut, p, m)', Told(m)',
         pc' = "read", result' = NoResult
  PROVE  BodyInv'
<1>1. FaithfulAnswer'
  <2>1. result'.kind \notin {"message", "tool_calls"} /\ result' # [kind |-> "error", error |-> "response"]
    BY DEF NoResult
  <2> QED  BY <2>1, EndsFaithfully
<1>2. /\ ps \in Bodies /\ crlf \in BOOLEAN /\ p \in 0 .. cut /\ cut \in Nat
      /\ cut <= Len(Stream(ps, crlf))
  BY DEF Received
<1>3. cut \in 0 .. Len(Stream(ps, crlf))
  <2>1. Len(Stream(ps, crlf)) \in Nat
    <3>1. ps \in Seq(Payloads(ps))
      BY <1>2, BodyAssumption DEF Payloads
    <3>2. Stream(ps, crlf) \in Seq(Tokens(Payloads(ps)))
      BY <1>2, <3>1, StreamIs
    <3> QED  BY <3>2
  <2> QED  BY <1>2, <2>1
<1>4. m \in 0 .. Len(sentBody')
  BY DEF Told
<1>5. (\E qs \in Bodies, cr \in BOOLEAN : \E c \in 0 .. Len(Stream(qs, cr)) :
         \E q \in 0 .. c, n \in 0 .. Len(sentBody) :
           Received(qs, cr, c, q) /\ Buffered(buffer, qs, cr, c, q, n) /\ Told(n))'
  BY <1>2, <1>3, <1>4
<1> QED  BY <1>1, <1>5 DEF BodyInv, Before

(* A request ends where nothing else is wrong.                             *)
LEMMA ReadDone ==
  ASSUME NEW m, Told(m)', pc' = "done", result'.kind \notin {"message", "tool_calls"},
         (result' = [kind |-> "error", error |-> "response"] /\ entire') =>
           m + 1 \in 1 .. Len(sentBody') /\ sentBody'[m + 1].type \in {"garbled", "error"}
  PROVE  BodyInv'
<1>1. FaithfulAnswer'
  BY EndsFaithfully
<1> QED  BY <1>1 DEF BodyInv, Before

(* The body starts.                                                        *)
LEMMA AcceptedKeeps ==
  ASSUME BodyInv, NEW ps \in Bodies, NEW crlf \in BOOLEAN, NEW cut \in 0 .. Len(Stream(ps, crlf)),
         Accepted(ps, crlf, cut)
  PROVE  BodyInv'
<1>1. /\ pc = "fetch" /\ pc' = "read" /\ result' = result
      /\ body' = SubSeq(Stream(ps, crlf), 1, cut)
      /\ sentBody' = Whole(ps, crlf, cut)
      /\ entire' = (cut = Len(Stream(ps, crlf)))
      /\ UNCHANGED <<buffer, ended, answer>>
  BY DEF Accepted
<1>2. /\ result = NoResult /\ buffer = << >> /\ ~ended
      /\ text = << >> /\ calls = NoCalls /\ ~sawChoice /\ delivered = << >>
  BY <1>1 DEF BodyInv, Before
<1>3. ps \in Seq(Payloads(ps)) /\ \A i \in DOMAIN ps : ps[i].type = "done" => ps[i] = Done
  BY BodyAssumption DEF Payloads
<1>4. /\ cut \in Nat /\ cut <= Len(Stream(ps, crlf)) /\ Len(Stream(ps, crlf)) \in Nat
  <2>1. Stream(ps, crlf) \in Seq(Tokens(Payloads(ps)))
    BY <1>3, StreamIs
  <2>2. Len(Stream(ps, crlf)) \in Nat
    BY <2>1
  <2> QED  BY <2>2
<1>5. Received(ps, crlf, cut, 0)'
  <2>1. 0 \in 0 .. cut /\ 0 + 1 = 1
    BY <1>4
  <2> QED  BY <1>1, <1>4, <2>1 DEF Received
<1>6. Clean(0, crlf) = 0 /\ ~Hangs(0, crlf)
  BY CleanAt DEF Clean, Hangs, CleanCR, HangsCR
<1>7. Left(ps, 0, 0, crlf) = << >>
  <2>1. 1 .. (Clean(0, crlf) - 4 * 0) + (IF Hangs(0, crlf) THEN 1 ELSE 0) = {}
    BY <1>6
  <2> QED  BY <2>1 DEF Left
<1>8. Buffered(buffer, ps, crlf, cut, 0, 0)'
  <2>1. 4 * 0 <= Clean(0, crlf)
    BY <1>6
  <2> QED  BY <1>1, <1>2, <1>7, <2>1 DEF Buffered
<1>9. Told(0)'
  <2>1. PICK w \in 0 .. Len(ps) : Whole(ps, crlf, cut) = First(ps, w)
    BY <1>3, <1>4, WholeIs
  <2>2. /\ First(ps, w) \in Seq(Payloads(ps)) /\ Len(First(ps, w)) = w
        /\ \A i \in 1 .. w : First(ps, w)[i] = ps[i]
    BY <1>3, <2>1, FirstNext
  <2> DEFINE f == First(ps, w)
  <2>3. /\ f \in Seq(Payloads(ps)) /\ DOMAIN f = 1 .. w /\ Len(f) = w /\ w \in Nat /\ sentBody' = f
        /\ \A i \in 1 .. w : f[i] = ps[i] /\ i \in DOMAIN ps
    BY <1>1, <1>3, <2>1, <2>2
  <2> HIDE DEF f
  <2>4. f \in Seq(Payloads(f))
    BY <2>3 DEF Payloads
  <2>5. \A i \in DOMAIN f : f[i].type = "done" => f[i] = Done
    BY <1>3, <2>3
  <2>6. First(f, 0) = << >>
    BY SubSeqEmpty DEF First
  <2>7. 0 \in 0 .. Len(sentBody') /\ \A i \in 1 .. 0 : FALSE
    BY <2>3
  <2>8. /\ text' = TextsOf(First(sentBody', 0)) /\ delivered' = text'
        /\ calls' = CallsOf(First(sentBody', 0)) /\ sawChoice' = sawChoice
        /\ text' = << >> /\ calls' = NoCalls
    BY <1>1, <1>2, <2>3, <2>6, NothingTold DEF answer
  <2>9. DOMAIN NoCalls = {}
    BY DEF NoCalls
  <2> QED  BY <1>2, <2>3, <2>4, <2>5, <2>7, <2>8, <2>9 DEF Told
<1> QED  BY <1>1, <1>2, <1>5, <1>8, <1>9, ReadOn

(* A chunk of the body joins what is left of the events before it.         *)
LEMMA ReadChunkKeeps ==
  ASSUME BodyInv, NEW n \in 1 .. Len(body), ReadChunk(n)
  PROVE  BodyInv'
<1>1. /\ pc = "read" /\ ~ended /\ n <= Len(body) /\ pc' = pc /\ result' = result
      /\ buffer' = Joined(SubSeq(body, 1, n))
      /\ body' = SubSeq(body, n + 1, Len(body))
      /\ UNCHANGED <<sentBody, entire, ended, answer>>
  BY DEF ReadChunk
<1>2. PICK ps \in Bodies, crlf \in BOOLEAN : \E cut \in 0 .. Len(Stream(ps, crlf)) :
        \E p \in 0 .. cut, m \in 0 .. Len(sentBody) :
          Received(ps, crlf, cut, p) /\ Buffered(buffer, ps, crlf, cut, p, m) /\ Told(m)
  BY <1>1 DEF BodyInv
<1>3. PICK cut \in 0 .. Len(Stream(ps, crlf)) :
        \E p \in 0 .. cut, m \in 0 .. Len(sentBody) :
          Received(ps, crlf, cut, p) /\ Buffered(buffer, ps, crlf, cut, p, m) /\ Told(m)
  BY <1>2
<1>4. PICK p \in 0 .. cut, m \in 0 .. Len(sentBody) :
        Received(ps, crlf, cut, p) /\ Buffered(buffer, ps, crlf, cut, p, m) /\ Told(m)
  BY <1>3
<1> DEFINE S == Stream(ps, crlf)
           P == Payloads(ps)
           T == Tokens(P)
<1>5. /\ ps \in Seq(P) /\ cut \in Nat /\ p \in Nat /\ p <= cut /\ cut <= Len(S)
      /\ Len(sentBody) \in Nat /\ m \in Nat
      /\ body = SubSeq(S, p + 1, cut)
  <2>1. ps \in Seq(P) /\ cut \in Nat /\ p \in Nat /\ p <= cut /\ cut <= Len(S)
    BY <1>4, SentIs
  <2>2. Len(sentBody) \in Nat
    BY <1>4, SentIs
  <2> QED  BY <1>4, <2>1, <2>2 DEF Received
<1>6. S \in Seq(T) /\ Len(S) \in Nat /\ \A i \in 1 .. Len(S) : S[i] \in T
  <2>1. S \in Seq(T)
    BY <1>5, StreamIs
  <2> HIDE DEF S, T
  <2> QED  BY <2>1
<1> HIDE DEF S, P, T
<1>7. /\ body \in Seq(T) /\ Len(body) = cut - p
      /\ \A i \in 1 .. cut - p : body[i] = S[p + i]
  <2>1. \A i \in p + 1 .. cut : S[i] \in T
    BY <1>5, <1>6
  <2>2. /\ body \in Seq(T) /\ Len(body) = IF p + 1 <= cut THEN cut - (p + 1) + 1 ELSE 0
        /\ \A i \in 1 .. cut - (p + 1) + 1 : body[i] = S[(p + 1) + i - 1]
    <3> DEFINE b == SubSeq(S, p + 1, cut)
    <3>1. p + 1 \in Int /\ cut \in Int
      BY <1>5
    <3>2. /\ b \in Seq(T) /\ Len(b) = IF p + 1 <= cut THEN cut - (p + 1) + 1 ELSE 0
          /\ \A i \in 1 .. cut - (p + 1) + 1 : b[i] = S[(p + 1) + i - 1]
      BY ONLY <2>1, <3>1, SubSeqProperties
    <3>3. body = b
      BY <1>5
    <3> HIDE DEF b
    <3> QED  BY ONLY <3>2, <3>3
  <2>3. cut - (p + 1) + 1 = cut - p /\ (~(p + 1 <= cut) => cut - p = 0)
        /\ \A i \in 1 .. cut - p : (p + 1) + i - 1 = p + i
    BY <1>5
  <2> QED  BY <2>2, <2>3
<1>8. n \in Nat /\ n >= 1 /\ n <= cut - p /\ p + n <= cut /\ p + n <= Len(S) /\ p + n \in 0 .. cut
  BY <1>1, <1>5, <1>6, <1>7
<1>9. SubSeq(body, 1, n) = SubSeq(S, p + 1, p + n)
  <2> DEFINE a == SubSeq(body, 1, n)
             b == SubSeq(S, p + 1, p + n)
  <2>1. a \in Seq(T) /\ Len(a) = n /\ \A i \in 1 .. n : a[i] = S[p + i]
    <3>1. a \in Seq(T) /\ Len(a) = n /\ \A i \in 1 .. n : a[i] = body[i]
      BY <1>7, <1>8, SubSeqProperties
    <3>2. \A i \in 1 .. n : i \in 1 .. cut - p
      BY <1>5, <1>8
    <3> HIDE DEF a
    <3> QED  BY <1>7, <3>1, <3>2
  <2>2. b \in Seq(T) /\ Len(b) = n /\ \A i \in 1 .. n : b[i] = S[p + i]
    <3>1. \A i \in p + 1 .. p + n : S[i] \in T
      BY <1>5, <1>6, <1>8
    <3>2. /\ b \in Seq(T) /\ Len(b) = IF p + 1 <= p + n THEN (p + n) - (p + 1) + 1 ELSE 0
          /\ \A i \in 1 .. (p + n) - (p + 1) + 1 : b[i] = S[(p + 1) + i - 1]
      <4>1. p + 1 \in Int /\ p + n \in Int
        BY <1>5, <1>8
      <4> QED  BY <3>1, <4>1, SubSeqProperties
    <3>3. p + 1 <= p + n /\ (p + n) - (p + 1) + 1 = n /\ \A i \in 1 .. n : (p + 1) + i - 1 = p + i
      BY <1>5, <1>8
    <3> HIDE DEF b
    <3> QED  BY <3>2, <3>3
  <2> HIDE DEF a, b
  <2>3. a = b
    BY <2>1, <2>2, SeqEqual
  <2> QED  BY <2>3 DEF a, b
<1>10. body' = SubSeq(S, (p + n) + 1, cut)
  <2> DEFINE a == SubSeq(body, n + 1, cut - p)
             b == SubSeq(S, (p + n) + 1, cut)
             l == cut - (p + n)
  <2>1. l \in Nat
    BY <1>5, <1>8
  <2>2. a \in Seq(T) /\ Len(a) = l /\ \A i \in 1 .. l : a[i] = S[(p + n) + i]
    <3>1. \A i \in n + 1 .. cut - p : body[i] \in T
      BY <1>7, <1>8
    <3>2. /\ a \in Seq(T) /\ Len(a) = IF n + 1 <= cut - p THEN (cut - p) - (n + 1) + 1 ELSE 0
          /\ \A i \in 1 .. (cut - p) - (n + 1) + 1 : a[i] = body[(n + 1) + i - 1]
      <4>1. n + 1 \in Int /\ cut - p \in Int
        BY <1>5, <1>8
      <4> QED  BY <3>1, <4>1, SubSeqProperties
    <3>3. /\ (cut - p) - (n + 1) + 1 = l /\ (~(n + 1 <= cut - p) => l = 0)
          /\ \A i \in 1 .. l : (n + 1) + i - 1 \in 1 .. cut - p /\ p + ((n + 1) + i - 1) = (p + n) + i
      BY <1>5, <1>8
    <3> HIDE DEF a, l
    <3> QED  BY <1>7, <3>2, <3>3
  <2>3. b \in Seq(T) /\ Len(b) = l /\ \A i \in 1 .. l : b[i] = S[(p + n) + i]
    <3>1. \A i \in (p + n) + 1 .. cut : S[i] \in T
      BY <1>5, <1>6, <1>8
    <3>2. /\ b \in Seq(T) /\ Len(b) = IF (p + n) + 1 <= cut THEN cut - ((p + n) + 1) + 1 ELSE 0
          /\ \A i \in 1 .. cut - ((p + n) + 1) + 1 : b[i] = S[((p + n) + 1) + i - 1]
      <4>1. (p + n) + 1 \in Int /\ cut \in Int
        BY <1>5, <1>8
      <4> QED  BY <3>1, <4>1, SubSeqProperties
    <3>3. /\ cut - ((p + n) + 1) + 1 = l /\ (~((p + n) + 1 <= cut) => l = 0)
          /\ \A i \in 1 .. l : ((p + n) + 1) + i - 1 = (p + n) + i
      BY <1>5, <1>8
    <3> HIDE DEF b, l
    <3> QED  BY <3>2, <3>3
  <2> HIDE DEF a, b, l
  <2>4. a = b
    BY <2>1, <2>2, <2>3, SeqEqual
  <2> QED  BY <1>1, <1>7, <2>4 DEF a, b
<1>11. Received(ps, crlf, cut, p + n)'
  BY <1>1, <1>4, <1>5, <1>8, <1>10 DEF Received, S
<1>12. Buffered(buffer, ps, crlf, cut, p + n, m)'
  <2>1. 4 * m <= Clean(p, crlf) /\ buffer = Left(ps, m, p, crlf)
    BY <1>1, <1>4 DEF Buffered
  <2>2. buffer' = Left(ps, m, p + n, crlf)
    <3>1. Normal(Left(ps, m, p, crlf) \o SubSeq(S, p + 1, p + n)) = Left(ps, m, p + n, crlf)
      <4>1. ps \in Seq(P) /\ crlf \in BOOLEAN /\ m \in Nat /\ p \in Nat /\ n \in Nat
        BY <1>5, <1>8
      <4>2. p + n <= Len(Stream(ps, crlf)) /\ 4 * m <= Clean(p, crlf)
        BY ONLY <1>8, <2>1 DEF S
      <4>3. Normal(Left(ps, m, p, crlf) \o SubSeq(Stream(ps, crlf), p + 1, p + n))
              = Left(ps, m, p + n, crlf)
        BY ONLY <4>1, <4>2, JoinedIs
      <4> QED  BY ONLY <4>3 DEF S
    <3> QED  BY <1>1, <1>9, <2>1, <3>1 DEF Joined
  <2>3. 4 * m <= Clean(p + n, crlf)
    <3>1. /\ Clean(p, crlf) \in Nat /\ Clean(p, crlf) <= Clean(p + n, crlf)
          /\ Clean(p + n, crlf) \in Nat
      <4>1. p + n \in Nat /\ p <= p + n /\ p + n <= p + n
        BY <1>5, <1>8
      <4> QED  BY <1>5, <4>1, CleanGrows
    <3> DEFINE c == Clean(p, crlf)
               d == Clean(p + n, crlf)
    <3>2. 4 * m <= c /\ c \in Nat /\ d \in Nat /\ c <= d
      BY <2>1, <3>1
    <3> HIDE DEF c, d
    <3>3. 4 * m <= d
      BY <1>5, <3>2
    <3> QED  BY <3>3 DEF d
  <2> QED  BY <1>1, <2>2, <2>3 DEF Buffered
<1>13. Told(m)'
  BY <1>1, <1>4, ToldStays
<1>14. pc' = "read" /\ result' = NoResult
  BY <1>1 DEF BodyInv
<1> QED  BY <1>11, <1>12, <1>13, <1>14, ReadOn

(* The end of the body ends the last event.                                *)
LEMMA ReadEndKeeps ==
  ASSUME BodyInv, ReadEnd
  PROVE  BodyInv'
<1>1. /\ pc = "read" /\ ~ended /\ Boundaries(buffer) = {} /\ body = << >>
      /\ pc' = pc /\ result' = result /\ ended' = TRUE
      /\ buffer' = buffer \o <<NL, NL>>
      /\ UNCHANGED <<body, sentBody, entire, answer>>
  BY DEF ReadEnd
<1>2. PICK ps \in Bodies, crlf \in BOOLEAN : \E cut \in 0 .. Len(Stream(ps, crlf)) :
        \E p \in 0 .. cut, m \in 0 .. Len(sentBody) :
          Received(ps, crlf, cut, p) /\ Buffered(buffer, ps, crlf, cut, p, m) /\ Told(m)
  BY <1>1 DEF BodyInv
<1>3. PICK cut \in 0 .. Len(Stream(ps, crlf)) :
        \E p \in 0 .. cut, m \in 0 .. Len(sentBody) :
          Received(ps, crlf, cut, p) /\ Buffered(buffer, ps, crlf, cut, p, m) /\ Told(m)
  BY <1>2
<1>4. PICK p \in 0 .. cut, m \in 0 .. Len(sentBody) :
        Received(ps, crlf, cut, p) /\ Buffered(buffer, ps, crlf, cut, p, m) /\ Told(m)
  BY <1>3
<1> DEFINE S == Stream(ps, crlf)
           P == Payloads(ps)
           T == Tokens(P)
<1>5. /\ ps \in Seq(P) /\ cut \in Nat /\ p \in Nat /\ p <= cut /\ cut <= Len(S) /\ p <= Len(S)
      /\ Len(sentBody) \in Nat /\ m \in Nat
      /\ body = SubSeq(S, p + 1, cut)
  <2>1. ps \in Seq(P) /\ cut \in Nat /\ p \in Nat /\ p <= cut /\ cut <= Len(S) /\ p <= Len(S)
    BY <1>4, SentIs
  <2>2. Len(sentBody) \in Nat
    BY <1>4, SentIs
  <2> QED  BY <1>4, <2>1, <2>2 DEF Received
<1>6. S \in Seq(T) /\ Len(S) \in Nat /\ \A i \in 1 .. Len(S) : S[i] \in T
  <2>1. S \in Seq(T)
    BY <1>5, StreamIs
  <2> HIDE DEF S, T
  <2> QED  BY <2>1
<1> HIDE DEF S, P, T
<1>7. p = cut
  <2>1. Len(body) = IF p + 1 <= cut THEN cut - (p + 1) + 1 ELSE 0
    <3>1. \A i \in p + 1 .. cut : S[i] \in T
      BY <1>5, <1>6
    <3>2. p + 1 \in Int /\ cut \in Int
      BY <1>5
    <3> QED  BY <1>5, <3>1, <3>2, SubSeqProperties
  <2>2. Len(body) = 0
    BY <1>1
  <2> QED  BY <1>5, <2>1, <2>2
<1>8. 4 * m <= Clean(p, crlf) /\ buffer = Left(ps, m, p, crlf)
  BY <1>1, <1>4 DEF Buffered
<1>9. Clean(p, crlf) < 4 * m + 4
  BY <1>1, <1>5, <1>8, EventLeft DEF S
<1>10. Buffered(buffer, ps, crlf, cut, p, m)'
  BY <1>1, <1>7, <1>8, <1>9 DEF Buffered
<1>11. Received(ps, crlf, cut, p)'
  BY <1>1, <1>4 DEF Received
<1>12. Told(m)'
  BY <1>1, <1>4, ToldStays
<1>13. pc' = "read" /\ result' = NoResult
  BY <1>1 DEF BodyInv
<1> QED  BY <1>10, <1>11, <1>12, <1>13, ReadOn

(* While a body is read: what its next event says.                         *)
Skips(ps, crlf, cut, p, m) ==
  /\ EventData(buffer) = << >>
  /\ \/ Buffered(AfterEvent(buffer), ps, crlf, cut, p, m)
     \/ /\ m + 1 \in 1 .. Len(sentBody) /\ sentBody[m + 1].type = "comment"
        /\ Buffered(AfterEvent(buffer), ps, crlf, cut, p, m + 1)
Gives(ps, crlf, cut, p, m) ==
  /\ m + 1 \in 1 .. Len(sentBody)
  /\ \/ EventData(buffer) = Halves(sentBody[m + 1])
     \/ EventData(buffer) = Halves(sentBody[m + 1]) \o <<CR>> /\ ~entire
  /\ Buffered(AfterEvent(buffer), ps, crlf, cut, p, m + 1)
Breaks == ~entire /\ \E x : EventData(buffer) = <<Half(x, 1)>>

(* While a body is read there is such an event, or none is left.           *)
LEMMA NextEvent ==
  ASSUME BodyInv, pc = "read"
  PROVE  \E ps, crlf, cut, p, m :
           /\ Received(ps, crlf, cut, p) /\ Told(m) /\ m \in Nat
           /\ IF Boundaries(buffer) = {} THEN ended => m = Len(sentBody)
              ELSE Skips(ps, crlf, cut, p, m) \/ Gives(ps, crlf, cut, p, m) \/ Breaks
<1>1. PICK ps \in Bodies, crlf \in BOOLEAN : \E cut \in 0 .. Len(Stream(ps, crlf)) :
        \E p \in 0 .. cut, m \in 0 .. Len(sentBody) :
          Received(ps, crlf, cut, p) /\ Buffered(buffer, ps, crlf, cut, p, m) /\ Told(m)
  BY DEF BodyInv
<1>2. PICK cut, p, m : /\ Received(ps, crlf, cut, p) /\ Buffered(buffer, ps, crlf, cut, p, m)
                       /\ Told(m) /\ m \in 0 .. Len(sentBody)
  BY <1>1
<1>3. Len(sentBody) \in Nat /\ m \in Nat
  BY <1>2, SentIs
<1>4. IF Boundaries(buffer) = {} THEN ended => m = Len(sentBody)
      ELSE Skips(ps, crlf, cut, p, m) \/ Gives(ps, crlf, cut, p, m) \/ Breaks
  BY <1>2, <1>3, EventOf DEF Skips, Gives, Breaks
<1> QED  BY <1>2, <1>3, <1>4

(* The buffer moves to the next event.                                     *)
LEMMA MovesOn ==
  ASSUME NEW ps, NEW crlf, NEW cut, NEW p, NEW m,
         Received(ps, crlf, cut, p), Buffered(AfterEvent(buffer), ps, crlf, cut, p, m), Told(m)',
         UNCHANGED <<body, sentBody, entire, ended>>, buffer' = AfterEvent(buffer),
         pc' = "read", result' = NoResult
  PROVE  BodyInv'
<1>1. Received(ps, crlf, cut, p)'
  BY DEF Received
<1>2. Buffered(buffer, ps, crlf, cut, p, m)'
  BY DEF Buffered
<1> QED  BY <1>1, <1>2, ReadOn

(* A comment, or the rest of an event, says nothing.                       *)
LEMMA SkipEventKeeps ==
  ASSUME BodyInv, SkipEvent
  PROVE  BodyInv'
<1>1. /\ pc = "read" /\ Boundaries(buffer) # {} /\ EventData(buffer) = << >>
      /\ buffer' = AfterEvent(buffer) /\ pc' = "read" /\ result' = NoResult
      /\ UNCHANGED <<body, sentBody, entire, ended, text, calls, sawChoice, delivered>>
  BY DEF SkipEvent, answer, BodyInv
<1>2. PICK ps, crlf, cut, p, m :
        /\ Received(ps, crlf, cut, p) /\ Told(m) /\ m \in Nat
        /\ Skips(ps, crlf, cut, p, m) \/ Gives(ps, crlf, cut, p, m) \/ Breaks
  BY <1>1, NextEvent
<1>3. CASE Skips(ps, crlf, cut, p, m)
  <2>1. CASE Buffered(AfterEvent(buffer), ps, crlf, cut, p, m)
    <3>1. Told(m)'
      BY <1>1, <1>2, ToldStays DEF answer
    <3> QED  BY <1>1, <1>2, <2>1, <3>1, MovesOn
  <2>2. CASE /\ m + 1 \in 1 .. Len(sentBody) /\ sentBody[m + 1].type = "comment"
             /\ Buffered(AfterEvent(buffer), ps, crlf, cut, p, m + 1)
    <3>1. Told(m + 1)'
      BY <1>1, <1>2, <2>2, ToldNext
    <3> QED  BY <1>1, <1>2, <2>2, <3>1, MovesOn
  <2> QED  BY <1>3, <2>1, <2>2 DEF Skips
<1>4. ~Gives(ps, crlf, cut, p, m) /\ ~Breaks
  BY <1>1, ParsesIs DEF Gives, Breaks
<1> QED  BY <1>2, <1>3, <1>4

(* [DONE] ends the answer.                                                 *)
LEMMA DoneEventKeeps ==
  ASSUME BodyInv, DoneEvent
  PROVE  BodyInv'
<1>1. /\ pc = "read" /\ Boundaries(buffer) # {} /\ EventData(buffer) = Halves(Done)
      /\ pc' = "finish" /\ result' = NoResult
      /\ UNCHANGED <<sse, answer>>
  BY DEF DoneEvent, BodyInv
<1>2. PICK ps, crlf, cut, p, m :
        /\ Received(ps, crlf, cut, p) /\ Told(m) /\ m \in Nat
        /\ Skips(ps, crlf, cut, p, m) \/ Gives(ps, crlf, cut, p, m) \/ Breaks
  BY <1>1, NextEvent
<1>3. ~Skips(ps, crlf, cut, p, m) /\ ~Breaks
  BY <1>1, ParsesIs DEF Skips, Breaks
<1>4. m + 1 \in 1 .. Len(sentBody) /\ sentBody[m + 1] = Done
  <2>1. /\ m + 1 \in 1 .. Len(sentBody)
        /\ \/ Halves(Done) = Halves(sentBody[m + 1])
           \/ Halves(Done) = Halves(sentBody[m + 1]) \o <<CR>>
    BY <1>1, <1>2, <1>3 DEF Gives
  <2> QED  BY <2>1, ParsesIs
<1>5. Until(sentBody) = First(sentBody, m) /\ m \in 0 .. Len(sentBody)
  <2>1. /\ sentBody \in Seq(Payloads(sentBody)) /\ m \in 0 .. Len(sentBody)
        /\ \A i \in 1 .. m : sentBody[i] # Done
    BY <1>2 DEF Told, Done
  <2>2. m < Len(sentBody)
    BY <1>4, <2>1
  <2> QED  BY <1>4, <2>1, <2>2, UntilIs
<1>6. Told(m)'
  BY <1>1, <1>2, ToldStays DEF sse
<1>7. FaithfulAnswer'
  <2>1. result'.kind \notin {"message", "tool_calls"} /\ result' # [kind |-> "error", error |-> "response"]
    BY <1>1 DEF NoResult
  <2> QED  BY <1>6, <2>1, EndsFaithfully
<1>8. (\E k \in 0 .. Len(sentBody) : Told(k) /\ Until(sentBody) = First(sentBody, k))'
  <2>1. sentBody' = sentBody
    BY <1>1 DEF sse
  <2> QED  BY <1>5, <1>6, <2>1
<1> QED  BY <1>1, <1>7, <1>8 DEF BodyInv, Before

(* An event that cannot be taken, or that reports an error.                *)
LEMMA BadEventKeeps ==
  ASSUME BodyInv, BadEvent
  PROVE  BodyInv'
<1>1. /\ pc = "read" /\ Boundaries(buffer) # {}
      /\ EventData(buffer) \notin {<< >>, Halves(Done)}
      /\ UNCHANGED <<sse, answer>>
  BY DEF BadEvent, HasPayload
<1>2. PICK ps, crlf, cut, p, m :
        /\ Received(ps, crlf, cut, p) /\ Told(m) /\ m \in Nat
        /\ Skips(ps, crlf, cut, p, m) \/ Gives(ps, crlf, cut, p, m) \/ Breaks
  BY <1>1, NextEvent
<1>3. ~Skips(ps, crlf, cut, p, m)
  BY <1>1 DEF Skips
<1>4. /\ pc' = "done" /\ result'.kind \notin {"message", "tool_calls"}
      /\ result' = [kind |-> "error", error |-> "response"] =>
           ~Parses(EventData(buffer)) \/ Payload.type = "error"
  <2>1. \/ ~Parses(EventData(buffer)) /\ pc' = "done" /\ result' = Failed("response")
        \/ pc' = "done" /\ result' = Failed("abort")
        \/ /\ Payload.type = "error" /\ pc' = "done"
           /\ result' \in {Failed("overflow"), Failed("response")}
    BY DEF BadEvent, Fail, End
  <2> QED  BY <2>1 DEF Failed
<1>5. Told(m)' /\ sentBody' = sentBody /\ entire' = entire
  BY <1>1, <1>2, ToldStays DEF sse
<1>6. ASSUME entire, Gives(ps, crlf, cut, p, m), ~Parses(EventData(buffer)) \/ Payload.type = "error"
      PROVE  m + 1 \in 1 .. Len(sentBody) /\ sentBody[m + 1].type \in {"garbled", "error"}
  <2> DEFINE x == sentBody[m + 1]
  <2>1. m + 1 \in 1 .. Len(sentBody) /\ EventData(buffer) \in {Halves(x), Halves(x) \o <<CR>>}
    BY <1>6 DEF Gives
  <2>2. Payload = x /\ (Parses(EventData(buffer)) <=> x.type \notin {"garbled", "done"})
    <3>1. CASE EventData(buffer) = Halves(x)
      <4> HIDE DEF x
      <4>1. Halves(x)[1][2] = x /\ (Parses(Halves(x)) <=> x.type \notin {"garbled", "done"})
        BY ParsesIs
      <4> QED  BY <3>1, <4>1 DEF Payload
    <3>2. CASE EventData(buffer) = Halves(x) \o <<CR>>
      <4> HIDE DEF x
      <4> QED  BY <3>2, ParsesIs DEF Payload
    <3> QED  BY <2>1, <3>1, <3>2
  <2>3. EventData(buffer) = Halves(x) \o <<CR>> => ~entire
    BY <1>6, ParsesIs DEF Gives
  <2>4. CASE x.type = "done"
    <3>1. x = Done
      <4>1. m + 1 \in DOMAIN sentBody
        BY <1>2, <2>1 DEF Told
      <4> QED  BY <1>2, <2>4, <4>1 DEF Told
    <3>2. EventData(buffer) = Halves(x) \o <<CR>>
      BY <1>1, <2>1, <3>1
    <3> QED  BY <1>6, <2>3, <3>2
  <2> QED  BY <1>6, <2>1, <2>2, <2>4
<1> QED  BY <1>2, <1>3, <1>4, <1>5, <1>6, ReadDone DEF Breaks

(* A payload is taken.                                                     *)
LEMMA GoodEventGives ==
  ASSUME BodyInv, NEW type, GoodEvent(type)
  PROVE  \E ps, crlf, cut, p, m :
           /\ Received(ps, crlf, cut, p) /\ Told(m) /\ m \in Nat
           /\ m + 1 \in 1 .. Len(sentBody) /\ Payload = sentBody[m + 1]
           /\ sentBody[m + 1].type = type /\ type \notin {"garbled", "done"}
           /\ Buffered(AfterEvent(buffer), ps, crlf, cut, p, m + 1)
<1>1. /\ pc = "read" /\ Boundaries(buffer) # {}
      /\ EventData(buffer) \notin {<< >>, Halves(Done)}
      /\ Parses(EventData(buffer)) /\ Payload.type = type
  BY DEF GoodEvent, HasPayload
<1>2. PICK ps, crlf, cut, p, m :
        /\ Received(ps, crlf, cut, p) /\ Told(m) /\ m \in Nat
        /\ Skips(ps, crlf, cut, p, m) \/ Gives(ps, crlf, cut, p, m) \/ Breaks
  BY <1>1, NextEvent
<1>3. ~Skips(ps, crlf, cut, p, m) /\ ~Breaks
  BY <1>1, ParsesIs DEF Skips, Breaks
<1> DEFINE x == sentBody[m + 1]
<1>4. /\ m + 1 \in 1 .. Len(sentBody) /\ EventData(buffer) \in {Halves(x), Halves(x) \o <<CR>>}
      /\ Buffered(AfterEvent(buffer), ps, crlf, cut, p, m + 1)
  BY <1>2, <1>3 DEF Gives
<1>5. Payload = x /\ x.type \notin {"garbled", "done"}
  <2> HIDE DEF x
  <2>1. /\ Halves(x)[1][2] = x /\ (Parses(Halves(x)) <=> x.type \notin {"garbled", "done"})
        /\ (Halves(x) \o <<CR>>)[1][2] = x
        /\ Parses(Halves(x) \o <<CR>>) <=> x.type \notin {"garbled", "done"}
    BY ParsesIs
  <2>2. CASE EventData(buffer) = Halves(x)
    BY <1>1, <2>1, <2>2 DEF Payload
  <2>3. CASE EventData(buffer) = Halves(x) \o <<CR>>
    BY <1>1, <2>1, <2>3 DEF Payload
  <2> QED  BY <1>4, <2>2, <2>3
<1> QED  BY <1>1, <1>2, <1>4, <1>5

(* The answer grows by what the payload says.                              *)
LEMMA GoodEventKeeps ==
  ASSUME BodyInv, UsageEvent \/ TextEvent \/ CallEvent
  PROVE  BodyInv'
<1>1. PICK type \in {"usage", "text", "call"} :
        /\ GoodEvent(type)
        /\ IF type = "text"
             THEN text' = Append(text, Payload.delta) /\ delivered' = Append(delivered, Payload.delta)
             ELSE UNCHANGED <<text, delivered>>
        /\ IF type = "call"
             THEN calls' = WithFragment(Payload.index, Payload.part)
             ELSE UNCHANGED calls
        /\ IF type \in {"text", "call"} THEN sawChoice' = TRUE ELSE UNCHANGED sawChoice
        /\ \/ UNCHANGED <<pc, result>>
           \/ pc' = "done" /\ result' = [kind |-> "error", error |-> "consumer"]
  <2>1. CASE UsageEvent
    BY <2>1 DEF UsageEvent, answer
  <2>2. CASE TextEvent
    BY <2>2 DEF TextEvent, End
  <2>3. CASE CallEvent
    BY <2>3 DEF CallEvent
  <2> QED  BY <2>1, <2>2, <2>3
<1>2. /\ pc = "read" /\ result = NoResult /\ buffer' = AfterEvent(buffer)
      /\ UNCHANGED <<body, sentBody, entire, ended>>
  BY <1>1 DEF GoodEvent, HasPayload, BodyInv
<1>3. PICK ps, crlf, cut, p, m :
        /\ Received(ps, crlf, cut, p) /\ Told(m) /\ m \in Nat
        /\ m + 1 \in 1 .. Len(sentBody) /\ Payload = sentBody[m + 1]
        /\ sentBody[m + 1].type = type /\ type \notin {"garbled", "done"}
        /\ Buffered(AfterEvent(buffer), ps, crlf, cut, p, m + 1)
  BY <1>1, GoodEventGives
<1>4. Told(m + 1)'
  <2> DEFINE x == sentBody[m + 1]
  <2>1. /\ x.type \notin {"garbled", "error", "done"}
        /\ IF x.type = "text"
             THEN text' = Append(text, x.delta) /\ delivered' = Append(delivered, x.delta)
             ELSE UNCHANGED <<text, delivered>>
        /\ IF x.type = "call" THEN calls' = WithFragment(x.index, x.part) ELSE UNCHANGED calls
        /\ IF x.type \in {"text", "call"} THEN sawChoice' = TRUE ELSE UNCHANGED sawChoice
    BY <1>1, <1>3
  <2> QED  BY <1>2, <1>3, <2>1, ToldNext
<1>5. CASE UNCHANGED <<pc, result>>
  BY <1>2, <1>3, <1>4, <1>5, MovesOn
<1>6. CASE pc' = "done" /\ result' = [kind |-> "error", error |-> "consumer"]
  <2>1. result'.kind \notin {"message", "tool_calls"} /\ result' # [kind |-> "error", error |-> "response"]
    BY <1>6
  <2> QED  BY <1>4, <1>6, <2>1, ReadDone
<1> QED  BY <1>1, <1>5, <1>6

(* The answer is finished where [DONE] was read, or the body ended.        *)
LEMMA FinishKeeps ==
  ASSUME BodyInv, Finish
  PROVE  BodyInv'
<1>1. \E m : Told(m) /\ Until(sentBody) = First(sentBody, m)
  <2>1. CASE pc = "finish"
    BY <2>1 DEF BodyInv
  <2>2. CASE pc = "read" /\ ended /\ Boundaries(buffer) = {}
    <3>1. PICK ps, crlf, cut, p, m :
            Received(ps, crlf, cut, p) /\ Told(m) /\ m \in Nat /\ m = Len(sentBody)
      BY <2>2, NextEvent
    <3>2. /\ sentBody \in Seq(Payloads(sentBody)) /\ m \in 0 .. Len(sentBody)
          /\ \A i \in 1 .. m : sentBody[i] # Done
      BY <3>1 DEF Told, Done
    <3>3. Until(sentBody) = First(sentBody, m)
      BY <3>1, <3>2, UntilIs
    <3> QED  BY <3>1, <3>3
  <2> QED  BY <2>1, <2>2 DEF Finish
<1>2. FaithfulAnswer'
  BY <1>1, FinishFaithfully
<1>3. pc' = "done"
  BY DEF Finish, Fail, End
<1> QED  BY <1>2, <1>3 DEF BodyInv, Before

(* The body breaks off.                                                    *)
LEMMA ReadFailsKeeps ==
  ASSUME BodyInv, ReadFails
  PROVE  BodyInv'
<1>1. /\ pc = "read" /\ pc' = "done" /\ result' = Failed("network")
      /\ UNCHANGED <<sse, answer>>
  BY DEF ReadFails, Fail, End
<1>2. PICK ps, crlf, cut, p, m : Received(ps, crlf, cut, p) /\ Told(m) /\ m \in Nat
  BY <1>1, NextEvent
<1>3. Told(m)'
  BY <1>1, <1>2, ToldStays DEF sse
<1>4. result'.kind \notin {"message", "tool_calls"} /\ result' # [kind |-> "error", error |-> "response"]
  BY <1>1 DEF Failed
<1> QED  BY <1>1, <1>3, <1>4, ReadDone

(* The signal, and what others do, leave the answer alone.                 *)
LEMMA AsideKeeps ==
  ASSUME BodyInv, UNCHANGED <<pc, sse, answer, result>>
  PROVE  BodyInv'
<1>1. FaithfulAnswer'
  BY DEF BodyInv, FaithfulAnswer, sse, answer
<1>2. CASE pc = "read"
  <2>1. PICK ps \in Bodies, crlf \in BOOLEAN : \E cut \in 0 .. Len(Stream(ps, crlf)) :
          \E p \in 0 .. cut, m \in 0 .. Len(sentBody) :
            Received(ps, crlf, cut, p) /\ Buffered(buffer, ps, crlf, cut, p, m) /\ Told(m)
    BY <1>2 DEF BodyInv
  <2>2. PICK cut, p, m : Received(ps, crlf, cut, p) /\ Buffered(buffer, ps, crlf, cut, p, m) /\ Told(m)
    BY <2>1
  <2>3. Received(ps, crlf, cut, p)'
    BY <2>2 DEF Received, sse
  <2>4. Buffered(buffer, ps, crlf, cut, p, m)'
    BY <2>2 DEF Buffered, sse
  <2>5. Told(m)'
    BY <2>2, ToldStays DEF sse
  <2>6. pc' = "read" /\ result' = NoResult
    BY <1>2 DEF BodyInv
  <2> QED  BY <2>3, <2>4, <2>5, <2>6, ReadOn
<1>3. CASE pc = "finish"
  <2>1. PICK m \in 0 .. Len(sentBody) : Told(m) /\ Until(sentBody) = First(sentBody, m)
    BY <1>3 DEF BodyInv
  <2>2. Told(m)' /\ sentBody' = sentBody
    BY <2>1, ToldStays DEF sse
  <2>3. (\E k \in 0 .. Len(sentBody) : Told(k) /\ Until(sentBody) = First(sentBody, k))'
    BY <2>1, <2>2
  <2>4. pc' = "finish" /\ result' = NoResult
    BY <1>3 DEF BodyInv
  <2> QED  BY <1>1, <2>3, <2>4 DEF BodyInv, Before
<1>4. CASE pc \notin {"read", "finish"}
  BY <1>1, <1>4 DEF BodyInv, Before, sse, answer
<1> QED  BY <1>2, <1>3, <1>4

(* Every step keeps the answer and the buffer in step with the body.       *)
LEMMA AnswerStep == BodyInv /\ [Next]_vars => BodyInv'
<1> SUFFICES ASSUME BodyInv, [Next]_vars PROVE BodyInv'
  OBVIOUS
<1>1. CASE Send \/ Wake
  BY <1>1, BeforeKeeps
<1>2. CASE Fetch
  <2>1. \/ NetworkFails
        \/ \E status \in {"fatal", "overflow", "transient"} :
             \E header \in RetryAfters \cup {NoHeader} : Refused(status, header)
        \/ \E ps \in Bodies, crlf \in BOOLEAN :
             \E cut \in 0 .. Len(Stream(ps, crlf)) : Accepted(ps, crlf, cut)
    BY <1>2 DEF Fetch
  <2> QED  BY <2>1, BeforeKeeps, AcceptedKeeps
<1>3. CASE \E n \in 1 .. Len(body) : ReadChunk(n)
  BY <1>3, ReadChunkKeeps
<1>4. CASE ReadEnd \/ ReadFails \/ SkipEvent \/ DoneEvent \/ BadEvent
  BY <1>4, ReadEndKeeps, ReadFailsKeeps, SkipEventKeeps, DoneEventKeeps, BadEventKeeps
<1>5. CASE UsageEvent \/ TextEvent \/ CallEvent
  BY <1>5, GoodEventKeeps
<1>6. CASE Finish
  BY <1>6, FinishKeeps
<1>7. CASE Abort \/ UNCHANGED vars
  <2>1. UNCHANGED <<pc, sse, answer, result>>
    BY <1>7 DEF Abort, vars
  <2> QED  BY <2>1, AsideKeeps
<1> QED  BY <1>1, <1>2, <1>3, <1>4, <1>5, <1>6, <1>7 DEF Next

(* For every body, every way to cut it into chunks and every line end, the *)
(* answer is what the payloads up to [DONE] say, and a body is called      *)
(* invalid only when it is.                                                *)
THEOREM AnswersAreFaithful == Spec => []FaithfulAnswer
<1>1. BodyInv => FaithfulAnswer
  BY DEF BodyInv
<1> QED  BY BodyInit, AnswerStep, <1>1, PTL DEF Spec
================================================================================
