---------------------------- MODULE ModelRequest ----------------------------
(***************************************************************************)
(* One model request: OpenRouterModelAdapter.stream                        *)
(* (src/harness/model-openrouter/src/index.ts) and the collector           *)
(* completeModelResult (src/harness/model/src/index.ts) that consumes it.  *)
(*                                                                         *)
(* A request is sent, and sent again after a network failure or a          *)
(* transient status, until a response is accepted; then its body is read   *)
(* as server-sent events and folded into one answer.  The server chooses   *)
(* its responses, the network where the body is cut into chunks and where  *)
(* it breaks off, and the caller when to abort.                            *)
(*                                                                         *)
(* A body is a sequence of tokens: each payload is two halves, so that a   *)
(* chunk may end inside it, and line ends are "\n" or "\r\n".  Text deltas *)
(* and fragments of tool calls are atoms.  Delays are milliseconds.        *)
(***************************************************************************)
EXTENDS Naturals, Sequences, FiniteSets

CONSTANTS MaxRetries, InitialDelay, MaxDelay,   \* the retry policy
          RetryAfters,      \* the retry-after headers of the server, in milliseconds
          Bodies            \* the payload sequences the server streams

ASSUME RetryAssumption ==
  /\ MaxRetries \in Nat
  /\ InitialDelay \in Nat \ {0} /\ MaxDelay \in Nat \ {0} /\ InitialDelay <= MaxDelay
  /\ RetryAfters \subseteq Nat

VARIABLES pc, attempt,
          aborted,          \* the caller's signal
          requests,         \* history: requests sent
          last, after,      \* history: the last response and its retry-after
          wait,             \* the delay before the next request
          body,             \* what the server has still to deliver
          sentBody, entire, \* history: the payloads of it that are whole, and whether all are
          buffer, ended,    \* readSsePayloads
          text, calls, sawChoice,
          delivered,        \* the deltas given to onTextDelta
          result            \* what the collector returned or threw

http   == <<attempt, requests, last, after, wait>>
sse    == <<body, sentBody, entire, buffer, ended>>
answer == <<text, calls, sawChoice, delivered>>
vars   == <<pc, aborted, http, sse, answer, result>>

NoHeader == MaxDelay + 1 + MaxDelay
NoResult == [kind |-> "none"]
NoCalls  == <<>>

-----------------------------------------------------------------------------
(* Payloads and their tokens *)

Done == [type |-> "done"]                                        \* [DONE]

(* A body is a sequence of payloads, of which one type is [DONE]. *)
ASSUME BodyAssumption ==
  \A ps \in Bodies :
    /\ ps \in Seq({ps[i] : i \in DOMAIN ps})
    /\ \A i \in DOMAIN ps : ps[i].type = "done" => ps[i] = Done

NL == <<"nl">>
CR == <<"cr">>
Half(p, k) == <<"half", p, k>>
Halves(p) == <<Half(p, 1), Half(p, 2)>>
Event(p, crlf) == Halves(p) \o (IF crlf THEN <<CR, NL, CR, NL>> ELSE <<NL, NL>>)

EventLength(crlf) == IF crlf THEN 6 ELSE 4

Stream(ps, crlf) ==
  [i \in 1 .. EventLength(crlf) * Len(ps) |->
     Event(ps[((i - 1) \div EventLength(crlf)) + 1], crlf)
          [((i - 1) % EventLength(crlf)) + 1]]

(* The payloads of which both halves are among the first cut tokens. *)
Whole(ps, crlf, cut) ==
  SubSeq(ps, 1, Cardinality({i \in DOMAIN ps : EventLength(crlf) * (i - 1) + 2 <= cut}))

(* The members of s at the positions of I, in order. *)
Pick(s, I) ==
  [k \in 1 .. Cardinality(I) |-> s[CHOOSE i \in I : Cardinality({j \in I : j < i}) = k - 1]]

(* buffer.replaceAll('\r\n', '\n') *)
Normal(s) == Pick(s, {i \in DOMAIN s : ~(s[i] = CR /\ i < Len(s) /\ s[i + 1] = NL)})

Boundaries(s) == {i \in 1 .. Len(s) - 1 : s[i] = NL /\ s[i + 1] = NL}
Boundary(s) == CHOOSE i \in Boundaries(s) : \A j \in Boundaries(s) : i <= j

(* What the data lines of the first event say: a comment line says nothing, *)
(* and a carriage return that no line feed follows belongs to its line.     *)
IsData(t) == t[1] = "half" /\ t[2].type # "comment"
EventData(s) ==
  Pick(s, {i \in 1 .. Boundary(s) - 1 :
             IsData(s[i]) \/ (s[i] = CR /\ i > 1 /\ IsData(s[i - 1]))})
AfterEvent(s) == SubSeq(s, Boundary(s) + 2, Len(s))

(* JSON.parse of the data succeeds: it takes a trailing return for space. *)
Parses(data) ==
  /\ data \in {Halves(data[1][2]), Halves(data[1][2]) \o <<CR>>}
  /\ data[1][2].type \notin {"garbled", "done"}

-----------------------------------------------------------------------------
(* How a request ends: the catch block of stream() and the collector *)

Failed(error) ==
  IF aborted THEN [kind |-> "aborted"] ELSE [kind |-> "error", error |-> error]

End(r) == pc' = "done" /\ result' = r
Fail(error) == End(Failed(error))

(* The collector compares the deltas it was given with the answer. *)
Collected(finish) ==
  IF \/ finish.kind = "message" /\ delivered \notin {<<>>, finish.content}
     \/ finish.kind = "tool_calls" /\ delivered # <<>>
  THEN [kind |-> "error", error |-> "protocol"]
  ELSE finish

-----------------------------------------------------------------------------
(* #fetchResponse and #waitBeforeRetry *)

Send ==
  /\ pc = "send"
  /\ IF aborted THEN Fail("abort") /\ UNCHANGED requests
     ELSE requests' = requests + 1 /\ pc' = "fetch" /\ UNCHANGED result
  /\ UNCHANGED <<aborted, attempt, last, after, wait, sse, answer>>

Least(m, n) == IF m <= n THEN m ELSE n

Backoff == Least(InitialDelay * 2 ^ (attempt - 1), MaxDelay)

(* Mutant: a retry-after above the ceiling is waited for at the ceiling. *)
WaitClamped(header) ==
  /\ wait' = Least(IF header = NoHeader THEN Backoff ELSE header, MaxDelay)
  /\ pc' = "sleep"
  /\ UNCHANGED result

(* A transient response may name its own delay, but none above the ceiling: *)
(* then it is final.                                                        *)
WaitFor(header) ==
  LET milliseconds == IF header = NoHeader THEN Backoff ELSE header IN
  IF milliseconds > MaxDelay \/ aborted
    THEN Fail("http") /\ UNCHANGED wait
    ELSE wait' = milliseconds /\ pc' = "sleep" /\ UNCHANGED result

NetworkFails ==
  /\ pc = "fetch"
  /\ last' = "network" /\ after' = NoHeader
  /\ IF aborted \/ attempt > MaxRetries
       THEN Fail("network") /\ UNCHANGED wait
       ELSE WaitFor(NoHeader)
  /\ UNCHANGED <<aborted, attempt, requests, sse, answer>>

(* A status that is not ok; reading its detail may fail in its turn. *)
Refused(status, header) ==
  /\ pc = "fetch"
  /\ last' = status /\ after' = header
  /\ \/ /\ IF status # "transient" \/ attempt > MaxRetries
             THEN Fail(IF status = "overflow" THEN "overflow" ELSE "http") /\ UNCHANGED wait
             ELSE WaitFor(header)
     \/ Fail("detail") /\ UNCHANGED wait
  /\ UNCHANGED <<aborted, attempt, requests, sse, answer>>

(* The sleep rejects when the signal aborts. *)
Wake ==
  /\ pc = "sleep"
  /\ IF aborted THEN Fail("abort") /\ UNCHANGED attempt
     ELSE attempt' = attempt + 1 /\ pc' = "send" /\ UNCHANGED result
  /\ UNCHANGED <<aborted, requests, last, after, wait, sse, answer>>

(* The server starts a body, which may break off after any of its tokens. *)
Accepted(ps, crlf, cut) ==
  /\ pc = "fetch"
  /\ last' = "ok" /\ after' = NoHeader
  /\ cut <= Len(Stream(ps, crlf))
  /\ body' = SubSeq(Stream(ps, crlf), 1, cut)
  /\ sentBody' = Whole(ps, crlf, cut)
  /\ entire' = (cut = Len(Stream(ps, crlf)))
  /\ pc' = "read"
  /\ UNCHANGED <<aborted, attempt, requests, wait, buffer, ended, answer, result>>

-----------------------------------------------------------------------------
(* readSsePayloads and the loop of stream() *)

(* Mutant: line ends are normalised chunk by chunk. *)
JoinedByChunk(chunk) == buffer \o Normal(chunk)

Joined(chunk) == Normal(buffer \o chunk)

ReadChunk(n) ==
  /\ pc = "read" /\ ~ended /\ Boundaries(buffer) = {}
  /\ n <= Len(body)
  /\ buffer' = Joined(SubSeq(body, 1, n))
  /\ body' = SubSeq(body, n + 1, Len(body))
  /\ UNCHANGED <<pc, aborted, http, sentBody, entire, ended, answer, result>>

ReadEnd ==
  /\ pc = "read" /\ ~ended /\ Boundaries(buffer) = {}
  /\ body = <<>>
  /\ ended' = TRUE
  /\ buffer' = buffer \o <<NL, NL>>
  /\ UNCHANGED <<pc, aborted, http, body, sentBody, entire, answer, result>>

ReadFails ==
  /\ pc = "read" /\ ~ended /\ Boundaries(buffer) = {}
  /\ Fail("network")
  /\ UNCHANGED <<aborted, http, sse, answer>>

(* An event without data is skipped, [DONE] ends the body. *)
SkipEvent ==
  /\ pc = "read" /\ Boundaries(buffer) # {}
  /\ EventData(buffer) = <<>>
  /\ buffer' = AfterEvent(buffer)
  /\ UNCHANGED <<pc, aborted, http, body, sentBody, entire, ended, answer, result>>

DoneEvent ==
  /\ pc = "read" /\ Boundaries(buffer) # {}
  /\ EventData(buffer) = Halves(Done)
  /\ pc' = "finish"
  /\ UNCHANGED <<aborted, http, sse, answer, result>>

Payload == EventData(buffer)[1][2]

HasPayload ==
  /\ pc = "read" /\ Boundaries(buffer) # {}
  /\ EventData(buffer) \notin {<<>>, Halves(Done)}

BadEvent ==
  /\ HasPayload
  /\ \/ ~Parses(EventData(buffer)) /\ Fail("response")
     \/ Parses(EventData(buffer)) /\ aborted /\ Fail("abort")
     \/ /\ Parses(EventData(buffer)) /\ ~aborted
        /\ Payload.type = "error"
        /\ Fail(IF Payload.overflow THEN "overflow" ELSE "response")
  /\ UNCHANGED <<aborted, http, sse, answer>>

GoodEvent(type) ==
  /\ HasPayload
  /\ Parses(EventData(buffer)) /\ ~aborted
  /\ Payload.type = type
  /\ buffer' = AfterEvent(buffer)
  /\ UNCHANGED <<aborted, http, body, sentBody, entire, ended>>

UsageEvent == GoodEvent("usage") /\ UNCHANGED <<pc, answer, result>>

(* The delta goes to the consumer at once, who may throw. *)
TextEvent ==
  /\ GoodEvent("text")
  /\ text' = Append(text, Payload.delta)
  /\ delivered' = Append(delivered, Payload.delta)
  /\ sawChoice' = TRUE
  /\ UNCHANGED calls
  /\ \/ UNCHANGED <<pc, result>>
     \/ End([kind |-> "error", error |-> "consumer"])

WithFragment(index, part) ==
  [i \in DOMAIN calls \cup {index} |->
     IF i # index THEN calls[i]
     ELSE IF i \in DOMAIN calls THEN Append(calls[i], part) ELSE <<part>>]

CallEvent ==
  /\ GoodEvent("call")
  /\ calls' = WithFragment(Payload.index, Payload.part)
  /\ sawChoice' = TRUE
  /\ UNCHANGED <<pc, text, delivered, result>>

(* The arguments of a call are JSON only when its last fragment is there. *)
Complete(fragments) == fragments[Len(fragments)].last

Answer ==
  IF DOMAIN calls # {}
    THEN [kind |-> "tool_calls", calls |-> calls]
    ELSE [kind |-> "message", content |-> text]

(* Mutant: a signal that aborts while the body ends is not looked at. *)
FinishUnchecked ==
  /\ pc = "finish" \/ (pc = "read" /\ ended /\ Boundaries(buffer) = {})
  /\ IF ~sawChoice \/ \E i \in DOMAIN calls : ~Complete(calls[i])
       THEN Fail("response")
       ELSE End(Collected(Answer))
  /\ UNCHANGED <<aborted, http, sse, answer>>

Finish ==
  /\ pc = "finish" \/ (pc = "read" /\ ended /\ Boundaries(buffer) = {})
  /\ IF aborted \/ ~sawChoice \/ \E i \in DOMAIN calls : ~Complete(calls[i])
       THEN Fail("response")
       ELSE End(Collected(Answer))
  /\ UNCHANGED <<aborted, http, sse, answer>>

Abort ==
  /\ ~aborted /\ pc # "done"
  /\ aborted' = TRUE
  /\ UNCHANGED <<pc, http, sse, answer, result>>

-----------------------------------------------------------------------------
Init ==
  /\ pc = "send" /\ attempt = 1
  /\ aborted = FALSE
  /\ requests = 0 /\ last = "none" /\ after = NoHeader /\ wait = 0
  /\ body = <<>> /\ sentBody = <<>> /\ entire = FALSE /\ buffer = <<>> /\ ended = FALSE
  /\ text = <<>> /\ calls = NoCalls /\ sawChoice = FALSE /\ delivered = <<>>
  /\ result = NoResult

Fetch ==
  \/ NetworkFails
  \/ \E status \in {"fatal", "overflow"} : Refused(status, NoHeader)
  \/ \E header \in RetryAfters \cup {NoHeader} : Refused("transient", header)
  \/ \E ps \in Bodies, crlf \in BOOLEAN :
       \E cut \in 0 .. Len(Stream(ps, crlf)) : Accepted(ps, crlf, cut)

Next ==
  \/ Send \/ Fetch \/ Wake \/ Abort
  \/ \E n \in 1 .. Len(body) : ReadChunk(n)
  \/ ReadEnd \/ ReadFails
  \/ SkipEvent \/ DoneEvent \/ BadEvent \/ UsageEvent \/ TextEvent \/ CallEvent
  \/ Finish

Spec == Init /\ [][Next]_vars

-----------------------------------------------------------------------------
(* Properties *)

(* Only a network failure or a transient status is answered by another     *)
(* request, at most MaxRetries times, never after the signal aborted nor   *)
(* once a body was accepted or a delta shown; and a server that names a    *)
(* delay is not asked again before it, nor after one above the ceiling.    *)
NoReplay ==
  [][requests' # requests =>
       /\ requests' = requests + 1 /\ requests' <= MaxRetries + 1
       /\ ~aborted
       /\ last \in {"none", "network", "transient"}
       /\ delivered = <<>>
       /\ wait <= MaxDelay
       /\ after # NoHeader => wait = after]_vars

Until(ps) ==
  LET ends == {i \in DOMAIN ps : ps[i] = Done} IN
  IF ends = {} THEN ps
  ELSE SubSeq(ps, 1, (CHOOSE i \in ends : \A j \in ends : i <= j) - 1)

TextsOf(ps) ==
  LET texts == Pick(ps, {i \in DOMAIN ps : ps[i].type = "text"})
  IN [i \in DOMAIN texts |-> texts[i].delta]

Ours(ps, k) == {i \in DOMAIN ps : ps[i].type = "call" /\ ps[i].index = k}

CallsOf(ps) ==
  [k \in {ps[i].index : i \in {j \in DOMAIN ps : ps[j].type = "call"}} |->
     LET parts == Pick(ps, Ours(ps, k)) IN [i \in DOMAIN parts |-> parts[i].part]]

(* An answer is what the payloads up to [DONE] say, whatever the chunks     *)
(* they came in and however their lines end: the deltas in order, already   *)
(* all shown to the consumer, or the calls, each with all its fragments in  *)
(* order.  And a body is called invalid only when it is: it was cut short,  *)
(* or has a garbled or failed payload, an incomplete call or no choice.     *)
FaithfulAnswer ==
  LET said  == Until(sentBody)
      texts == TextsOf(said)
      all   == CallsOf(said)
      wrong == \E i \in DOMAIN said : said[i].type \in {"garbled", "error"}
  IN
  /\ Len(delivered) <= Len(texts) /\ delivered = SubSeq(texts, 1, Len(delivered))
  /\ result.kind \in {"message", "tool_calls"} =>
       /\ ~wrong
       /\ delivered = texts
       /\ result = IF all # NoCalls THEN [kind |-> "tool_calls", calls |-> all]
                   ELSE [kind |-> "message", content |-> texts]
  /\ (result = [kind |-> "error", error |-> "response"] /\ entire) =>
       \/ wrong
       \/ texts = <<>> /\ all = NoCalls
       \/ \E k \in DOMAIN all : ~Complete(all[k])

(* A call whose signal aborted before it ended ends as aborted: never with  *)
(* an answer, nor with the error the abort itself caused on its way.        *)
CancelReported ==
  [][(aborted /\ result' # result) => result'.kind = "aborted"]_vars
=============================================================================
