------------------------- MODULE SessionFileLock_proofs -------------------------
(***************************************************************************)
(* What SessionFileLock guarantees for any number of processes, machines,  *)
(* appends and process deaths.                                             *)
(*                                                                         *)
(* The argument: a token names one call for ever, because a call takes a   *)
(* fresh one.  A process only sets out to unlink a lock whose call is over *)
(* (its owner is dead, or is this process and has returned), and a call    *)
(* that is over never becomes current again.  So if the lock file still is *)
(* that lock when it is unlinked, nobody's lock is lost; and while reclaims*)
(* do not overlap nothing can replace it in between.  Hence a process in   *)
(* its critical section owns the lock file, and the revision it compared   *)
(* is still the document's when it writes.                                 *)
(***************************************************************************)
EXTENDS SessionFileLock, TLAPS

(* No token is on disk, or remembered, that has not been drawn; the        *)
(* current call is not one this process noted as ended.                    *)
TokensDrawn ==
    /\ lock # None => lock.token <= attempts[lock.pid]
    /\ \A p \in Proc : first[p] # None => first[p].token <= attempts[first[p].pid]
    /\ \A p \in Proc : released[p] <= attempts[p]
    /\ \A p \in Proc : pc[p] \in InCall => released[p] < attempts[p]
    /\ \A p \in Proc : pc[p] = "cleanup" => 0 < attempts[p]

HolderOwnsLock == \A p \in Proc : pc[p] \in Critical => lock = Own(p)

(* A process that is about to reclaim a lock read one whose call is over.  *)
ReclaimsEndedCalls ==
    /\ \A p \in Proc : pc[p] \in {"probe", "reread", "unlink"} => first[p] # None
    /\ \A p, q \in Proc :
         pc[p] \in {"reread", "unlink"} /\ pc[q] \in InCall => first[p] # Own(q)

ReclaimsWhatItRead == \A p \in Proc : pc[p] = "unlink" => lock = first[p]

LockInv ==
    /\ TypeOK
    /\ TokensDrawn
    /\ HolderOwnsLock
    /\ ReclaimsEndedCalls
    /\ ReclaimsWhatItRead
    /\ SerialReclaim

(* The revision a process expects is its events', but for the append it    *)
(* has just committed and not yet pushed.                                  *)
RevisionMatchesEvents ==
    \A p \in Proc :
        expected[p] =
            IF outcome[p] = "committed" /\ pc[p] \in {"release", "unlock", "cleanup"}
              THEN Append(events[p], Own(p))
              ELSE events[p]

WritesWhatItCompared == \A p \in Proc : pc[p] = "write" => document = expected[p]

LogInv == LockInv /\ RevisionMatchesEvents /\ WritesWhatItCompared
-------------------------------------------------------------------------------
(* A process is never about to use a token of zero.                        *)
LEMMA OwnIsToken ==
  ASSUME TypeOK, TokensDrawn, NEW p \in Proc, pc[p] \in InCall
  PROVE  Own(p) \in Token /\ Own(p) # None
<1>1. attempts[p] \in 1 .. MaxAttempts
  BY BoundAssumption DEF TypeOK, TokensDrawn
<1>2. QED
  BY <1>1 DEF Own, Token, None

(* Every step keeps the variables in their types.                          *)
LEMMA TypeStep ==
  ASSUME TypeOK, TokensDrawn, [Next]_vars
  PROVE  TypeOK'
<1> USE BoundAssumption DEF TypeOK, Goto, Ends, Control, Outcome
<1>1. ASSUME NEW p \in Proc, Open(p) PROVE TypeOK'
  <2>1. events' \in [Proc -> Seq(Token)] /\ expected' \in [Proc -> Seq(Token)]
    BY <1>1 DEF Open
  <2>2. CASE StartCall(p)
    BY <1>1, <2>1, <2>2 DEF Open, StartCall
  <2>3. CASE ~StartCall(p)
    BY <1>1, <2>1, <2>3 DEF Open
  <2>4. QED
    BY <2>2, <2>3
<1>2. ASSUME NEW p \in Proc, Begin(p) PROVE TypeOK'
  BY <1>2 DEF Begin, StartCall
<1>3. ASSUME NEW p \in Proc, Acquire(p) PROVE TypeOK'
  <2>1. Own(p) \in Token
    BY <1>3, OwnIsToken DEF Acquire, InCall
  <2>2. QED
    BY <1>3, <2>1 DEF Acquire
<1>4. ASSUME NEW p \in Proc, Contended(p) PROVE TypeOK'
  BY <1>4 DEF Contended
<1>5. ASSUME NEW p \in Proc, LockError(p) PROVE TypeOK'
  BY <1>5 DEF LockError
<1>6. ASSUME NEW p \in Proc, Inspect(p) PROVE TypeOK'
  <2>1. CASE lock = None
    BY <1>6, <2>1 DEF Inspect
  <2>2. CASE lock # None
    <3>1. pc' = [pc EXCEPT ![p] = "probe"] /\ first' = [first EXCEPT ![p] = lock]
      BY <1>6, <2>2 DEF Inspect
    <3>2. pc' \in [Proc -> Control]
      BY <3>1
    <3>3. UNCHANGED <<attempts, lock, released, document, expected, events, loaded,
                      outcome, crashes>>
      BY <1>6 DEF Inspect
    <3>4. QED
      BY <3>1, <3>2, <3>3
  <2>3. QED
    BY <2>1, <2>2
<1>7. ASSUME NEW p \in Proc, Probe(p) PROVE TypeOK'
  BY <1>7 DEF Probe
<1>8. ASSUME NEW p \in Proc, Reclaim(p) PROVE TypeOK'
  BY <1>8 DEF Reclaim
<1>9. ASSUME NEW p \in Proc, CheckRevision(p) PROVE TypeOK'
  BY <1>9 DEF CheckRevision
<1>10. ASSUME NEW p \in Proc, Commit(p) PROVE TypeOK'
  <2>1. Own(p) \in Token
    BY <1>10, OwnIsToken DEF Commit, InCall, Critical
  <2>2. document' \in Seq(Token)
    BY <1>10, <2>1 DEF Commit
  <2>3. expected' \in [Proc -> Seq(Token)]
    BY <1>10, <2>2 DEF Commit
  <2>4. QED
    BY <1>10, <2>2, <2>3 DEF Commit
<1>11. ASSUME NEW p \in Proc, WriteError(p) PROVE TypeOK'
  BY <1>11 DEF WriteError
<1>12. ASSUME NEW p \in Proc, ReleaseCheck(p) PROVE TypeOK'
  <2>1. released' \in [Proc -> 0 .. MaxAttempts]
    BY <1>12 DEF ReleaseCheck
  <2>2. pc' \in [Proc -> Control]
    BY <1>12 DEF ReleaseCheck
  <2>3. UNCHANGED <<attempts, lock, first, document, expected, events, loaded,
                    outcome, crashes>>
    BY <1>12 DEF ReleaseCheck
  <2>4. QED
    BY <2>1, <2>2, <2>3
<1>13. ASSUME NEW p \in Proc, Unlock(p) PROVE TypeOK'
  <2>1. attempts[p] \in 0 .. MaxAttempts /\ 0 \in 0 .. MaxAttempts
    OBVIOUS
  <2>2. CASE lock' = None /\ released' = [released EXCEPT ![p] = 0]
    BY <1>13, <2>1, <2>2 DEF Unlock
  <2>3. CASE lock' = lock /\ released' = [released EXCEPT ![p] = attempts[p]]
    BY <1>13, <2>1, <2>3 DEF Unlock
  <2>4. QED
    BY <1>13, <2>2, <2>3 DEF Unlock
<1>14. ASSUME NEW p \in Proc, Finish(p) PROVE TypeOK'
  <2>1. CASE outcome[p] = "committed"
    <3>1. events' = [events EXCEPT ![p] = Append(events[p], Own(p))]
      BY <1>14, <2>1 DEF Finish
    <3>2. Own(p) \in Token
      BY <1>14 DEF Finish, TokensDrawn, Own, Token
    <3>3. events' \in [Proc -> Seq(Token)]
      BY <3>1, <3>2
    <3>4. QED
      BY <1>14, <2>1, <3>3 DEF Finish
  <2>2. CASE outcome[p] # "committed"
    BY <1>14, <2>2 DEF Finish
  <2>3. QED
    BY <2>1, <2>2
<1>15. ASSUME NEW p \in Proc, Crash(p) PROVE TypeOK'
  BY <1>15 DEF Crash
<1>16. ASSUME NEW p \in Proc, Relaunch(p) PROVE TypeOK'
  BY <1>16 DEF Relaunch
<1>17. ASSUME NEW p \in Proc, Reread(p) PROVE TypeOK'
  BY <1>17 DEF Reread
<1>18. CASE UNCHANGED vars
  BY <1>18 DEF vars
<1>19. QED
  BY <1>1, <1>2, <1>3, <1>4, <1>5, <1>6, <1>7, <1>8, <1>9, <1>10, <1>11, <1>12,
     <1>13, <1>14, <1>15, <1>16, <1>17, <1>18 DEF Next, Step, CallStep
-------------------------------------------------------------------------------
(* Starting a call only raises the tokens that have been drawn.            *)
LEMMA TokensStart ==
  ASSUME TypeOK, TokensDrawn, NEW p \in Proc, StartCall(p),
         UNCHANGED <<lock, first, released>>
  PROVE  TokensDrawn'
<1>1. \A q \in Proc : attempts[q] \in Nat /\ released[q] \in Nat
  BY BoundAssumption DEF TypeOK
<1>2. \A q \in Proc : attempts'[q] = IF q = p THEN attempts[p] + 1 ELSE attempts[q]
  BY DEF TypeOK, StartCall
<1>3. \A q \in Proc : pc'[q] = IF q = p THEN "link" ELSE pc[q]
  BY DEF TypeOK, StartCall, Goto
<1>4. lock # None => lock.token \in Nat /\ lock.pid \in Proc
  BY BoundAssumption DEF TypeOK, Token
<1>5. \A q \in Proc : first[q] # None => first[q].token \in Nat /\ first[q].pid \in Proc
  BY BoundAssumption DEF TypeOK, Token
<1>6. QED
  BY <1>1, <1>2, <1>3, <1>4, <1>5 DEF TokensDrawn

(* A token on disk, or read from disk, keeps naming the call it named.     *)
LEMMA TokensStep ==
  ASSUME TypeOK, TokensDrawn, [Next]_vars
  PROVE  TokensDrawn'
<1> USE BoundAssumption DEF TypeOK, TokensDrawn, Goto, Ends, InCall, Critical
<1>1. ASSUME NEW p \in Proc, Open(p) PROVE TokensDrawn'
  <2>1. CASE StartCall(p)
    BY <1>1, <2>1, TokensStart DEF Open
  <2>2. CASE ~StartCall(p)
    BY <1>1, <2>2 DEF Open
  <2>3. QED
    BY <2>1, <2>2
<1>2. ASSUME NEW p \in Proc, Begin(p) PROVE TokensDrawn'
  BY <1>2, TokensStart DEF Begin
<1>3. ASSUME NEW p \in Proc, Acquire(p) PROVE TokensDrawn'
  BY <1>3 DEF Acquire, Own
<1>4. ASSUME NEW p \in Proc, Contended(p) PROVE TokensDrawn'
  BY <1>4 DEF Contended
<1>5. ASSUME NEW p \in Proc, LockError(p) PROVE TokensDrawn'
  BY <1>5 DEF LockError
<1>6. ASSUME NEW p \in Proc, Inspect(p) PROVE TokensDrawn'
  BY <1>6 DEF Inspect
<1>7. ASSUME NEW p \in Proc, Probe(p) PROVE TokensDrawn'
  BY <1>7 DEF Probe
<1>8. ASSUME NEW p \in Proc, Reclaim(p) PROVE TokensDrawn'
  BY <1>8 DEF Reclaim
<1>9. ASSUME NEW p \in Proc, CheckRevision(p) PROVE TokensDrawn'
  BY <1>9 DEF CheckRevision
<1>10. ASSUME NEW p \in Proc, Commit(p) PROVE TokensDrawn'
  BY <1>10 DEF Commit
<1>11. ASSUME NEW p \in Proc, WriteError(p) PROVE TokensDrawn'
  BY <1>11 DEF WriteError
<1>12. ASSUME NEW p \in Proc, ReleaseCheck(p) PROVE TokensDrawn'
  <2>1. CASE released' = released
    <3>1. PICK label \in {"unlock", "cleanup"} : pc' = [pc EXCEPT ![p] = label]
      BY <1>12 DEF ReleaseCheck
    <3>2. QED
      BY <1>12, <2>1, <3>1 DEF ReleaseCheck
  <2>2. CASE /\ released' = [released EXCEPT ![p] = attempts[p]]
             /\ pc' = [pc EXCEPT ![p] = "cleanup"]
    BY <1>12, <2>2 DEF ReleaseCheck
  <2>3. QED
    BY <1>12, <2>1, <2>2 DEF ReleaseCheck
<1>13. ASSUME NEW p \in Proc, Unlock(p) PROVE TokensDrawn'
  <2>1. CASE lock' = None /\ released' = [released EXCEPT ![p] = 0]
    BY <1>13, <2>1 DEF Unlock
  <2>2. CASE lock' = lock /\ released' = [released EXCEPT ![p] = attempts[p]]
    BY <1>13, <2>2 DEF Unlock
  <2>3. QED
    BY <1>13, <2>1, <2>2 DEF Unlock
<1>14. ASSUME NEW p \in Proc, Finish(p) PROVE TokensDrawn'
  BY <1>14 DEF Finish
<1>15. ASSUME NEW p \in Proc, Crash(p) PROVE TokensDrawn'
  BY <1>15 DEF Crash
<1>16. ASSUME NEW p \in Proc, Relaunch(p) PROVE TokensDrawn'
  BY <1>16 DEF Relaunch
<1>17. ASSUME NEW p \in Proc, Reread(p) PROVE TokensDrawn'
  BY <1>17 DEF Reread
<1>18. CASE UNCHANGED vars
  BY <1>18 DEF vars
<1>19. QED
  BY <1>1, <1>2, <1>3, <1>4, <1>5, <1>6, <1>7, <1>8, <1>9, <1>10, <1>11, <1>12,
     <1>13, <1>14, <1>15, <1>16, <1>17, <1>18 DEF Next, Step, CallStep

(* A step that takes p no nearer to a reclaim, and starts no call, leaves  *)
(* what the reclaimers read as it was.                                     *)
LEMMA EndedFrame ==
  ASSUME TypeOK, ReclaimsEndedCalls, NEW p \in Proc, NEW label,
         pc' = [pc EXCEPT ![p] = label],
         label \notin {"probe", "reread", "unlink"},
         label \in InCall => pc[p] \in InCall,
         first' = first, attempts' = attempts
  PROVE  ReclaimsEndedCalls'
<1>1. \A q \in Proc : pc'[q] = IF q = p THEN label ELSE pc[q]
  BY DEF TypeOK
<1>2. \A q \in Proc : pc'[q] \in {"probe", "reread", "unlink"} =>
        pc'[q] = pc[q] /\ first'[q] # None
  BY <1>1 DEF ReclaimsEndedCalls
<1>3. \A q, r \in Proc :
        pc'[q] \in {"reread", "unlink"} /\ pc'[r] \in InCall => first'[q] # Own(r)'
  BY <1>1 DEF ReclaimsEndedCalls, Own
<1>4. QED
  BY <1>2, <1>3 DEF ReclaimsEndedCalls

(* A step that starts a call gives it a token nobody has read.             *)
LEMMA EndedStart ==
  ASSUME TypeOK, TokensDrawn, ReclaimsEndedCalls, NEW p \in Proc,
         StartCall(p), pc[p] \notin InCall, first' = first
  PROVE  ReclaimsEndedCalls'
<1>1. \A q \in Proc : pc'[q] = IF q = p THEN "link" ELSE pc[q]
  BY DEF TypeOK, StartCall, Goto
<1>2. \A q \in Proc : attempts'[q] = IF q = p THEN attempts[p] + 1 ELSE attempts[q]
  BY DEF TypeOK, StartCall
<1>3. \A q \in Proc : pc'[q] \in {"probe", "reread", "unlink"} =>
        pc'[q] = pc[q] /\ first'[q] # None
  BY <1>1 DEF ReclaimsEndedCalls
<1>4. ASSUME NEW q \in Proc, NEW r \in Proc,
             pc'[q] \in {"reread", "unlink"}, pc'[r] \in InCall
      PROVE  first'[q] # Own(r)'
  <2>1. pc[q] \in {"reread", "unlink"} /\ first[q] # None
    BY <1>3, <1>4
  <2>2. CASE r = p
    <3>1. first[q].token <= attempts[first[q].pid]
      BY <2>1 DEF TokensDrawn
    <3>2. attempts'[p] = attempts[p] + 1 /\ attempts[p] \in Nat
      BY <1>2, BoundAssumption DEF TypeOK
    <3>3. QED
      BY <2>2, <3>1, <3>2 DEF Own
  <2>3. CASE r # p
    <3>1. pc[r] \in InCall /\ Own(r)' = Own(r)
      BY <1>1, <1>2, <1>4, <2>3 DEF Own
    <3>2. QED
      BY <2>1, <3>1 DEF ReclaimsEndedCalls
  <2>4. QED
    BY <2>2, <2>3
<1>5. QED
  BY <1>3, <1>4 DEF ReclaimsEndedCalls

(* The present call of a process is never one that somebody is reclaiming. *)
LEMMA EndedStep ==
  ASSUME TypeOK, TokensDrawn, ReclaimsEndedCalls, [Next]_vars
  PROVE  ReclaimsEndedCalls'
<1> USE EndedFrame DEF Goto, InCall, Critical
<1>1. ASSUME NEW p \in Proc, Open(p) PROVE ReclaimsEndedCalls'
  <2>1. CASE StartCall(p)
    BY <1>1, <2>1, EndedStart DEF Open
  <2>2. CASE ~StartCall(p)
    BY <1>1, <2>2 DEF Open
  <2>3. QED
    BY <2>1, <2>2
<1>2. ASSUME NEW p \in Proc, Begin(p) PROVE ReclaimsEndedCalls'
  BY <1>2, EndedStart DEF Begin
<1>3. ASSUME NEW p \in Proc, Acquire(p) PROVE ReclaimsEndedCalls'
  BY <1>3 DEF Acquire
<1>4. ASSUME NEW p \in Proc, Contended(p) PROVE ReclaimsEndedCalls'
  BY <1>4 DEF Contended
<1>5. ASSUME NEW p \in Proc, LockError(p) PROVE ReclaimsEndedCalls'
  BY <1>5 DEF LockError
<1>6. ASSUME NEW p \in Proc, Inspect(p) PROVE ReclaimsEndedCalls'
  <2>1. CASE lock = None
    BY <1>6, <2>1 DEF Inspect
  <2>2. CASE lock # None
    <3>1. \A q \in Proc : pc'[q] = IF q = p THEN "probe" ELSE pc[q]
      BY <1>6, <2>2 DEF Inspect, TypeOK
    <3>2. \A q \in Proc : first'[q] = IF q = p THEN lock ELSE first[q]
      BY <1>6, <2>2 DEF Inspect, TypeOK
    <3>3. pc[p] \in InCall /\ \A q \in Proc : Own(q)' = Own(q)
      BY <1>6 DEF Inspect, Own
    <3>4. QED
      BY <2>2, <3>1, <3>2, <3>3 DEF ReclaimsEndedCalls
  <2>3. QED
    BY <2>1, <2>2
<1>7. ASSUME NEW p \in Proc, Probe(p) PROVE ReclaimsEndedCalls'
  <2>1. CASE Reclaimable(p)
    <3>1. first[p] # None /\ released[p] <= attempts[p]
      BY <1>7 DEF Probe, ReclaimsEndedCalls, TokensDrawn
    <3>2. \A q \in Proc : pc[q] \in InCall => first[p] # Own(q)
      <4>1. CASE ReleasedByThisProcess(p)
        <5>1. released[p] < attempts[p]
          BY <1>7 DEF Probe, TokensDrawn
        <5>2. attempts[p] \in Nat /\ released[p] \in Nat
          BY BoundAssumption DEF TypeOK
        <5>3. QED
          BY <4>1, <5>1, <5>2 DEF ReleasedByThisProcess, Own
      <4>2. CASE ~ProcessIsAlive(first[p].pid)
        BY <4>2 DEF ProcessIsAlive, Own
      <4>3. QED
        BY <2>1, <4>1, <4>2 DEF Reclaimable
    <3>3. pc' = [pc EXCEPT ![p] = "reread"] /\ first' = first /\ attempts' = attempts
      BY <1>7, <2>1 DEF Probe
    <3>4. \A q \in Proc : pc'[q] = IF q = p THEN "reread" ELSE pc[q]
      BY <3>3 DEF TypeOK
    <3>5. \A q \in Proc : pc'[q] \in InCall => pc[q] \in InCall
      BY <1>7, <3>4 DEF Probe
    <3>6. QED
      BY <3>1, <3>2, <3>3, <3>4, <3>5 DEF ReclaimsEndedCalls, Own
  <2>2. CASE ~Reclaimable(p)
    BY <1>7, <2>2 DEF Probe
  <2>3. QED
    BY <2>1, <2>2
<1>8. ASSUME NEW p \in Proc, Reclaim(p) PROVE ReclaimsEndedCalls'
  BY <1>8 DEF Reclaim
<1>9. ASSUME NEW p \in Proc, CheckRevision(p) PROVE ReclaimsEndedCalls'
  BY <1>9 DEF CheckRevision
<1>10. ASSUME NEW p \in Proc, Commit(p) PROVE ReclaimsEndedCalls'
  BY <1>10 DEF Commit
<1>11. ASSUME NEW p \in Proc, WriteError(p) PROVE ReclaimsEndedCalls'
  BY <1>11 DEF WriteError
<1>12. ASSUME NEW p \in Proc, ReleaseCheck(p) PROVE ReclaimsEndedCalls'
  BY <1>12 DEF ReleaseCheck
<1>13. ASSUME NEW p \in Proc, Unlock(p) PROVE ReclaimsEndedCalls'
  BY <1>13 DEF Unlock
<1>14. ASSUME NEW p \in Proc, Finish(p) PROVE ReclaimsEndedCalls'
  <2>1. PICK label \in {"idle", "off"} : pc' = [pc EXCEPT ![p] = label]
    BY <1>14 DEF Finish
  <2>2. QED
    BY <1>14, <2>1 DEF Finish
<1>15. ASSUME NEW p \in Proc, Crash(p) PROVE ReclaimsEndedCalls'
  BY <1>15 DEF Crash, ReclaimsEndedCalls, TypeOK, Own
<1>16. ASSUME NEW p \in Proc, Relaunch(p) PROVE ReclaimsEndedCalls'
  BY <1>16 DEF Relaunch
<1>17. ASSUME NEW p \in Proc, Reread(p) PROVE ReclaimsEndedCalls'
  <2>1. PICK label \in {"unlink", "relink"} : pc' = [pc EXCEPT ![p] = label]
    BY <1>17 DEF Reread
  <2>2. CASE label = "relink"
    BY <1>17, <2>1, <2>2 DEF Reread
  <2>3. CASE label = "unlink"
    <3>1. \A q \in Proc : pc'[q] = IF q = p THEN "unlink" ELSE pc[q]
      BY <2>1, <2>3 DEF TypeOK
    <3>2. QED
      BY <1>17, <3>1 DEF Reread, ReclaimsEndedCalls, Own
  <2>4. QED
    BY <2>1, <2>2, <2>3
<1>18. CASE UNCHANGED vars
  BY <1>18 DEF vars, ReclaimsEndedCalls, Own
<1>19. QED
  BY <1>1, <1>2, <1>3, <1>4, <1>5, <1>6, <1>7, <1>8, <1>9, <1>10, <1>11, <1>12,
     <1>13, <1>14, <1>15, <1>16, <1>17, <1>18 DEF Next, Step, CallStep
-------------------------------------------------------------------------------
(* Among the steps of SerialNext only Reread(p) brings p to "unlink".      *)
LEMMA ReachesUnlink ==
  ASSUME TypeOK, [SerialNext]_vars, NEW p \in Proc, pc'[p] = "unlink", pc[p] # "unlink"
  PROVE  SerialReread(p)
<1> USE DEF TypeOK, Goto
<1>1. ASSUME NEW q \in Proc, Step(q) PROVE FALSE
  <2>1. PICK label \in Control \ {"unlink"} : pc' = [pc EXCEPT ![q] = label]
    BY <1>1 DEF Step, CallStep, Open, StartCall, Begin, Acquire, Contended, LockError,
       Inspect, Probe, Reclaim, CheckRevision, Commit, WriteError, ReleaseCheck, Unlock,
       Finish, Crash, Relaunch, Control
  <2>2. QED
    BY <2>1
<1>2. ASSUME NEW q \in Proc, SerialReread(q) PROVE q = p
  BY <1>2 DEF SerialReread, Reread
<1>3. CASE UNCHANGED vars
  BY <1>3 DEF vars
<1>4. QED
  BY <1>1, <1>2, <1>3 DEF SerialNext

LEMMA SerialIsNext ==
  ASSUME [SerialNext]_vars
  PROVE  [Next]_vars
BY DEF SerialNext, SerialReread, Next

(* The lock file changes in three ways.                                    *)
LEMMA LockChanges ==
  ASSUME [Next]_vars
  PROVE  \/ lock' = lock
         \/ \E p \in Proc : Acquire(p) \/ Reclaim(p) \/ Unlock(p)
BY DEF Next, Step, CallStep, Open, StartCall, Begin, Acquire, Contended, LockError,
   Inspect, Probe, Reread, Reclaim, CheckRevision, Commit, WriteError, ReleaseCheck,
   Unlock, Finish, Crash, Relaunch, vars

(* Only Acquire enters the critical section, and a call keeps its token.   *)
LEMMA EntersCritical ==
  ASSUME TypeOK, [Next]_vars, NEW p \in Proc, pc'[p] \in Critical
  PROVE  \/ Acquire(p)
         \/ pc[p] \in Critical /\ Own(p)' = Own(p)
<1> USE DEF TypeOK, Goto, Critical, Own
<1>1. ASSUME NEW q \in Proc, Step(q), q # p PROVE pc'[p] = pc[p] /\ Own(p)' = Own(p)
  <2>1. PICK label : pc' = [pc EXCEPT ![q] = label]
    BY <1>1 DEF Step, CallStep, Open, StartCall, Begin, Acquire, Contended, LockError,
       Inspect, Probe, Reclaim, CheckRevision, Commit, WriteError, ReleaseCheck, Unlock,
       Finish, Crash, Relaunch
  <2>2. attempts'[p] = attempts[p]
    BY <1>1 DEF Step, CallStep, Open, StartCall, Begin, Acquire, Contended, LockError,
       Inspect, Probe, Reclaim, CheckRevision, Commit, WriteError, ReleaseCheck, Unlock,
       Finish, Crash, Relaunch
  <2>3. QED
    BY <1>1, <2>1, <2>2
<1>2. ASSUME Step(p), ~Acquire(p)
      PROVE  pc[p] \in {"check", "write", "release"} /\ attempts' = attempts
  BY <1>2 DEF Step, CallStep, Open, StartCall, Begin, Contended, LockError,
     Inspect, Probe, Reclaim, CheckRevision, Commit, WriteError, ReleaseCheck, Unlock,
     Finish, Crash, Relaunch
<1>3. ASSUME NEW q \in Proc, Reread(q) PROVE pc'[p] = pc[p] /\ Own(p)' = Own(p)
  BY <1>3 DEF Reread
<1>4. CASE UNCHANGED vars
  BY <1>4 DEF vars
<1>5. QED
  BY <1>1, <1>2, <1>3, <1>4 DEF Next

LEMMA LockInvInit == Init => LockInv
BY BoundAssumption
   DEF Init, LockInv, TypeOK, TokensDrawn, HolderOwnsLock, ReclaimsEndedCalls,
       ReclaimsWhatItRead, SerialReclaim, Control, Outcome, InCall, Critical

(* While reclaims do not overlap, the lock a process is about to reclaim   *)
(* cannot be replaced, and no lock whose call is running is removed.       *)
LEMMA LockInvStep ==
  ASSUME LockInv, [SerialNext]_vars
  PROVE  LockInv'
<1>1. [Next]_vars
  BY SerialIsNext
<1>2. TypeOK' /\ TokensDrawn' /\ ReclaimsEndedCalls'
  BY <1>1, TypeStep, TokensStep, EndedStep DEF LockInv
<1>3. SerialReclaim'
  <2>1. SUFFICES ASSUME NEW p \in Proc, NEW q \in Proc, p # q,
                        pc'[p] = "unlink", pc'[q] = "unlink"
                 PROVE  FALSE
    BY DEF SerialReclaim
  <2>2. CASE pc[p] # "unlink" /\ pc[q] = "unlink"
    <3>1. SerialReread(p)
      BY <2>1, <2>2, ReachesUnlink DEF LockInv
    <3>2. lock = first[p]
      BY <3>1, <2>1 DEF SerialReread, Reread, Goto, LockInv, TypeOK
    <3>3. QED
      BY <2>2, <3>1, <3>2 DEF SerialReread
  <2>3. CASE pc[q] # "unlink" /\ pc[p] = "unlink"
    <3>1. SerialReread(q)
      BY <2>1, <2>3, ReachesUnlink DEF LockInv
    <3>2. lock = first[q]
      BY <3>1, <2>1 DEF SerialReread, Reread, Goto, LockInv, TypeOK
    <3>3. QED
      BY <2>3, <3>1, <3>2 DEF SerialReread
  <2>4. CASE pc[p] # "unlink" /\ pc[q] # "unlink"
    <3>1. SerialReread(p) /\ SerialReread(q)
      BY <2>1, <2>4, ReachesUnlink DEF LockInv
    <3>2. QED
      BY <2>1, <3>1 DEF SerialReread, Reread, Goto, LockInv, TypeOK
  <2>5. CASE pc[p] = "unlink" /\ pc[q] = "unlink"
    BY <2>1, <2>5 DEF LockInv, SerialReclaim
  <2>6. QED
    BY <2>2, <2>3, <2>4, <2>5
<1>4. HolderOwnsLock'
  <2>1. SUFFICES ASSUME NEW p \in Proc, pc'[p] \in Critical
                 PROVE  lock' = Own(p)'
    BY DEF HolderOwnsLock
  <2>2. CASE Acquire(p)
    BY <2>2 DEF Acquire, Own
  <2>3. CASE pc[p] \in Critical /\ Own(p)' = Own(p)
    <3>1. lock = Own(p) /\ lock # None
      BY <2>3, OwnIsToken DEF LockInv, HolderOwnsLock, InCall
    <3>2. ASSUME NEW q \in Proc, Acquire(q) PROVE FALSE
      BY <3>1, <3>2 DEF Acquire
    <3>3. ASSUME NEW q \in Proc, Reclaim(q) PROVE FALSE
      BY <3>1, <2>3, <3>3 DEF Reclaim, LockInv, ReclaimsWhatItRead, ReclaimsEndedCalls, InCall
    <3>4. ASSUME NEW q \in Proc, Unlock(q) PROVE FALSE
      <4>1. lock = Own(q)
        BY <3>4 DEF Unlock, LockInv, HolderOwnsLock, Critical
      <4>2. q = p
        BY <3>1, <4>1 DEF Own
      <4>3. QED
        BY <2>1, <3>4, <4>2 DEF Unlock, Goto, Critical, LockInv, TypeOK
    <3>5. QED
      BY <1>1, <2>3, <3>1, <3>2, <3>3, <3>4, LockChanges
  <2>4. QED
    BY <1>1, <2>1, <2>2, <2>3, EntersCritical DEF LockInv
<1>5. ReclaimsWhatItRead'
  <2>1. SUFFICES ASSUME NEW p \in Proc, pc'[p] = "unlink"
                 PROVE  lock' = first'[p]
    BY DEF ReclaimsWhatItRead
  <2>2. CASE pc[p] # "unlink"
    <3>1. SerialReread(p)
      BY <2>1, <2>2, ReachesUnlink DEF LockInv
    <3>2. QED
      BY <2>1, <3>1 DEF SerialReread, Reread, Goto, LockInv, TypeOK
  <2>3. CASE pc[p] = "unlink"
    <3>1. lock = first[p] /\ first[p] # None
      BY <2>3 DEF LockInv, ReclaimsWhatItRead, ReclaimsEndedCalls
    <3>2. first'[p] = first[p]
      <4>1. ASSUME NEW q \in Proc, q # p, first' = [first EXCEPT ![q] = lock] PROVE first'[p] = first[p]
        BY <4>1 DEF LockInv, TypeOK
      <4>2. ASSUME NEW q \in Proc, q # p, first' = [first EXCEPT ![q] = None] PROVE first'[p] = first[p]
        BY <4>2 DEF LockInv, TypeOK
      <4>3. \/ first' = first
            \/ \E q \in Proc : /\ q # p
                               /\ \/ first' = [first EXCEPT ![q] = lock]
                                  \/ first' = [first EXCEPT ![q] = None]
        BY <1>1, <2>1, <2>3
           DEF Next, Step, CallStep, Open, StartCall, Begin, Acquire, Contended, LockError,
               Inspect, Probe, Reread, Reclaim, CheckRevision, Commit, WriteError,
               ReleaseCheck, Unlock, Finish, Crash, Relaunch, vars, Goto, LockInv, TypeOK
      <4>4. QED
        BY <4>1, <4>2, <4>3
    <3>3. ASSUME NEW q \in Proc, Acquire(q) PROVE FALSE
      BY <3>1, <3>3 DEF Acquire
    <3>4. ASSUME NEW q \in Proc, Reclaim(q) PROVE FALSE
      <4>1. q = p
        BY <2>3, <3>4 DEF Reclaim, LockInv, SerialReclaim
      <4>2. QED
        BY <2>1, <3>4, <4>1 DEF Reclaim, Goto, LockInv, TypeOK
    <3>5. ASSUME NEW q \in Proc, Unlock(q) PROVE FALSE
      <4>1. lock = Own(q)
        BY <3>5 DEF Unlock, LockInv, HolderOwnsLock, Critical
      <4>2. QED
        BY <2>3, <3>1, <3>5, <4>1 DEF Unlock, LockInv, ReclaimsEndedCalls, InCall, Critical
    <3>6. QED
      BY <1>1, <3>1, <3>2, <3>3, <3>4, <3>5, LockChanges
  <2>4. QED
    BY <2>2, <2>3
<1>6. QED
  BY <1>2, <1>3, <1>4, <1>5 DEF LockInv

(* LockInv holds in every behaviour in which reclaims do not overlap.      *)
THEOREM LockInvariant == SerialSpec => []LockInv
BY LockInvInit, LockInvStep, PTL DEF SerialSpec

(* SerialSpec is exactly the program without overlapping reclaims.         *)
THEOREM SerialBehaviours == Spec /\ []SerialReclaim => SerialSpec
<1>1. ASSUME [Next]_vars, SerialReclaim, SerialReclaim', TypeOK
      PROVE  [SerialNext]_vars
  <2>1. ASSUME NEW p \in Proc, Reread(p), lock = first[p], NEW q \in Proc, pc[q] = "unlink"
        PROVE  FALSE
    <3>1. p # q /\ pc'[p] = "unlink" /\ pc'[q] = "unlink"
      BY <2>1, <1>1 DEF Reread, Goto, TypeOK
    <3>2. QED
      BY <1>1, <3>1 DEF SerialReclaim
  <2>2. QED
    BY <1>1, <2>1 DEF Next, SerialNext, SerialReread
<1>2. Init => LockInv
  BY LockInvInit
<1>3. LockInv /\ [SerialNext]_vars => LockInv'
  BY LockInvStep
<1>4. LockInv => TypeOK
  BY DEF LockInv
<1>5. QED
  BY <1>1, <1>2, <1>3, <1>4, PTL DEF Spec, SerialSpec

(* TypeOK holds in every behaviour, overlapping reclaims or not.           *)
THEOREM TypeCorrect == Spec => []TypeOK
<1>1. Init => TypeOK /\ TokensDrawn
  BY LockInvInit DEF LockInv
<1>2. TypeOK /\ TokensDrawn /\ [Next]_vars => (TypeOK /\ TokensDrawn)'
  BY TypeStep, TokensStep
<1>3. QED
  BY <1>1, <1>2, PTL DEF Spec

(* At most one process is between taking the lock and letting it go:       *)
(* withSessionFileLock excludes, for any number of processes, as long as   *)
(* no two processes are inside reclaimDeadLocalLock's unprotected window.  *)
THEOREM Exclusion == SerialSpec => []MutualExclusion
<1>1. LockInv => MutualExclusion
  BY DEF LockInv, HolderOwnsLock, MutualExclusion, Own
<1>2. QED
  BY <1>1, LockInvariant, PTL

(* Under the same condition a lock whose call is running is removed by     *)
(* that call alone: reclaiming and cleaning up never take a live lock.     *)
THEOREM ActiveLocksKept == SerialSpec => ActiveLockKept
<1>1. ASSUME LockInv, [SerialNext]_vars, NEW p \in Proc,
             lock = Own(p), pc[p] \in Critical, lock' # lock
      PROVE  pc[p] = "unlock" /\ pc'[p] = "cleanup"
  <2>1. [Next]_vars
    BY <1>1, SerialIsNext
  <2>2. lock # None
    BY <1>1, OwnIsToken DEF LockInv, InCall
  <2>3. ASSUME NEW q \in Proc, Acquire(q) PROVE FALSE
    BY <2>2, <2>3 DEF Acquire
  <2>4. ASSUME NEW q \in Proc, Reclaim(q) PROVE FALSE
    BY <1>1, <2>4 DEF Reclaim, LockInv, ReclaimsWhatItRead, ReclaimsEndedCalls, InCall
  <2>5. ASSUME NEW q \in Proc, Unlock(q) PROVE q = p
    BY <1>1, <2>5 DEF Unlock, LockInv, HolderOwnsLock, Own, Critical
  <2>6. QED
    BY <1>1, <2>1, <2>3, <2>4, <2>5, LockChanges DEF Unlock, Goto, LockInv, TypeOK
<1>2. LockInv /\ [SerialNext]_vars =>
        [\A p \in Proc :
           lock = Own(p) /\ pc[p] \in Critical /\ lock' # lock
             => pc[p] = "unlock" /\ pc'[p] = "cleanup"]_vars
  BY <1>1
<1>3. QED
  BY <1>2, LockInvariant, PTL DEF SerialSpec, ActiveLockKept
-------------------------------------------------------------------------------
(* A step of p leaves what the other processes remember alone.             *)
LEMMA OthersRemember ==
  ASSUME TypeOK, NEW p \in Proc, Step(p) \/ Reread(p), NEW q \in Proc, q # p
  PROVE  /\ pc'[q] = pc[q] /\ outcome'[q] = outcome[q] /\ Own(q)' = Own(q)
         /\ expected'[q] = expected[q] /\ events'[q] = events[q]
<1> USE DEF TypeOK, Goto, Ends, Own
<1>1. pc'[q] = pc[q]
  <2>1. PICK label : pc' = [pc EXCEPT ![p] = label]
    BY DEF Step, CallStep, Open, StartCall, Begin, Acquire, Contended, LockError,
       Inspect, Probe, Reread, Reclaim, CheckRevision, Commit, WriteError, ReleaseCheck,
       Unlock, Finish, Crash, Relaunch
  <2>2. QED
    BY <2>1
<1>2. outcome'[q] = outcome[q]
  <2>1. outcome' = outcome \/ \E how : outcome' = [outcome EXCEPT ![p] = how]
    BY DEF Step, CallStep, Open, StartCall, Begin, Acquire, Contended, LockError,
       Inspect, Probe, Reread, Reclaim, CheckRevision, Commit, WriteError, ReleaseCheck,
       Unlock, Finish, Crash, Relaunch
  <2>2. QED
    BY <2>1
<1>3. Own(q)' = Own(q)
  <2>1. attempts' = attempts \/ \E n : attempts' = [attempts EXCEPT ![p] = n]
    BY DEF Step, CallStep, Open, StartCall, Begin, Acquire, Contended, LockError,
       Inspect, Probe, Reread, Reclaim, CheckRevision, Commit, WriteError, ReleaseCheck,
       Unlock, Finish, Crash, Relaunch
  <2>2. QED
    BY <2>1
<1>4. expected'[q] = expected[q]
  <2>1. expected' = expected \/ \E d : expected' = [expected EXCEPT ![p] = d]
    BY DEF Step, CallStep, Open, StartCall, Begin, Acquire, Contended, LockError,
       Inspect, Probe, Reread, Reclaim, CheckRevision, Commit, WriteError, ReleaseCheck,
       Unlock, Finish, Crash, Relaunch
  <2>2. QED
    BY <2>1
<1>5. events'[q] = events[q]
  <2>1. events' = events \/ \E d : events' = [events EXCEPT ![p] = d]
    BY DEF Step, CallStep, Open, StartCall, Begin, Acquire, Contended, LockError,
       Inspect, Probe, Reread, Reclaim, CheckRevision, Commit, WriteError, ReleaseCheck,
       Unlock, Finish, Crash, Relaunch
  <2>2. QED
    BY <2>1
<1>6. QED
  BY <1>1, <1>2, <1>3, <1>4, <1>5

(* RevisionMatchesEvents, of one process.                                  *)
Matches(p) ==
    expected[p] =
        IF outcome[p] = "committed" /\ pc[p] \in {"release", "unlock", "cleanup"}
          THEN Append(events[p], Own(p))
          ELSE events[p]

LEMMA MatchesStep ==
  ASSUME TypeOK, NEW p \in Proc, Step(p) \/ Reread(p), Matches(p),
         pc[p] = "write" => document = expected[p]
  PROVE  Matches(p)'
<1> USE DEF Matches, TypeOK, Goto, Ends, Own
<1>1. CASE Open(p)
  <2>1. events'[p] = document /\ expected'[p] = document
    BY <1>1 DEF Open
  <2>2. pc'[p] \in {"idle", "link"}
    BY <1>1 DEF Open, StartCall
  <2>3. QED
    BY <2>1, <2>2
<1>2. CASE Begin(p)
  BY <1>2 DEF Begin, StartCall
<1>3. CASE Acquire(p) \/ Inspect(p) \/ Probe(p) \/ Reclaim(p) \/ Relaunch(p) \/ Reread(p)
  <2>1. pc[p] \notin {"release", "unlock", "cleanup"} /\ pc'[p] \notin {"release", "unlock", "cleanup"}
    BY <1>3 DEF Acquire, Inspect, Probe, Reclaim, Relaunch, Reread
  <2>2. expected' = expected /\ events' = events
    BY <1>3 DEF Acquire, Inspect, Probe, Reclaim, Relaunch, Reread
  <2>3. QED
    BY <2>1, <2>2
<1>4. CASE Contended(p) \/ LockError(p) \/ CheckRevision(p) \/ WriteError(p)
  <2>1. /\ pc[p] \notin {"release", "unlock", "cleanup"}
        /\ pc'[p] \in {"release", "unlock", "cleanup"} => outcome'[p] # "committed"
    BY <1>4 DEF Contended, LockError, CheckRevision, WriteError
  <2>2. expected' = expected /\ events' = events
    BY <1>4 DEF Contended, LockError, CheckRevision, WriteError
  <2>3. QED
    BY <2>1, <2>2
<1>5. CASE Commit(p)
  <2>1. /\ pc'[p] = "release" /\ outcome'[p] = "committed"
        /\ expected'[p] = Append(events[p], Own(p)) /\ events' = events /\ attempts' = attempts
    BY <1>5 DEF Commit
  <2>2. QED
    BY <2>1
<1>6. CASE ReleaseCheck(p) \/ Unlock(p)
  <2>1. /\ pc[p] \in {"release", "unlock", "cleanup"}
        /\ pc'[p] \in {"release", "unlock", "cleanup"}
    BY <1>6 DEF ReleaseCheck, Unlock
  <2>2. UNCHANGED <<expected, events, outcome, attempts>>
    BY <1>6 DEF ReleaseCheck, Unlock
  <2>3. QED
    BY <2>1, <2>2
<1>7. CASE Finish(p)
  <2>1. CASE outcome[p] = "committed"
    <3>1. events'[p] = Append(events[p], Own(p)) /\ pc'[p] = "idle" /\ expected' = expected
      BY <1>7, <2>1 DEF Finish
    <3>2. expected[p] = Append(events[p], Own(p))
      BY <1>7, <2>1 DEF Finish
    <3>3. QED
      BY <3>1, <3>2
  <2>2. CASE outcome[p] # "committed"
    BY <1>7, <2>2 DEF Finish
  <2>3. QED
    BY <2>1, <2>2
<1>8. CASE Crash(p)
  BY <1>8 DEF Crash
<1>9. QED
  BY <1>1, <1>2, <1>3, <1>4, <1>5, <1>6, <1>7, <1>8 DEF Step, CallStep

LEMMA LogInvInit == Init => LogInv
BY LockInvInit DEF LogInv, RevisionMatchesEvents, WritesWhatItCompared, Init

(* Only Commit changes the document.                                       *)
LEMMA DocumentChanges ==
  ASSUME [Next]_vars
  PROVE  document' = document \/ \E p \in Proc : Commit(p)
BY DEF Next, Step, CallStep, Open, StartCall, Begin, Acquire, Contended, LockError,
   Inspect, Probe, Reread, Reclaim, CheckRevision, Commit, WriteError, ReleaseCheck,
   Unlock, Finish, Crash, Relaunch, vars

LEMMA LogInvStep ==
  ASSUME LogInv, [SerialNext]_vars
  PROVE  LogInv'
<1>1. [Next]_vars /\ LockInv /\ LockInv' /\ TypeOK
  BY SerialIsNext, LockInvStep DEF LogInv, LockInv
<1>2. RevisionMatchesEvents'
  <2>1. SUFFICES ASSUME NEW q \in Proc PROVE Matches(q)'
    BY DEF RevisionMatchesEvents, Matches
  <2>2. Matches(q)
    BY DEF LogInv, RevisionMatchesEvents, Matches
  <2>3. ASSUME NEW p \in Proc, Step(p) \/ Reread(p) PROVE Matches(q)'
    <3>1. CASE p = q
      BY <1>1, <2>2, <2>3, <3>1, MatchesStep DEF LogInv, WritesWhatItCompared
    <3>2. CASE p # q
      BY <1>1, <2>2, <2>3, <3>2, OthersRemember DEF Matches
    <3>3. QED
      BY <3>1, <3>2
  <2>4. CASE UNCHANGED vars
    BY <2>2, <2>4 DEF vars, Matches, Own
  <2>5. QED
    BY <1>1, <2>3, <2>4 DEF Next
<1>3. WritesWhatItCompared'
  <2>1. SUFFICES ASSUME NEW q \in Proc, pc'[q] = "write"
                 PROVE  document' = expected'[q]
    BY DEF WritesWhatItCompared
  <2>2. ASSUME NEW p \in Proc, Commit(p) PROVE FALSE
    <3>1. CASE p = q
      BY <1>1, <2>1, <2>2, <3>1 DEF Commit, Goto, TypeOK
    <3>2. CASE p # q
      <4>1. pc[q] = "write" /\ pc[p] = "write"
        BY <1>1, <2>1, <2>2, <3>2, OthersRemember DEF Commit, Step, CallStep
      <4>2. QED
        BY <1>1, <3>2, <4>1 DEF LockInv, HolderOwnsLock, Own, Critical
    <3>3. QED
      BY <3>1, <3>2
  <2>3. document' = document
    BY <1>1, <2>2, DocumentChanges
  <2>4. ASSUME NEW p \in Proc, Step(p) \/ Reread(p) PROVE document = expected'[q]
    <3>1. CASE p = q
      <4>1. pc[q] # "write"
        BY <1>1, <2>1, <2>4, <3>1, <2>2
           DEF Step, CallStep, Open, StartCall, Begin, Acquire, Contended, LockError,
               Inspect, Probe, Reread, Reclaim, CheckRevision, WriteError, ReleaseCheck,
               Unlock, Finish, Crash, Relaunch, Goto, TypeOK
      <4>2. CheckRevision(q)
        BY <1>1, <2>1, <2>4, <3>1, <2>2, <4>1
           DEF Step, CallStep, Open, StartCall, Begin, Acquire, Contended, LockError,
               Inspect, Probe, Reread, Reclaim, WriteError, ReleaseCheck,
               Unlock, Finish, Crash, Relaunch, Goto, TypeOK
      <4>3. QED
        BY <1>1, <2>1, <4>2 DEF CheckRevision, Goto, TypeOK
    <3>2. CASE p # q
      BY <1>1, <2>1, <2>4, <3>2, OthersRemember DEF LogInv, WritesWhatItCompared
    <3>3. QED
      BY <3>1, <3>2
  <2>5. CASE UNCHANGED vars
    BY <2>1, <2>5 DEF vars, LogInv, WritesWhatItCompared
  <2>6. QED
    BY <1>1, <2>3, <2>4, <2>5 DEF Next
<1>4. QED
  BY <1>1, <1>2, <1>3 DEF LogInv

(* LogInv holds in every behaviour in which reclaims do not overlap.       *)
THEOREM LogInvariant == SerialSpec => []LogInv
BY LogInvInit, LogInvStep, PTL DEF SerialSpec

(* What a commit writes is the whole document it compared, and one append. *)
LEMMA CommitAppends ==
  ASSUME LogInv, NEW p \in Proc, Commit(p)
  PROVE  /\ expected[p] = document
         /\ Own(p) \in Token
         /\ document' = Append(document, Own(p))
<1>1. pc[p] = "write" /\ TypeOK /\ TokensDrawn
  BY DEF Commit, LogInv, LockInv
<1>2. expected[p] = document /\ events[p] = expected[p]
  BY <1>1 DEF LogInv, WritesWhatItCompared, RevisionMatchesEvents
<1>3. QED
  BY <1>1, <1>2, OwnIsToken DEF Commit, InCall, Critical

(* A stale writer never replaces what another process committed: while     *)
(* reclaims do not overlap every change of the file extends it by exactly  *)
(* one append.                                                             *)
THEOREM LostUpdateFree == SerialSpec => NoLostUpdate
<1>1. ASSUME LogInv, [SerialNext]_vars
      PROVE  [\E e \in Token : document' = Append(document, e)]_document
  BY <1>1, SerialIsNext, DocumentChanges, CommitAppends
<1>2. QED
  BY <1>1, LogInvariant, PTL DEF SerialSpec, NoLostUpdate

(* The file is a compare-and-swap log: SessionFileLock implements          *)
(* DurableLog with the document as the log and each process's expected     *)
(* revision as its view.                                                   *)
THEOREM Refinement == SerialSpec => ImplementsLog
<1>1. Init => Log!Init
  BY DEF Init, Log!Init
<1>2. ASSUME LogInv, [SerialNext]_vars PROVE [Log!Next]_(Log!vars)
  <2>1. [Next]_vars /\ TypeOK
    BY <1>2, SerialIsNext DEF LogInv, LockInv
  <2>2. ASSUME NEW p \in Proc, Open(p) PROVE Log!Open(p)
    BY <2>2 DEF Open, Log!Open
  <2>3. ASSUME NEW p \in Proc, Commit(p) PROVE Log!Commit(p)
    BY <1>2, <2>3, CommitAppends DEF Commit, Log!Commit
  <2>4. ASSUME NEW p \in Proc, Crash(p) PROVE Log!Forget(p)
    BY <2>4 DEF Crash, Log!Forget
  <2>5. \/ UNCHANGED <<document, expected>>
        \/ \E p \in Proc : Open(p) \/ Commit(p) \/ Crash(p)
    BY <2>1 DEF Next, Step, CallStep, StartCall, Begin, Acquire, Contended, LockError,
       Inspect, Probe, Reread, Reclaim, CheckRevision, WriteError, ReleaseCheck,
       Unlock, Finish, Relaunch, vars
  <2>6. QED
    BY <2>2, <2>3, <2>4, <2>5 DEF Log!Next, Log!vars
<1>3. QED
  BY <1>1, <1>2, LogInvariant, PTL DEF SerialSpec, ImplementsLog, Log!Spec
-------------------------------------------------------------------------------
(* What a process read or wrote once is what the file still begins with.   *)
Begins(s, t) == Len(s) <= Len(t) /\ \A i \in 1 .. Len(s) : s[i] = t[i]

MemoryInv ==
    /\ \A p \in Proc : Begins(expected[p], document)
    /\ \A p \in Proc : pc[p] = "idle" => loaded[p]

LEMMA MemoryStep ==
  ASSUME LogInv, MemoryInv, [SerialNext]_vars
  PROVE  MemoryInv'
<1>1. [Next]_vars /\ TypeOK
  BY SerialIsNext DEF LogInv, LockInv
<1>2. ASSUME NEW s \in Seq(Token), Begins(s, document) PROVE Begins(s, document')
  <2>1. CASE document' = document
    BY <1>2, <2>1
  <2>2. ASSUME NEW p \in Proc, Commit(p) PROVE Begins(s, document')
    BY <1>1, <1>2, <2>2, CommitAppends DEF Begins, TypeOK
  <2>3. QED
    BY <1>1, <2>1, <2>2, DocumentChanges
<1>3. ASSUME NEW q \in Proc PROVE Begins(expected'[q], document')
  <2>1. expected[q] \in Seq(Token) /\ Begins(expected[q], document)
    BY <1>1 DEF MemoryInv, TypeOK
  <2>2. \/ expected'[q] = expected[q]
        \/ expected'[q] = document'
        \/ expected'[q] = << >>
    <3>1. ASSUME NEW p \in Proc, Open(p)
          PROVE  expected'[q] \in {expected[q], document'}
      BY <1>1, <3>1 DEF Open, TypeOK
    <3>2. ASSUME NEW p \in Proc, Commit(p)
          PROVE  expected'[q] \in {expected[q], document'}
      BY <1>1, <3>2 DEF Commit, TypeOK
    <3>3. ASSUME NEW p \in Proc, Crash(p)
          PROVE  expected'[q] \in {expected[q], << >>}
      BY <1>1, <3>3 DEF Crash, TypeOK
    <3>4. \/ expected' = expected
          \/ \E p \in Proc : Open(p) \/ Commit(p) \/ Crash(p)
      BY <1>1 DEF Next, Step, CallStep, StartCall, Begin, Acquire, Contended, LockError,
         Inspect, Probe, Reread, Reclaim, CheckRevision, WriteError, ReleaseCheck,
         Unlock, Finish, Relaunch, vars
    <3>5. QED
      BY <3>1, <3>2, <3>3, <3>4
  <2>3. document' \in Seq(Token)
    BY TypeStep, <1>1 DEF LogInv, LockInv, TypeOK
  <2>4. Begins(document', document') /\ Begins(<< >>, document')
    BY <2>3 DEF Begins
  <2>5. QED
    BY <1>2, <2>1, <2>2, <2>4
<1>4. ASSUME NEW q \in Proc, pc'[q] = "idle" PROVE loaded'[q]
  <2>1. pc[q] = "idle" => loaded[q]
    BY DEF MemoryInv
  <2>2. ASSUME NEW p \in Proc, Step(p) \/ Reread(p) PROVE loaded'[q]
    <3>1. CASE Open(p) \/ Finish(p) \/ Crash(p)
      BY <1>1, <1>4, <2>1, <3>1 DEF Open, StartCall, Finish, Crash, TypeOK, Goto
    <3>2. CASE ~(Open(p) \/ Finish(p) \/ Crash(p))
      <4>1. /\ loaded' = loaded
            /\ \E label : label # "idle" /\ pc' = [pc EXCEPT ![p] = label]
        BY <2>2, <3>2 DEF Step, CallStep, StartCall, Begin, Acquire, Contended,
           LockError, Inspect, Probe, Reread, Reclaim, CheckRevision, Commit, WriteError,
           ReleaseCheck, Unlock, Relaunch, Goto
      <4>2. QED
        BY <1>1, <1>4, <2>1, <4>1 DEF TypeOK
    <3>3. QED
      BY <3>1, <3>2
  <2>3. QED
    BY <1>1, <1>4, <2>1, <2>2 DEF Next, vars
<1>5. QED
  BY <1>3, <1>4 DEF MemoryInv

(* Between calls a process holds in memory what its revision stands for,   *)
(* and that is how the file begins: no failure of an append, or of the     *)
(* cleanup after it, leaves an event in memory that is not on disk.        *)
THEOREM MemoryIsSettled == SerialSpec => []SettledMemory
<1>1. Init => MemoryInv
  BY DEF Init, MemoryInv, Begins
<1>2. LogInv /\ MemoryInv /\ [SerialNext]_vars => MemoryInv'
  BY MemoryStep
<1>3. ASSUME LogInv, MemoryInv PROVE SettledMemory
  <2>1. SUFFICES ASSUME NEW p \in Proc, pc[p] = "idle"
                 PROVE  /\ loaded[p]
                        /\ events[p] = expected[p]
                        /\ events[p] = SubSeq(document, 1, Len(events[p]))
    BY DEF SettledMemory
  <2>2. events[p] = expected[p] /\ events[p] \in Seq(Token) /\ document \in Seq(Token)
    BY <1>3, <2>1 DEF LogInv, RevisionMatchesEvents, LockInv, TypeOK
  <2>3. Begins(events[p], document)
    BY <1>3, <2>2 DEF MemoryInv
  <2>4. events[p] = SubSeq(document, 1, Len(events[p]))
    BY <2>2, <2>3 DEF Begins
  <2>5. QED
    BY <1>3, <2>1, <2>2, <2>4 DEF MemoryInv
<1>4. QED
  BY <1>1, <1>2, <1>3, LogInvariant, PTL DEF SerialSpec
-------------------------------------------------------------------------------
(* The present call's entry is in the file.                                *)
Written(p) == \E i \in DOMAIN document : document[i] = Own(p)

(* The labels at which a call has not reached its commit point.            *)
Unwritten == {"link", "inspect", "probe", "reread", "unlink", "relink", "check", "write"}

Honest(p) ==
    /\ outcome[p] = "committed" => Written(p)
    /\ outcome[p] \in {"stale", "busy", "failed"} => ~Written(p)
    /\ pc[p] \in Unwritten => ~Written(p)

(* No entry of the file carries a token that has not been drawn.           *)
EntriesDrawn ==
    \A i \in DOMAIN document : document[i].token <= attempts[document[i].pid]

ReportInv == EntriesDrawn /\ \A p \in Proc : attempts[p] > 0 => Honest(p)

LEMMA FreshIsUnwritten ==
  ASSUME TypeOK, EntriesDrawn, NEW p \in Proc, StartCall(p), document' = document
  PROVE  ~Written(p)' /\ pc'[p] = "link" /\ outcome'[p] = "none"
<1>1. attempts'[p] = attempts[p] + 1 /\ attempts[p] \in Nat
  BY BoundAssumption DEF TypeOK, StartCall
<1>2. \A i \in DOMAIN document : document[i] # Own(p)'
  BY <1>1 DEF EntriesDrawn, Own
<1>3. QED
  BY <1>2 DEF Written, TypeOK, StartCall, Goto, Ends

(* An append of p writes p's entry and nobody else's.                      *)
LEMMA CommitWrites ==
  ASSUME LogInv, NEW p \in Proc, Commit(p), NEW q \in Proc
  PROVE  Written(q)' <=> (Written(q) \/ q = p)
<1>1. document' = Append(document, Own(p)) /\ document \in Seq(Token) /\ attempts' = attempts
  BY CommitAppends DEF LogInv, LockInv, TypeOK, Commit
<1>2. /\ DOMAIN document = 1 .. Len(document) /\ Len(document) \in Nat
      /\ DOMAIN document' = 1 .. (Len(document) + 1)
      /\ \A i \in 1 .. Len(document) : document'[i] = document[i]
      /\ document'[Len(document) + 1] = Own(p)
  BY <1>1
<1>3. Own(q)' = Own(q) /\ (Own(p) = Own(q) <=> q = p)
  BY <1>1 DEF Own
<1>4. Written(q) => Written(q)'
  BY <1>2, <1>3 DEF Written
<1>5. Written(p)'
  <2>1. Own(p)' = Own(p)
    BY <1>1 DEF Own
  <2>2. Len(document) + 1 \in DOMAIN document'
    BY <1>2
  <2>3. QED
    BY <1>2, <2>1, <2>2 DEF Written
<1>6. Written(q)' => Written(q) \/ q = p
  <2>1. SUFFICES ASSUME NEW i \in DOMAIN document', document'[i] = Own(q)', q # p
                 PROVE  Written(q)
    BY DEF Written
  <2>2. i \in 1 .. Len(document)
    BY <1>2, <1>3, <2>1
  <2>3. QED
    BY <1>2, <1>3, <2>1, <2>2 DEF Written
<1>7. QED
  BY <1>4, <1>5, <1>6

LEMMA EntriesStep ==
  ASSUME LogInv, EntriesDrawn, [Next]_vars
  PROVE  EntriesDrawn'
<1>1. TypeOK
  BY DEF LogInv, LockInv
<1>2. \A q \in Proc : attempts[q] \in Nat /\ attempts'[q] \in Nat /\ attempts[q] <= attempts'[q]
  <2>1. \/ attempts' = attempts
        \/ \E p \in Proc : attempts' = [attempts EXCEPT ![p] = attempts[p] + 1]
    <3>1. ASSUME NEW p \in Proc, Step(p) \/ Reread(p)
          PROVE  \/ attempts' = attempts
                 \/ attempts' = [attempts EXCEPT ![p] = attempts[p] + 1]
      BY <3>1 DEF Step, CallStep, Open, StartCall, Begin, Acquire, Contended, LockError,
         Inspect, Probe, Reread, Reclaim, CheckRevision, Commit, WriteError, ReleaseCheck,
         Unlock, Finish, Crash, Relaunch
    <3>2. QED
      BY <3>1 DEF Next, vars
  <2>2. \A q \in Proc : attempts[q] \in Nat
    BY <1>1, BoundAssumption DEF TypeOK
  <2>3. CASE attempts' = attempts
    BY <2>2, <2>3
  <2>4. ASSUME NEW p \in Proc, attempts' = [attempts EXCEPT ![p] = attempts[p] + 1]
        PROVE  \A q \in Proc : attempts'[q] \in Nat /\ attempts[q] <= attempts'[q]
    <3>1. \A q \in Proc : attempts'[q] = IF q = p THEN attempts[p] + 1 ELSE attempts[q]
      BY <1>1, <2>4 DEF TypeOK
    <3>2. QED
      BY <2>2, <3>1
  <2>5. QED
    BY <2>1, <2>2, <2>3, <2>4
<1>3. ASSUME NEW d \in Token, d.token <= attempts[d.pid] PROVE d.token <= attempts'[d.pid]
  BY <1>2, <1>3, BoundAssumption DEF Token
<1>4. \A i \in DOMAIN document : document[i] \in Token
  BY <1>1 DEF TypeOK
<1>5. CASE document' = document
  BY <1>3, <1>4, <1>5 DEF EntriesDrawn
<1>6. ASSUME NEW p \in Proc, Commit(p) PROVE EntriesDrawn'
  <2>1. document' = Append(document, Own(p)) /\ document \in Seq(Token)
    BY <1>1, <1>6, CommitAppends DEF TypeOK
  <2>2. SUFFICES ASSUME NEW i \in DOMAIN document'
                 PROVE  document'[i].token <= attempts'[document'[i].pid]
    BY DEF EntriesDrawn
  <2>3. CASE i \in DOMAIN document
    <3>1. document'[i] = document[i]
      BY <2>1, <2>3
    <3>2. QED
      BY <1>3, <1>4, <2>3, <3>1 DEF EntriesDrawn
  <2>4. CASE i \notin DOMAIN document
    <3>1. document'[i] = Own(p)
      BY <2>1, <2>2, <2>4
    <3>2. QED
      BY <1>2, <3>1 DEF Own
  <2>5. QED
    BY <2>3, <2>4
<1>7. QED
  BY <1>5, <1>6, DocumentChanges

(* Every step of p leaves its own report honest.                           *)
LEMMA HonestStep ==
  ASSUME LogInv, EntriesDrawn, NEW p \in Proc, Step(p) \/ Reread(p),
         attempts[p] > 0 => Honest(p), attempts'[p] > 0
  PROVE  Honest(p)'
<1>1. TypeOK
  BY DEF LogInv, LockInv
<1>2. CASE StartCall(p) /\ document' = document
  BY <1>1, <1>2, FreshIsUnwritten DEF Honest
<1>3. CASE Commit(p)
  <2>1. Written(p)' /\ outcome'[p] = "committed" /\ pc'[p] = "release"
    BY <1>1, <1>3, CommitWrites DEF Commit, Goto, Ends, TypeOK
  <2>2. QED
    BY <2>1 DEF Honest, Unwritten
<1>4. CASE ~(StartCall(p) /\ document' = document) /\ ~Commit(p)
  <2>1. document' = document /\ attempts' = attempts
    BY <1>4 DEF Step, CallStep, Open, Begin, StartCall, Acquire, Contended, LockError,
       Inspect, Probe, Reread, Reclaim, CheckRevision, WriteError, ReleaseCheck,
       Unlock, Finish, Crash, Relaunch
  <2>2. Honest(p) /\ (Written(p)' <=> Written(p))
    BY <2>1 DEF Written, Own
  <2>3. CASE Open(p) \/ Finish(p) \/ Relaunch(p) \/ ReleaseCheck(p) \/ Unlock(p)
    <3>1. outcome' = outcome
          /\ \E label : label \notin Unwritten /\ pc' = [pc EXCEPT ![p] = label]
      <4>1. CASE Open(p)
        BY <1>4, <4>1 DEF Open, Goto, Unwritten
      <4>2. CASE Finish(p)
        BY <4>2 DEF Finish, Goto, Unwritten
      <4>3. CASE Relaunch(p)
        BY <4>3 DEF Relaunch, Goto, Unwritten
      <4>4. CASE ReleaseCheck(p)
        BY <4>4 DEF ReleaseCheck, Goto, Unwritten
      <4>5. CASE Unlock(p)
        BY <4>5 DEF Unlock, Goto, Unwritten
      <4>6. QED
        BY <2>3, <4>1, <4>2, <4>3, <4>4, <4>5
    <3>2. QED
      BY <1>1, <2>2, <3>1 DEF Honest, TypeOK
  <2>4. CASE Crash(p)
    BY <1>1, <2>2, <2>4 DEF Honest, Crash, Goto, Ends, TypeOK, Unwritten
  <2>5. CASE Acquire(p) \/ Inspect(p) \/ Probe(p) \/ Reread(p) \/ Reclaim(p)
    <3>1. pc[p] \in Unwritten /\ outcome' = outcome
      BY <2>5 DEF Acquire, Inspect, Probe, Reread, Reclaim, Unwritten
    <3>2. QED
      BY <2>2, <3>1 DEF Honest
  <2>6. CASE Contended(p) \/ LockError(p) \/ CheckRevision(p) \/ WriteError(p)
    <3>1. /\ pc[p] \in Unwritten
          /\ outcome'[p] \in {outcome[p], "stale", "busy", "failed"}
      BY <1>1, <2>6 DEF Contended, LockError, CheckRevision, WriteError, Unwritten,
         Ends, TypeOK
    <3>2. QED
      BY <2>2, <3>1 DEF Honest
  <2>7. QED
    BY <1>4, <2>3, <2>4, <2>5, <2>6 DEF Step, CallStep, Begin, StartCall
<1>5. QED
  BY <1>2, <1>3, <1>4

LEMMA ReportStep ==
  ASSUME LogInv, ReportInv, [SerialNext]_vars
  PROVE  ReportInv'
<1>1. [Next]_vars /\ TypeOK
  BY SerialIsNext DEF LogInv, LockInv
<1>2. ASSUME NEW q \in Proc, attempts'[q] > 0 PROVE Honest(q)'
  <2>1. attempts[q] > 0 => Honest(q)
    BY DEF ReportInv
  <2>2. ASSUME NEW p \in Proc, Step(p) \/ Reread(p) PROVE Honest(q)'
    <3>1. CASE p = q
      BY <1>2, <2>1, <2>2, <3>1, HonestStep DEF ReportInv
    <3>2. CASE p # q
      <4>1. pc'[q] = pc[q] /\ outcome'[q] = outcome[q] /\ Own(q)' = Own(q)
        BY <1>1, <2>2, <3>2, OthersRemember
      <4>2. attempts'[q] = attempts[q]
        BY <4>1 DEF Own
      <4>3. Written(q)' <=> Written(q)
        <5>1. CASE document' = document
          BY <4>1, <5>1 DEF Written
        <5>2. ASSUME NEW r \in Proc, Commit(r) PROVE Written(q)' <=> Written(q)
          <6>1. r # q
            BY <1>1, <4>1, <5>2 DEF Commit, Goto, TypeOK
          <6>2. QED
            BY <5>2, <6>1, CommitWrites
        <5>3. QED
          BY <1>1, <5>1, <5>2, DocumentChanges
      <4>4. QED
        BY <1>2, <2>1, <4>1, <4>2, <4>3 DEF Honest
    <3>3. QED
      BY <3>1, <3>2
  <2>3. CASE UNCHANGED vars
    BY <1>2, <2>1, <2>3 DEF vars, Honest, Written, Own
  <2>4. QED
    BY <1>1, <2>2, <2>3 DEF Next
<1>3. QED
  BY <1>1, <1>2, EntriesStep DEF ReportInv

(* A call that reports success is in the file; one that reports a conflict *)
(* or an error left nothing there, whatever failed in the lock's cleanup.  *)
THEOREM ReportsAreHonest == SerialSpec => []HonestReport
<1>1. Init => ReportInv
  BY DEF Init, ReportInv, EntriesDrawn
<1>2. LogInv /\ ReportInv /\ [SerialNext]_vars => ReportInv'
  BY ReportStep
<1>3. ReportInv => HonestReport
  BY DEF ReportInv, Honest, Written, HonestReport
<1>4. QED
  BY <1>1, <1>2, <1>3, LogInvariant, PTL DEF SerialSpec
-------------------------------------------------------------------------------
(* Without process deaths: a process only reclaims its own lock.           *)
ReclaimsOwnLock ==
    /\ crashes = 0
    /\ \A p \in Proc : pc[p] # "dead"
    /\ \A p \in Proc : pc[p] \in {"reread", "unlink"} => first[p].pid = p

LEMMA NoDeathStep ==
  ASSUME MaxCrashes = 0, LockInv, ReclaimsOwnLock, [Next]_vars
  PROVE  [SerialNext]_vars /\ ReclaimsOwnLock'
<1> USE DEF Goto
<1>1. ASSUME NEW p \in Proc, Reread(p), lock = first[p], NEW q \in Proc, pc[q] = "unlink"
      PROVE  FALSE
  BY <1>1 DEF Reread, LockInv, ReclaimsWhatItRead, ReclaimsOwnLock
<1>2. [SerialNext]_vars
  BY <1>1 DEF Next, SerialNext, SerialReread
<1>3. TypeOK /\ (\A p \in Proc : ~Crash(p) /\ ~Relaunch(p))
  BY DEF LockInv, Crash, Relaunch, ReclaimsOwnLock
<1>4. crashes' = 0
  BY <1>3 DEF ReclaimsOwnLock, Next, Step, CallStep, Open, StartCall, Begin, Acquire,
     Contended, LockError, Inspect, Probe, Reread, Reclaim, CheckRevision, Commit,
     WriteError, ReleaseCheck, Unlock, Finish, vars
<1>5. \A p \in Proc : pc'[p] # "dead"
  <2>1. \/ pc' = pc
        \/ \E q \in Proc, label \in Control \ {"dead"} : pc' = [pc EXCEPT ![q] = label]
    BY <1>3 DEF Next, Step, CallStep, Open, StartCall, Begin, Acquire,
       Contended, LockError, Inspect, Probe, Reread, Reclaim, CheckRevision, Commit,
       WriteError, ReleaseCheck, Unlock, Finish, vars, Control
  <2>2. QED
    BY <1>3, <2>1 DEF ReclaimsOwnLock, TypeOK
<1>6. ASSUME NEW p \in Proc, pc'[p] \in {"reread", "unlink"} PROVE first'[p].pid = p
  <2>1. \/ Probe(p) /\ Reclaimable(p)
        \/ pc[p] \in {"reread", "unlink"} /\ first'[p] = first[p]
    <3>1. ASSUME NEW q \in Proc, Step(q) \/ Reread(q), q # p
          PROVE  pc'[p] = pc[p] /\ first'[p] = first[p]
      <4>1. first' = first \/ \E f : first' = [first EXCEPT ![q] = f]
        BY <3>1 DEF Step, CallStep, Open, StartCall, Begin, Acquire, Contended,
           LockError, Inspect, Probe, Reread, Reclaim, CheckRevision, Commit, WriteError,
           ReleaseCheck, Unlock, Finish, Crash, Relaunch
      <4>2. QED
        BY <1>3, <3>1, <4>1, OthersRemember DEF TypeOK
    <3>2. ASSUME Step(p) \/ Reread(p)
          PROVE  \/ Probe(p) /\ Reclaimable(p)
                 \/ pc[p] = "reread" /\ first' = first
      BY <1>3, <1>6, <3>2
         DEF Step, CallStep, Open, StartCall, Begin, Acquire, Contended, LockError,
             Inspect, Probe, Reread, Reclaim, CheckRevision, Commit, WriteError,
             ReleaseCheck, Unlock, Finish, TypeOK
    <3>3. QED
      BY <1>6, <3>1, <3>2 DEF Next, vars
  <2>2. CASE Probe(p) /\ Reclaimable(p)
    <3>1. first[p].pid \in Proc
      BY <1>3, <2>2 DEF Probe, LockInv, ReclaimsEndedCalls, TypeOK, Token
    <3>2. first[p].pid = p /\ first' = first
      BY <2>2, <3>1 DEF Probe, Reclaimable, ReleasedByThisProcess, ProcessIsAlive, ReclaimsOwnLock
    <3>3. QED
      BY <3>2
  <2>3. CASE pc[p] \in {"reread", "unlink"} /\ first'[p] = first[p]
    BY <2>3 DEF ReclaimsOwnLock
  <2>4. QED
    BY <2>1, <2>2, <2>3
<1>7. QED
  BY <1>2, <1>4, <1>5, <1>6 DEF ReclaimsOwnLock

(* In a deployment whose processes never die, reclaims never overlap, so   *)
(* every guarantee above holds of Spec itself, whatever I/O errors occur.  *)
THEOREM NoDeathNoOverlap == ASSUME MaxCrashes = 0 PROVE Spec => SerialSpec
<1>1. Init => LockInv /\ ReclaimsOwnLock
  BY LockInvInit DEF Init, ReclaimsOwnLock
<1>2. LockInv /\ ReclaimsOwnLock /\ [Next]_vars
        => (LockInv /\ ReclaimsOwnLock)' /\ [SerialNext]_vars
  BY NoDeathStep, LockInvStep
<1>3. QED
  BY <1>1, <1>2, PTL DEF Spec, SerialSpec
===============================================================================
