---------------------------- MODULE SessionFileLock ----------------------------
(***************************************************************************)
(* The cross-process write path of one session file                        *)
(* (src/harness/session-file/src/index.ts).                                *)
(*                                                                         *)
(* Every process that opens the session directory keeps its own copy of    *)
(* the events and the revision it last saw.  An append takes the lock file *)
(* with link(2), re-reads the document, compares revisions, replaces the   *)
(* document with rename(2) and removes the lock.  Nothing but the file     *)
(* system is shared, so a process may be overtaken or killed between any   *)
(* two system calls; each system call that another process can observe is  *)
(* a step of its own here.                                                 *)
(*                                                                         *)
(* Abstractions.                                                           *)
(*  - A document is the sequence of the appends that produced it, so two   *)
(*    documents are equal exactly when their sha256 revisions are.  The    *)
(*    absent file is << >>; create() persists its first entry.             *)
(*  - A lock record is [pid, token]: its contents and its inode are the    *)
(*    same identity, because the lock file is a hard link to an owner file *)
(*    written once under a random token.                                   *)
(*  - Owner files and temporary files are only read by the process that    *)
(*    wrote them; their loss shows up as a failing lstat, which the model  *)
(*    allows at any time.                                                  *)
(***************************************************************************)
EXTENDS Naturals, Sequences, FiniteSetsExt

CONSTANTS
    Proc,          \* process ids
    Host,          \* machines
    HostOf,        \* the machine each process runs on
    MaxEntries,    \* maxDocumentBytes, counted in appends
    MaxAttempts,   \* bound: calls a process makes
    MaxCalls,      \* bound: calls all processes make
    MaxCrashes,    \* bound: process deaths
    PidReuse       \* may a dead process id be given to a new process?

ASSUME ProcAssumption == HostOf \in [Proc -> Host]
ASSUME BoundAssumption ==
    /\ MaxEntries \in Nat /\ MaxAttempts \in Nat
    /\ MaxCalls \in Nat /\ MaxCrashes \in Nat
ASSUME PidAssumption == PidReuse \in BOOLEAN

VARIABLES
    pc,         \* where each process is in its call
    attempts,   \* calls to withSessionFileLock so far; names the call's token
    lock,       \* the lock file
    first,      \* reclaimDeadLocalLock's first reading of it
    released,   \* releasedLocalLocks: a token of this process whose call ended
    document,   \* the session file
    expected,   \* the persistence closure's expectedRevision
    events,     \* FileSession.#events (decoded.events while loading)
    loaded,     \* is the FileSession published?
    outcome,    \* how the last call ended
    crashes     \* process deaths so far

vars == <<pc, attempts, lock, first, released, document, expected, events,
          loaded, outcome, crashes>>

Token == [pid : Proc, token : 1 .. MaxAttempts]
None == [none |-> "ENOENT"]      \* no file of that name

Control == {"off", "idle", "link", "inspect", "probe", "reread", "unlink",
            "relink", "check", "write", "release", "unlock", "cleanup", "dead"}
Outcome == {"none", "committed", "stale", "busy", "failed"}

(* The record this process writes in its owner file for the present call.  *)
Own(p) == [pid |-> p, token |-> attempts[p]]

(* The part of a call in which the process believes it holds the lock.     *)
Critical == {"check", "write", "release", "unlock"}
InCall == Critical \cup {"link", "inspect", "probe", "reread", "unlink", "relink"}

Goto(p, label) == pc' = [pc EXCEPT ![p] = label]
Ends(p, how) == outcome' = [outcome EXCEPT ![p] = how]

Init ==
    /\ pc = [p \in Proc |-> "off"]
    /\ attempts = [p \in Proc |-> 0]
    /\ lock = None
    /\ first = [p \in Proc |-> None]
    /\ released = [p \in Proc |-> 0]
    /\ document = << >>
    /\ expected = [p \in Proc |-> << >>]
    /\ events = [p \in Proc |-> << >>]
    /\ loaded = [p \in Proc |-> FALSE]
    /\ outcome = [p \in Proc |-> "none"]
    /\ crashes = 0
-------------------------------------------------------------------------------
(* Calls made so far, all processes together.                              *)
Calls == MapThenSumSet(LAMBDA q : attempts[q], Proc)

(* Starting a call: a fresh token in a fresh owner file.                   *)
StartCall(p) ==
    /\ attempts[p] < MaxAttempts
    /\ Calls < MaxCalls
    /\ attempts' = [attempts EXCEPT ![p] = @ + 1]
    /\ Goto(p, "link")
    /\ Ends(p, "none")

(* Loading a store reads the file; a log that was cut short is repaired    *)
(* and persisted before the session is published.                          *)
Open(p) ==
    /\ pc[p] = "off"
    /\ events' = [events EXCEPT ![p] = document]
    /\ expected' = [expected EXCEPT ![p] = document]
    /\ \/ /\ Goto(p, "idle")
          /\ loaded' = [loaded EXCEPT ![p] = TRUE]
          /\ UNCHANGED <<attempts, outcome>>
       \/ /\ document # << >>
          /\ Len(document) < MaxEntries
          /\ StartCall(p)
          /\ UNCHANGED loaded
    /\ UNCHANGED <<lock, first, released, document, crashes>>

(* FileSession.append and create, up to the lock: a candidate larger than  *)
(* the document limit is refused before anything is written.               *)
Begin(p) ==
    /\ pc[p] = "idle"
    /\ Len(events[p]) < MaxEntries
    /\ StartCall(p)
    /\ UNCHANGED <<lock, first, released, document, expected, events, loaded,
                   crashes>>

(* Mutant: the lock file is put in place with rename, which replaces.      *)
AcquireByRename(p) ==
    /\ pc[p] \in {"link", "relink"}
    /\ lock' = Own(p)
    /\ released' = [released EXCEPT ![p] = 0]
    /\ Goto(p, "check")
    /\ UNCHANGED <<attempts, first, document, expected, events, loaded,
                   outcome, crashes>>

(* linkSync(ownerPath, lockPath): atomic, and fails if the lock exists.    *)
Acquire(p) ==
    /\ pc[p] \in {"link", "relink"}
    /\ lock = None
    /\ lock' = Own(p)
    /\ released' = [released EXCEPT ![p] = 0]
    /\ Goto(p, "check")
    /\ UNCHANGED <<attempts, first, document, expected, events, loaded,
                   outcome, crashes>>

(* EEXIST: the first time the lock is inspected, the second time the call  *)
(* gives up with SESSION_WRITE_BUSY.                                       *)
Contended(p) ==
    /\ lock # None
    /\ \/ pc[p] = "link" /\ Goto(p, "inspect") /\ UNCHANGED outcome
       \/ pc[p] = "relink" /\ Goto(p, "cleanup") /\ Ends(p, "busy")
    /\ UNCHANGED <<attempts, lock, first, released, document, expected, events,
                   loaded, crashes>>

(* Any other I/O error before the lock is held ends the call (while the    *)
(* lock is being inspected it is reported as SESSION_WRITE_BUSY with the   *)
(* I/O error as its cause).                                                *)
LockError(p) ==
    /\ pc[p] \in {"link", "relink", "inspect", "reread", "unlink"}
    /\ Goto(p, "cleanup")
    /\ Ends(p, "failed")
    /\ UNCHANGED <<attempts, lock, first, released, document, expected, events,
                   loaded, crashes>>
-------------------------------------------------------------------------------
(* reclaimDeadLocalLock, one step per system call.                         *)
Inspect(p) ==
    /\ pc[p] = "inspect"
    /\ IF lock = None
         THEN Goto(p, "relink") /\ UNCHANGED first
         ELSE Goto(p, "probe") /\ first' = [first EXCEPT ![p] = lock]
    /\ UNCHANGED <<attempts, lock, released, document, expected, events, loaded,
                   outcome, crashes>>

ReleasedByThisProcess(p) ==
    first[p].pid = p /\ first[p].token = released[p]

ProcessIsAlive(q) == pc[q] # "dead"

(* Mutant: only this process's own ended calls are reclaimed.              *)
ReclaimableOwnOnly(p) ==
    HostOf[first[p].pid] = HostOf[p] /\ ReleasedByThisProcess(p)

(* Mutant: the owner's liveness is not probed.                             *)
ReclaimableUnprobed(p) == HostOf[first[p].pid] = HostOf[p]

Reclaimable(p) ==
    /\ HostOf[first[p].pid] = HostOf[p]
    /\ ReleasedByThisProcess(p) \/ ~ProcessIsAlive(first[p].pid)

Probe(p) ==
    /\ pc[p] = "probe"
    /\ Goto(p, IF Reclaimable(p) THEN "reread" ELSE "relink")
    /\ UNCHANGED <<attempts, lock, first, released, document, expected, events,
                   loaded, outcome, crashes>>

Reread(p) ==
    /\ pc[p] = "reread"
    /\ Goto(p, IF lock = first[p] THEN "unlink" ELSE "relink")
    /\ UNCHANGED <<attempts, lock, first, released, document, expected, events,
                   loaded, outcome, crashes>>

(* unlinkSync(lockPath) removes whatever file has that name now.           *)
Reclaim(p) ==
    /\ pc[p] = "unlink"
    /\ lock' = None
    /\ released' = IF lock # None /\ ReleasedByThisProcess(p)
                     THEN [released EXCEPT ![p] = 0]
                     ELSE released
    /\ Goto(p, "relink")
    /\ UNCHANGED <<attempts, first, document, expected, events, loaded,
                   outcome, crashes>>
-------------------------------------------------------------------------------
(* Mutant: holding the lock is taken to be enough.                         *)
CheckRevisionSkipped(p) ==
    /\ pc[p] = "check"
    /\ Goto(p, "write")
    /\ UNCHANGED <<attempts, lock, first, released, document, expected, events,
                   loaded, outcome, crashes>>

(* The operation under the lock.                                           *)
CheckRevision(p) ==
    /\ pc[p] = "check"
    /\ \/ /\ document = expected[p]
          /\ Goto(p, "write")
          /\ UNCHANGED outcome
       \/ /\ document # expected[p]
          /\ Goto(p, "release")
          /\ Ends(p, "stale")
       \/ /\ Goto(p, "release")        \* the file could not be read
          /\ Ends(p, "failed")
    /\ UNCHANGED <<attempts, lock, first, released, document, expected, events,
                   loaded, crashes>>

(* Mutant: the closure's revision is not moved on.                         *)
CommitKeepsRevision(p) ==
    /\ pc[p] = "write"
    /\ document' = Append(events[p], Own(p))
    /\ Goto(p, "release")
    /\ Ends(p, "committed")
    /\ UNCHANGED <<attempts, lock, first, released, expected, events, loaded,
                   crashes>>

(* atomicReplaceFile's rename is the commit point; expectedRevision        *)
(* follows it in the same synchronous call.                                *)
Commit(p) ==
    /\ pc[p] = "write"
    /\ document' = Append(events[p], Own(p))
    /\ expected' = [expected EXCEPT ![p] = document']
    /\ Goto(p, "release")
    /\ Ends(p, "committed")
    /\ UNCHANGED <<attempts, lock, first, released, events, loaded, crashes>>

(* The temporary file could not be written or renamed.                     *)
WriteError(p) ==
    /\ pc[p] = "write"
    /\ Goto(p, "release")
    /\ Ends(p, "failed")
    /\ UNCHANGED <<attempts, lock, first, released, document, expected, events,
                   loaded, crashes>>
-------------------------------------------------------------------------------
(* Mutant: a token is noted that no call has been given.                   *)
ReleaseCheckNotesNext(p) ==
    /\ pc[p] = "release"
    /\ \/ /\ lock = Own(p)
          /\ Goto(p, "unlock")
          /\ UNCHANGED released
       \/ /\ Goto(p, "cleanup")
          /\ released' = [released EXCEPT ![p] = attempts[p] + 1]
    /\ UNCHANGED <<attempts, lock, first, document, expected, events, loaded,
                   outcome, crashes>>

(* The finally block.  The lock is removed only if it still is this call's *)
(* inode; any error leaves a note in releasedLocalLocks instead.           *)
ReleaseCheck(p) ==
    /\ pc[p] = "release"
    /\ \/ /\ lock = Own(p)
          /\ Goto(p, "unlock")
          /\ UNCHANGED released
       \/ /\ lock # Own(p)
          /\ lock # None
          /\ Goto(p, "cleanup")
          /\ UNCHANGED released
       \/ /\ Goto(p, "cleanup")        \* an lstat failed
          /\ released' = [released EXCEPT ![p] = attempts[p]]
    /\ UNCHANGED <<attempts, lock, first, document, expected, events, loaded,
                   outcome, crashes>>

(* Mutant: a failing cleanup is reported as the call's failure.            *)
UnlockReportsError(p) ==
    /\ pc[p] = "unlock"
    /\ Goto(p, "cleanup")
    /\ \/ /\ lock # None
          /\ lock' = None
          /\ released' = [released EXCEPT ![p] = 0]
          /\ UNCHANGED outcome
       \/ /\ released' = [released EXCEPT ![p] = attempts[p]]
          /\ Ends(p, "failed")
          /\ UNCHANGED lock
    /\ UNCHANGED <<attempts, first, document, expected, events, loaded, crashes>>

Unlock(p) ==
    /\ pc[p] = "unlock"
    /\ Goto(p, "cleanup")
    /\ \/ /\ lock # None
          /\ lock' = None
          /\ released' = [released EXCEPT ![p] = 0]
       \/ /\ released' = [released EXCEPT ![p] = attempts[p]]
          /\ UNCHANGED lock
    /\ UNCHANGED <<attempts, first, document, expected, events, loaded,
                   outcome, crashes>>

(* Mutant: the event is pushed to memory whether or not it was persisted.  *)
FinishPushesAlways(p) ==
    /\ pc[p] = "cleanup"
    /\ events' = [events EXCEPT ![p] = Append(@, Own(p))]
    /\ Goto(p, IF loaded[p] \/ outcome[p] = "committed" THEN "idle" ELSE "off")
    /\ loaded' = [loaded EXCEPT ![p] = @ \/ outcome[p] = "committed"]
    /\ UNCHANGED <<attempts, lock, first, released, document, expected, outcome,
                   crashes>>

(* The call returns or throws.  FileSession pushes the event only when the *)
(* persist call returned; a store whose repair failed is not constructed.  *)
Finish(p) ==
    /\ pc[p] = "cleanup"
    /\ IF outcome[p] = "committed"
         THEN /\ events' = [events EXCEPT ![p] = Append(@, Own(p))]
              /\ loaded' = [loaded EXCEPT ![p] = TRUE]
              /\ Goto(p, "idle")
         ELSE /\ Goto(p, IF loaded[p] THEN "idle" ELSE "off")
              /\ UNCHANGED <<events, loaded>>
    /\ UNCHANGED <<attempts, lock, first, released, document, expected, outcome,
                   crashes>>

(* A process can die, or be killed, at any instruction.                    *)
Crash(p) ==
    /\ pc[p] # "dead"
    /\ crashes < MaxCrashes
    /\ crashes' = crashes + 1
    /\ Goto(p, "dead")
    /\ first' = [first EXCEPT ![p] = None]
    /\ released' = [released EXCEPT ![p] = 0]
    /\ expected' = [expected EXCEPT ![p] = << >>]
    /\ events' = [events EXCEPT ![p] = << >>]
    /\ loaded' = [loaded EXCEPT ![p] = FALSE]
    /\ Ends(p, "none")
    /\ UNCHANGED <<attempts, lock, document>>

(* The operating system gives the dead process's id to a new one.          *)
Relaunch(p) ==
    /\ PidReuse
    /\ pc[p] = "dead"
    /\ Goto(p, "off")
    /\ UNCHANGED <<attempts, lock, first, released, document, expected, events,
                   loaded, outcome, crashes>>

(* The steps of a call that has begun, but for Reread.                     *)
CallStep(p) ==
    \/ Acquire(p) \/ Contended(p) \/ LockError(p)
    \/ Inspect(p) \/ Probe(p) \/ Reclaim(p)
    \/ CheckRevision(p) \/ Commit(p) \/ WriteError(p)
    \/ ReleaseCheck(p) \/ Unlock(p) \/ Finish(p)

Step(p) == Open(p) \/ Begin(p) \/ CallStep(p) \/ Crash(p) \/ Relaunch(p)

Next == \E p \in Proc : Step(p) \/ Reread(p)

Spec == Init /\ [][Next]_vars
-------------------------------------------------------------------------------
(* No two processes are between re-reading the lock file and unlinking it. *)
(* The code does not ensure this; see the run lock_race.                   *)
SerialReclaim ==
    \A p, q \in Proc : pc[p] = "unlink" /\ pc[q] = "unlink" => p = q

(* The behaviours in which no two reclaims overlap: only Reread starts one. *)
SerialReread(p) ==
    /\ Reread(p)
    /\ lock = first[p] => \A q \in Proc : pc[q] # "unlink"

SerialNext == \E p \in Proc : Step(p) \/ SerialReread(p)

SerialSpec == Init /\ [][SerialNext]_vars

(* A synchronous call runs to its end unless its process dies.             *)
FairSpec == Spec /\ \A p \in Proc : WF_vars(CallStep(p) \/ Reread(p))
-------------------------------------------------------------------------------
(* Types.                                                                  *)
TypeOK ==
    /\ pc \in [Proc -> Control]
    /\ attempts \in [Proc -> 0 .. MaxAttempts]
    /\ lock \in Token \cup {None}
    /\ first \in [Proc -> Token \cup {None}]
    /\ released \in [Proc -> 0 .. MaxAttempts]
    /\ document \in Seq(Token)
    /\ expected \in [Proc -> Seq(Token)]
    /\ events \in [Proc -> Seq(Token)]
    /\ loaded \in [Proc -> BOOLEAN]
    /\ outcome \in [Proc -> Outcome]
    /\ crashes \in Nat

(* At most one process is between taking the lock and letting it go.       *)
MutualExclusion ==
    \A p, q \in Proc : pc[p] \in Critical /\ pc[q] \in Critical => p = q

(* No append is ever silently replaced: the document only grows, by one    *)
(* append at a time.                                                       *)
NoLostUpdate == [][\E e \in Token : document' = Append(document, e)]_document

(* A lock whose call is still running is removed by that call alone.       *)
ActiveLockKept ==
    [][\A p \in Proc :
         lock = Own(p) /\ pc[p] \in Critical /\ lock' # lock
           => pc[p] = "unlock" /\ pc'[p] = "cleanup"]_vars

(* Between calls the in-memory events are exactly what the process's       *)
(* revision stands for, and hold at most what is on disk.                  *)
SettledMemory ==
    \A p \in Proc : pc[p] = "idle" =>
        /\ loaded[p]
        /\ events[p] = expected[p]
        /\ events[p] = SubSeq(document, 1, Len(events[p]))

(* A call that reports success is in the file, and one that reports a      *)
(* conflict or an error has left nothing there, whatever failed while the  *)
(* lock was being cleaned up.                                              *)
HonestReport ==
    \A p \in Proc : attempts[p] > 0 =>
        LET written == \E i \in DOMAIN document : document[i] = Own(p)
        IN  /\ outcome[p] = "committed" => written
            /\ outcome[p] \in {"stale", "busy", "failed"} => ~written

(* The file is a compare-and-swap log for its processes.                   *)
Log == INSTANCE DurableLog
         WITH Writer <- Proc, Entry <- Token, log <- document, view <- expected

ImplementsLog == Log!Spec

(* A lock left by a dead process of the same machine does not outlast the  *)
(* next append that meets it, unless that append's own I/O fails.          *)
DeadOwner(p) ==
    lock # None /\ HostOf[lock.pid] = HostOf[p] /\ ~ProcessIsAlive(lock.pid)

DeadOwnerYields ==
    \A p \in Proc :
        pc[p] = "link" /\ DeadOwner(p)
          ~> ~DeadOwner(p) \/ outcome[p] = "failed" \/ ~ProcessIsAlive(p)
===============================================================================
