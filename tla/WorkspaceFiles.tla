--------------------------- MODULE WorkspaceFiles ---------------------------
(***************************************************************************)
(* Guarded file operations of one harness process                          *)
(* (src/harness/filesystem-workspace/src/index.ts, with the observation    *)
(* policy of src/harness/filesystem and the create-only sandbox of         *)
(* src/harness/sandbox-workspace).                                         *)
(*                                                                         *)
(* Every session prepares one call at a time: the guards are captured when *)
(* the lease is made and used when it is executed.  The provider's system  *)
(* calls are synchronous, so a call runs without another session between   *)
(* them and without its signal changing; its only await is the one of an   *)
(* edit, between reading and writing.  Programs outside the harness act    *)
(* between any two system calls, and a system call may fail.               *)
(*                                                                         *)
(* A file is an inode with a stamp that stands for its size and times: its *)
(* version is both.  Writing always makes a new stamp; linking and         *)
(* unlinking change the ctime, which the clock may be too coarse to show.  *)
(* Paths are names of one checked directory: confinement is left out.      *)
(***************************************************************************)
EXTENDS Naturals, Sequences, FiniteSets

CONSTANTS Sessions, Paths,
          Nobody,           \* no session runs
          Ops,              \* the operations sessions ask for
          MaxCalls,         \* bound: calls prepared
          MaxForeign,       \* bound: steps of other programs
          MaxFaults         \* bound: failed system calls and crashes

ASSUME SessionAssumption == Nobody \notin Sessions
ASSUME PathAssumption == IsFiniteSet(Paths)
ASSUME OpAssumption ==
  Ops \subseteq {"stat", "read", "write", "legacy", "create", "edit", "move", "delete"}

VARIABLES dir,              \* the inode each path names, 0 when it is free
          stamps,           \* the stamp of every inode made so far
          contents,         \* what a file with a given stamp holds
          temp,             \* the inode of the temporary name, 0 without one
          obs,              \* FileObservationPolicy.#observations
          lease,            \* the call each session prepared
          busy,             \* the session whose system calls are running
          start, disturbed, \* history: dir when they began; paths others touched since
          last,             \* history: what the call that ended last reported
          calls, foreign, faults

vars == <<dir, stamps, contents, temp, obs, lease, busy, start, disturbed,
          last, calls, foreign, faults>>
disk == <<dir, stamps, contents, temp>>
counts == <<calls, foreign, faults>>

NoVersion == <<0, 0>>
NoNames   == [p \in Paths |-> 0]
NotSeen   == [state |-> "none"]
Unknown   == 0

VersionOf(ino) == <<ino, stamps[ino]>>
Version(p) == IF dir[p] = 0 THEN NoVersion ELSE VersionOf(dir[p])
ContentOf(version) == contents[version[2]]

NoLease == [op |-> "none"]

-----------------------------------------------------------------------------
(* The disk *)

(* A new file, with contents nobody wrote before. *)
NewInode ==
  /\ stamps' = Append(stamps, Len(contents) + 1)
  /\ contents' = Append(contents, Len(contents) + 1)

(* The link count of an inode changed. *)
Touch(ino) ==
  \/ UNCHANGED <<stamps, contents>>
  \/ /\ stamps' = [stamps EXCEPT ![ino] = Len(contents) + 1]
     /\ contents' = Append(contents, contents[stamps[ino]])

Fault == faults < MaxFaults /\ faults' = faults + 1

ForeignStep(touched) ==
  /\ foreign < MaxForeign
  /\ foreign' = foreign + 1
  /\ disturbed' = IF busy = Nobody THEN disturbed ELSE disturbed \cup touched
  /\ UNCHANGED <<temp, obs, lease, busy, start, last, calls, faults>>

(* Another program writes the file in place, puts a file of its own under  *)
(* the name, or takes the name away.                                       *)
ForeignWrite(p) ==
  /\ ForeignStep({q \in Paths : dir[q] = dir[p]})
  /\ dir[p] # 0
  /\ stamps' = [stamps EXCEPT ![dir[p]] = Len(contents) + 1]
  /\ contents' = Append(contents, Len(contents) + 1)
  /\ UNCHANGED dir

ForeignReplace(p) ==
  /\ ForeignStep({p})
  /\ NewInode
  /\ dir' = [dir EXCEPT ![p] = Len(stamps) + 1]

ForeignRemove(p) ==
  /\ ForeignStep({p})
  /\ dir[p] # 0
  /\ dir' = [dir EXCEPT ![p] = 0]
  /\ UNCHANGED <<stamps, contents>>

-----------------------------------------------------------------------------
(* The observation policy *)

Observation(state, version, shown) ==
  [state |-> state, version |-> version, shown |-> shown]

Observe(s, p, o) == obs' = [obs EXCEPT ![s][p] = o]

WriteGuard(s, p) == IF obs[s][p].state = "absent" THEN NoVersion ELSE obs[s][p].version

(* The guards of an operation can be taken from what its session observed. *)
Guarded(s, op, p, q) ==
  CASE op \in {"stat", "read", "legacy"} -> TRUE
    [] op = "create" -> dir[p] = 0
    [] op = "write"  -> obs[s][p] # NotSeen
    [] op \in {"edit", "delete"} -> obs[s][p].state = "content"
    [] op = "move"   -> obs[s][p].state = "content" /\ obs[s][q].state = "absent"

Guard(s, op, p) ==
  IF op \in {"stat", "read", "legacy", "create"} THEN NoVersion ELSE WriteGuard(s, p)

-----------------------------------------------------------------------------
(* Leases *)

Prepare(s, op, p, q) ==
  /\ lease[s].op = "none"
  /\ calls < MaxCalls
  /\ (op = "move") <=> (p # q)
  /\ busy = Nobody
  /\ Guarded(s, op, p, q)
  /\ lease' = [lease EXCEPT ![s] =
       [op |-> op, path |-> p, to |-> q, guard |-> Guard(s, op, p), aborted |-> FALSE,
        pc |-> "ready", seen |-> NoVersion, shown |-> Unknown, file |-> 0,
        linked |-> FALSE, done |-> FALSE, report |-> "none"]]
  /\ calls' = calls + 1
  /\ UNCHANGED <<disk, obs, busy, start, disturbed, last, foreign, faults>>

(* The approval was refused, or the turn ended, before execute(). *)
DisposeLease(s) ==
  /\ busy = Nobody
  /\ lease[s].op # "none" /\ lease[s].pc = "ready"
  /\ lease' = [lease EXCEPT ![s] = NoLease]
  /\ UNCHANGED <<disk, obs, busy, start, disturbed, last, counts>>

(* The signal of the call: no callback runs between two system calls. *)
Cancel(s) ==
  /\ busy = Nobody
  /\ lease[s].op # "none" /\ ~lease[s].aborted
  /\ lease' = [lease EXCEPT ![s].aborted = TRUE]
  /\ UNCHANGED <<disk, obs, busy, start, disturbed, last, counts>>

(* Mutant: the signal is read only when the call starts. *)
AbortedAtStart(s) == lease[s].aborted /\ lease[s].pc = "ready"

Aborted(s) == lease[s].aborted

(* s may run: it holds the thread, or the thread is free at a step where   *)
(* the call begins or resumes.                                             *)
At(s, ops, pc) ==
  /\ lease[s].op \in ops /\ lease[s].pc = pc
  /\ busy = IF pc \in {"ready", "plan"} THEN Nobody ELSE s

Enter(s) == busy' = s /\ start' = dir /\ disturbed' = {} /\ last' = last
Stay == UNCHANGED <<busy, start, disturbed, last>>
Leave == busy' = Nobody /\ start' = NoNames /\ disturbed' = {}

Goto(s, pc) == lease' = [lease EXCEPT ![s].pc = pc]

End(s, report) ==
  /\ lease' = [lease EXCEPT ![s] = NoLease]
  /\ Leave
  /\ last' = report

Fail(s, report) == End(s, report) /\ UNCHANGED <<disk, obs>>

-----------------------------------------------------------------------------
(* stat and readText; a patch preview reads and plans *)

StatPath(s) ==
  LET p == lease[s].path IN
  /\ At(s, {"stat"}, "ready")
  /\ IF Aborted(s) THEN Fail(s, "aborted")
     ELSE /\ Observe(s, p, IF dir[p] = 0 THEN Observation("absent", NoVersion, Unknown)
                           ELSE Observation("metadata", Version(p), Unknown))
          /\ End(s, "ok")
          /\ UNCHANGED disk
  /\ UNCHANGED counts

ReadBefore(s) ==
  LET p == lease[s].path IN
  /\ At(s, {"read", "edit"}, "ready")
  /\ CASE Aborted(s)  -> Fail(s, "aborted")
       [] ~Aborted(s) /\ dir[p] = 0 -> Fail(s, "missing")
       [] OTHER -> /\ Enter(s)
                   /\ lease' = [lease EXCEPT ![s].pc = "read", ![s].seen = Version(p)]
                   /\ UNCHANGED <<disk, obs>>
  /\ UNCHANGED counts

ReadContent(s) ==
  LET p == lease[s].path IN
  /\ At(s, {"read", "edit"}, "read")
  /\ \/ /\ dir[p] # 0
        /\ lease' = [lease EXCEPT ![s].pc = "recheck", ![s].shown = ContentOf(Version(p))]
        /\ Stay
        /\ UNCHANGED <<disk, obs, faults>>
     \/ dir[p] = 0 /\ Fail(s, "missing") /\ UNCHANGED faults
     \/ Fault /\ Fail(s, "io")
  /\ UNCHANGED <<calls, foreign>>

(* Mutant: the version after the read is not compared. *)
ReadAfterUnchecked(s) ==
  /\ At(s, {"read", "edit"}, "recheck")
  /\ IF lease[s].op = "read"
       THEN /\ Observe(s, lease[s].path,
                       Observation("content", Version(lease[s].path), lease[s].shown))
            /\ End(s, "ok")
            /\ UNCHANGED disk
       ELSE /\ Goto(s, "plan")
            /\ Leave
            /\ UNCHANGED <<disk, obs, last>>
  /\ UNCHANGED counts

ReadAfter(s) ==
  LET p == lease[s].path IN
  /\ At(s, {"read", "edit"}, "recheck")
  /\ CASE Version(p) # lease[s].seen -> Fail(s, "stale")
       [] Version(p) = lease[s].seen /\ lease[s].op = "read" ->
            /\ Observe(s, p, Observation("content", lease[s].seen, lease[s].shown))
            /\ End(s, "ok")
            /\ UNCHANGED disk
       [] OTHER -> /\ Goto(s, "plan")
                   /\ Leave
                   /\ UNCHANGED <<disk, obs, last>>
  /\ UNCHANGED counts

-----------------------------------------------------------------------------
(* writeText and #publish; the create-only sandbox takes the same steps    *)

Writers == {"write", "legacy", "create", "edit"}

(* An edit whose session observed another version, or none of this file's. *)
EditStale(s) ==
  /\ At(s, {"edit"}, "plan")
  /\ lease[s].seen # lease[s].guard
  /\ Fail(s, "stale")
  /\ UNCHANGED counts

(* A text to replace is missing, ambiguous or overlaps another.            *)
EditRefused(s) ==
  /\ At(s, {"edit"}, "plan")
  /\ lease[s].seen = lease[s].guard
  /\ Fail(s, "refused")
  /\ UNCHANGED counts

(* Mutant: an edit replaces what it has just read. *)
ExpectedAsRead(s) == IF lease[s].op = "edit" THEN lease[s].seen ELSE lease[s].guard

(* What the write replaces: an edit has compared it with its guard. *)
Expected(s) == lease[s].guard

CheckTarget(s) ==
  LET p == lease[s].path IN
  /\ \/ At(s, Writers \ {"edit"}, "ready")
     \/ At(s, {"edit"}, "plan") /\ lease[s].seen = Expected(s)
  /\ CASE Aborted(s) -> Fail(s, "aborted")
       [] ~Aborted(s) /\ Version(p) # Expected(s) -> Fail(s, "stale")
       [] OTHER -> Enter(s) /\ Goto(s, "stage") /\ UNCHANGED <<disk, obs>>
  /\ UNCHANGED counts

StageTemp(s) ==
  /\ At(s, Writers, "stage")
  /\ \/ /\ NewInode
        /\ temp' = Len(stamps) + 1
        /\ lease' = [lease EXCEPT ![s].pc = "publish", ![s].shown = Len(contents) + 1]
        /\ UNCHANGED faults
     \/ /\ Fault
        /\ lease' = [lease EXCEPT ![s].pc = "cleanup", ![s].report = "io"]
        /\ \/ NewInode /\ temp' = Len(stamps) + 1
           \/ UNCHANGED <<stamps, contents, temp>>
  /\ Stay
  /\ UNCHANGED <<dir, obs, calls, foreign>>

GiveUp(s, pc, report) ==
  lease' = [lease EXCEPT ![s].pc = pc, ![s].report = report]

(* link refuses a name that is taken, rename replaces whatever has it. *)
Exclusive(s) == lease[s].guard = NoVersion

Publish(s) ==
  LET p == lease[s].path IN
  /\ At(s, Writers, "publish")
  /\ \/ /\ ~Aborted(s)
        /\ Exclusive(s) => dir[p] = 0
        /\ dir' = [dir EXCEPT ![p] = temp]
        /\ temp' = IF Exclusive(s) THEN temp ELSE 0
        /\ Touch(temp)
        /\ lease' = [lease EXCEPT ![s].pc = "report", ![s].done = TRUE]
        /\ UNCHANGED faults
     \/ /\ Aborted(s) \/ (Exclusive(s) /\ dir[p] # 0)
        /\ GiveUp(s, "cleanup", IF Aborted(s) THEN "aborted" ELSE "stale")
        /\ UNCHANGED <<disk, faults>>
     \/ /\ Fault
        /\ GiveUp(s, "cleanup", "io")
        /\ UNCHANGED disk
  /\ Stay
  /\ UNCHANGED <<obs, calls, foreign>>

(* The version reported is that of the name after publication. *)
ReportWrite(s) ==
  LET p == lease[s].path IN
  /\ At(s, Writers, "report")
  /\ \/ /\ dir[p] # 0 \/ lease[s].op = "create"
        /\ lease' = [lease EXCEPT ![s].pc = "cleanup", ![s].report = "ok",
                                  ![s].seen = Version(p)]
        /\ UNCHANGED faults
     \/ /\ dir[p] = 0 /\ lease[s].op # "create"
        /\ GiveUp(s, "cleanup", "missing")
        /\ UNCHANGED faults
     \/ /\ Fault /\ lease[s].op # "create"
        /\ GiveUp(s, "cleanup", "io")
  /\ Stay
  /\ UNCHANGED <<disk, obs, calls, foreign>>

Shown(s, p) == IF p \in disturbed THEN Unknown ELSE lease[s].shown

ObserveWrite(s) ==
  IF lease[s].report = "ok" /\ lease[s].op \in {"write", "edit"}
    THEN Observe(s, lease[s].path,
                 Observation("content", lease[s].seen, Shown(s, lease[s].path)))
    ELSE UNCHANGED obs

(* The finally block removes the temporary name; it fails a write whose    *)
(* name it cannot remove, the create-only sandbox does so only unpublished. *)
Cleanup(s) ==
  /\ At(s, Writers, "cleanup")
  /\ \/ /\ temp' = 0
        /\ IF temp = 0 THEN UNCHANGED <<stamps, contents>> ELSE Touch(temp)
        /\ ObserveWrite(s)
        /\ End(s, lease[s].report)
        /\ UNCHANGED faults
     \/ /\ temp # 0 /\ Fault
        /\ temp' = 0 /\ UNCHANGED <<stamps, contents, obs>>
        /\ End(s, IF lease[s].op = "create" /\ lease[s].done THEN "ok" ELSE "io")
  /\ UNCHANGED <<dir, calls, foreign>>

-----------------------------------------------------------------------------
(* moveFile *)

MoveCheck(s) ==
  LET p == lease[s].path  q == lease[s].to IN
  /\ At(s, {"move"}, "ready")
  /\ CASE Aborted(s) -> Fail(s, "aborted")
       [] ~Aborted(s) /\ dir[p] = 0 -> Fail(s, "missing")
       [] ~Aborted(s) /\ dir[p] # 0 /\ (Version(p) # lease[s].guard \/ dir[q] # 0) ->
            Fail(s, "stale")
       [] OTHER -> /\ Enter(s)
                   /\ lease' = [lease EXCEPT ![s].pc = "link", ![s].file = dir[p]]
                   /\ UNCHANGED <<disk, obs>>
  /\ UNCHANGED counts

MoveLink(s) ==
  LET p == lease[s].path  q == lease[s].to IN
  /\ At(s, {"move"}, "link")
  /\ \/ /\ dir[p] # 0 /\ dir[q] = 0
        /\ dir' = [dir EXCEPT ![q] = dir[p]]
        /\ Touch(dir[p])
        /\ lease' = [lease EXCEPT ![s].pc = "verify", ![s].linked = TRUE]
        /\ Stay /\ UNCHANGED <<temp, obs, faults>>
     \/ dir[p] = 0 /\ Fail(s, "missing") /\ UNCHANGED faults
     \/ dir[p] # 0 /\ dir[q] # 0 /\ Fail(s, "stale") /\ UNCHANGED faults
     \/ Fault /\ Fail(s, "io")
  /\ UNCHANGED <<calls, foreign>>

(* Both names are the file that was checked, and the call is not aborted. *)
MoveVerify(s) ==
  LET p == lease[s].path  q == lease[s].to  same == {dir[p], dir[q]} = {lease[s].file} IN
  /\ At(s, {"move"}, "verify")
  /\ \/ same /\ ~Aborted(s) /\ Goto(s, "unlink") /\ UNCHANGED faults
     \/ ~same /\ GiveUp(s, "rollback", "stale") /\ UNCHANGED faults
     \/ same /\ Aborted(s) /\ GiveUp(s, "rollback", "aborted") /\ UNCHANGED faults
     \/ Fault /\ GiveUp(s, "rollback", "io")
  /\ Stay
  /\ UNCHANGED <<disk, obs, calls, foreign>>

(* Mutant: the rollback stays armed after the source is gone. *)
MoveUnlinkArmed(s) ==
  LET p == lease[s].path IN
  /\ At(s, {"move"}, "unlink")
  /\ dir[p] # 0
  /\ dir' = [dir EXCEPT ![p] = 0]
  /\ Touch(dir[p])
  /\ lease' = [lease EXCEPT ![s].pc = "moved", ![s].done = TRUE]
  /\ Stay
  /\ UNCHANGED <<temp, obs, counts>>

MoveUnlink(s) ==
  LET p == lease[s].path IN
  /\ At(s, {"move"}, "unlink")
  /\ \/ /\ dir[p] # 0
        /\ dir' = [dir EXCEPT ![p] = 0]
        /\ Touch(dir[p])
        /\ lease' = [lease EXCEPT ![s].pc = "moved", ![s].linked = FALSE, ![s].done = TRUE]
        /\ UNCHANGED <<temp, faults>>
     \/ dir[p] = 0 /\ GiveUp(s, "rollback", "missing") /\ UNCHANGED <<disk, faults>>
     \/ Fault /\ GiveUp(s, "rollback", "io") /\ UNCHANGED disk
  /\ Stay
  /\ UNCHANGED <<obs, calls, foreign>>

MoveReport(s) ==
  LET p == lease[s].path  q == lease[s].to IN
  /\ At(s, {"move"}, "moved")
  /\ \/ /\ dir[q] # 0
        /\ obs' = [obs EXCEPT ![s][p] = NotSeen,
                    ![s][q] = Observation("content", Version(q),
                                IF q \in disturbed \/ p \in disturbed THEN Unknown
                                ELSE ContentOf(lease[s].guard))]
        /\ End(s, "ok")
        /\ UNCHANGED <<disk, faults>>
     \/ dir[q] = 0 /\ GiveUp(s, "rollback", "missing") /\ Stay /\ UNCHANGED <<disk, obs, faults>>
     \/ Fault /\ GiveUp(s, "rollback", "io") /\ Stay /\ UNCHANGED <<disk, obs>>
  /\ UNCHANGED <<calls, foreign>>

(* Mutant: a move that fails keeps both names. *)
MoveRollbackSkipped(s) ==
  /\ At(s, {"move"}, "rollback")
  /\ Fail(s, lease[s].report)
  /\ UNCHANGED counts

MoveRollback(s) ==
  LET q == lease[s].to IN
  /\ At(s, {"move"}, "rollback")
  /\ IF lease[s].linked
       THEN \/ /\ dir' = [dir EXCEPT ![q] = 0]
               /\ IF dir[q] = 0 THEN UNCHANGED <<stamps, contents>> ELSE Touch(dir[q])
               /\ End(s, lease[s].report)
               /\ UNCHANGED <<temp, obs, faults>>
            \/ Fault /\ Fail(s, "io")
       ELSE Fail(s, lease[s].report) /\ UNCHANGED faults
  /\ UNCHANGED <<calls, foreign>>

-----------------------------------------------------------------------------
(* deleteFile *)

DeleteCheck(s) ==
  LET p == lease[s].path IN
  /\ At(s, {"delete"}, "ready")
  /\ CASE Aborted(s) -> Fail(s, "aborted")
       [] ~Aborted(s) /\ dir[p] = 0 -> Fail(s, "missing")
       [] ~Aborted(s) /\ dir[p] # 0 /\ Version(p) # lease[s].guard -> Fail(s, "stale")
       [] OTHER -> Enter(s) /\ Goto(s, "delete") /\ UNCHANGED <<disk, obs>>
  /\ UNCHANGED counts

DeleteUnlink(s) ==
  LET p == lease[s].path IN
  /\ At(s, {"delete"}, "delete")
  /\ \/ /\ dir[p] # 0
        /\ dir' = [dir EXCEPT ![p] = 0]
        /\ Touch(dir[p])
        /\ Observe(s, p, NotSeen)
        /\ End(s, "ok")
        /\ UNCHANGED <<temp, faults>>
     \/ dir[p] = 0 /\ Fail(s, "missing") /\ UNCHANGED faults
     \/ Fault /\ Fail(s, "io")
  /\ UNCHANGED <<calls, foreign>>

-----------------------------------------------------------------------------
(* The process dies: observations and leases live in its memory. *)
Crash ==
  /\ Fault
  /\ obs' = [s \in Sessions |-> [p \in Paths |-> NotSeen]]
  /\ lease' = [s \in Sessions |-> NoLease]
  /\ Leave
  /\ last' = "crashed"
  /\ temp' = 0
  /\ UNCHANGED <<dir, stamps, contents, calls, foreign>>

(* A workspace with any of its files present; the sessions have observed   *)
(* nothing yet, or all of it.                                              *)
Init ==
  /\ dir \in {d \in [Paths -> 0 .. Cardinality(Paths)] :
                /\ \A p, q \in Paths : (p # q /\ d[p] = d[q]) => d[p] = 0
                /\ {d[p] : p \in Paths} \ {0} = 1 .. Cardinality({p \in Paths : d[p] # 0})}
  /\ stamps = [i \in 1 .. Cardinality({p \in Paths : dir[p] # 0}) |-> i]
  /\ contents = stamps
  /\ temp = 0
  /\ \/ obs = [s \in Sessions |-> [p \in Paths |-> NotSeen]]
     \/ obs = [s \in Sessions |-> [p \in Paths |->
                 IF dir[p] = 0 THEN Observation("absent", NoVersion, Unknown)
                 ELSE Observation("content", Version(p), ContentOf(Version(p)))]]
  /\ lease = [s \in Sessions |-> NoLease]
  /\ busy = Nobody
  /\ start = NoNames /\ disturbed = {}
  /\ last = "none"
  /\ calls = 0 /\ foreign = 0 /\ faults = 0

Step(s) ==
  \/ StatPath(s) \/ ReadBefore(s) \/ ReadContent(s) \/ ReadAfter(s)
  \/ EditStale(s) \/ EditRefused(s) \/ CheckTarget(s) \/ StageTemp(s) \/ Publish(s)
  \/ ReportWrite(s) \/ Cleanup(s)
  \/ MoveCheck(s) \/ MoveLink(s) \/ MoveVerify(s) \/ MoveUnlink(s)
  \/ MoveReport(s) \/ MoveRollback(s)
  \/ DeleteCheck(s) \/ DeleteUnlink(s)

Next ==
  \/ \E s \in Sessions :
       \/ \E op \in Ops, p, q \in Paths : Prepare(s, op, p, q)
       \/ DisposeLease(s) \/ Cancel(s) \/ Step(s)
  \/ \E p \in Paths : ForeignWrite(p) \/ ForeignReplace(p) \/ ForeignRemove(p)
  \/ Crash

Spec == Init /\ [][Next]_vars
-----------------------------------------------------------------------------
(* Properties *)

(* A session that is said to know the content of a version was given just   *)
(* that content, by a read, a write or a move: no read is torn, whatever    *)
(* writes at the same time (an edit or a delete is later allowed on it).    *)
HonestObservation ==
  \A s \in Sessions, p \in Paths :
    (obs[s][p].state = "content" /\ obs[s][p].shown # Unknown) =>
      ContentOf(obs[s][p].version) = obs[s][p].shown

(* A step of the call that s runs, not of a program beside it. *)
Works(s) == lease[s].op # "none" /\ calls' = calls /\ foreign' = foreign
            /\ (busy = s \/ busy' = s \/ lease'[s].op = "none")
Displaced(p) == dir[p] # 0 /\ dir'[p] # dir[p]

(* The file a call takes from its name holds what its session had observed  *)
(* when the call was prepared, however long ago that is and whatever other  *)
(* sessions did since; only a program that acts between the last comparison *)
(* and the rename or unlink can lose an update.  A call that is to create a *)
(* name (guard null, or a move onto it) never displaces a file at all.      *)
ObservedOnly ==
  [][\A s \in Sessions, p \in Paths :
       (Works(s) /\ Displaced(p) /\ lease[s].pc # "rollback") =>
         /\ lease[s].guard # NoVersion /\ p = lease[s].path
         /\ \/ p \in disturbed
            \/ ContentOf(Version(p)) = ContentOf(lease[s].guard)]_vars

Named == {dir[p] : p \in Paths} \ {0}

(* No step of a move, and no crash between its steps, leaves a file without *)
(* a name, rollback and failing system calls included, unless another       *)
(* program renames or removes one of the two names meanwhile.               *)
MoveLosesNothing ==
  [][\A s \in Sessions :
       (lease[s].op = "move" /\ busy = s /\ foreign' = foreign /\ disturbed = {}) =>
         Named \subseteq Named']_vars

(* What a call that succeeded was to do to the names. *)
Effect(s, before, after) ==
  LET p == lease[s].path  q == lease[s].to IN
  CASE lease[s].op \in {"stat", "read"} -> after = before
    [] lease[s].op = "delete" -> after = [before EXCEPT ![p] = 0]
    [] lease[s].op = "move"   -> after = [before EXCEPT ![p] = 0, ![q] = before[p]]
    [] OTHER -> after[p] \notin {0, before[p]} /\ after = [before EXCEPT ![p] = after[p]]

(* A call that ends undisturbed either did all of it or nothing: a failure  *)
(* reported before the last system call of the effect leaves every name as  *)
(* it was, also when a half-done move is rolled back, and a success leaves  *)
(* exactly the promised names.  Only a rollback or clean-up that fails      *)
(* itself is excepted.                                                      *)
AllOrNothing ==
  [][\A s \in Sessions :
       (busy = s /\ Works(s) /\ lease'[s].op = "none" /\ disturbed = {} /\
        last' # "crashed") =>
         /\ last' = "ok" => Effect(s, start, dir')
         /\ (last' # "ok" /\ ~lease[s].done /\ faults' = faults) => dir' = start]_vars

(* A call cancelled while it waits, before it starts or between the read    *)
(* and the write of an edit, changes no name afterwards.                    *)
CancelPublishesNothing ==
  [][\A s \in Sessions :
       (Works(s) /\ lease[s].aborted) => \A p \in Paths : dir'[p] = dir[p]]_vars
=============================================================================
