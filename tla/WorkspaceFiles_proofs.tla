------------------------ MODULE WorkspaceFiles_proofs -----------------------
(***************************************************************************)
(* Proofs about WorkspaceFiles, for any sessions, names and bounds.        *)
(*                                                                         *)
(* At most one session is between two system calls.  The inductive         *)
(* invariant says, for each point it may have reached, how the names and   *)
(* the contents compare with its guard and with the names it started from, *)
(* for as long as no other program touched them.                           *)
(***************************************************************************)
EXTENDS WorkspaceFiles, FiniteSetTheorems, TLAPS

-----------------------------------------------------------------------------
(* Types *)

Versions == Nat \X Nat

Observations ==
  [state : {"absent", "metadata", "content"}, version : Versions, shown : Nat]

Waiting  == {"ready", "plan"}
InFlight == {"read", "recheck", "stage", "publish", "report", "cleanup",
             "link", "verify", "unlink", "moved", "rollback", "delete"}
Reports  == {"none", "ok", "aborted", "missing", "stale", "io", "refused"}

Leases ==
  [op : Ops, path : Paths, to : Paths, guard : Versions, aborted : BOOLEAN,
   pc : Waiting \cup InFlight, seen : Versions, shown : Nat, file : Nat,
   linked : BOOLEAN, done : BOOLEAN, report : Reports]

TypeInv ==
  /\ stamps \in Seq(Nat) /\ contents \in Seq(Nat)
  /\ \A i \in DOMAIN stamps : stamps[i] \in DOMAIN contents
  /\ dir \in [Paths -> {0} \cup DOMAIN stamps]
  /\ temp \in {0} \cup DOMAIN stamps
  /\ obs \in [Sessions -> [Paths -> Observations \cup {NotSeen}]]
  /\ lease \in [Sessions -> Leases \cup {NoLease}]
  /\ busy \in Sessions \cup {Nobody}
  /\ start \in [Paths -> Nat] /\ disturbed \in SUBSET Paths
  /\ foreign \in Nat /\ faults \in Nat /\ calls \in Nat

-----------------------------------------------------------------------------
(* Leases *)

(* A version some file has, or had. *)
IsVersion(v) == v[1] \in DOMAIN stamps /\ v[2] \in DOMAIN contents

(* The lease that is in flight is the one whose session has the thread, and *)
(* it was not aborted when it took it.                                     *)
ThreadInv ==
  \A s \in Sessions :
    /\ busy = s <=> (lease[s] # NoLease /\ lease[s].pc \in InFlight)
    /\ busy = s => ~lease[s].aborted

LeaseInv ==
  \A s \in Sessions : lease[s] # NoLease =>
    /\ lease[s].op \in {"edit", "delete", "move"} => IsVersion(lease[s].guard)
    /\ (lease[s].op = "move") <=> (lease[s].path # lease[s].to)
    /\ lease[s].pc = "plan" => lease[s].op = "edit"
    /\ lease[s].pc \in Waiting => ~lease[s].done /\ ~lease[s].linked

ObservationInv ==
  \A s \in Sessions, p \in Paths : obs[s][p].state = "content" =>
    /\ IsVersion(obs[s][p].version)
    /\ obs[s][p].shown # Unknown => ContentOf(obs[s][p].version) = obs[s][p].shown

-----------------------------------------------------------------------------
(* The call in flight *)

Undisturbed(p) == p \notin disturbed
StillThere == disturbed = {} => dir = start

(* The name p still has the version its guard names. *)
Guards(p, guard) == Undisturbed(p) => Version(p) = guard

Holds(ino, content) == ino \in DOMAIN stamps /\ contents[stamps[ino]] = content

ReadInv(l) ==
  /\ l.op \in {"read", "edit"} /\ ~l.done /\ ~l.linked
  /\ IsVersion(l.seen) /\ StillThere
  /\ l.pc = "recheck" => (Version(l.path) = l.seen => l.shown = ContentOf(l.seen))

StageInv(l) ==
  /\ l.op \in Writers /\ ~l.done
  /\ Guards(l.path, l.guard) /\ StillThere
  /\ l.pc = "publish" =>
       /\ Holds(temp, l.shown)
       /\ \A p \in Paths : dir[p] # temp

(* Published: the name has a file it did not have, and nothing else changed. *)
Published(p) ==
  disturbed = {} => dir[p] \notin {0, start[p]} /\ dir = [start EXCEPT ![p] = dir[p]]

ReportInv(l) ==
  /\ l.op \in Writers /\ l.done
  /\ Undisturbed(l.path) => Holds(dir[l.path], l.shown)
  /\ Published(l.path)

CleanupInv(l) ==
  /\ l.op \in Writers
  /\ IF l.done THEN Published(l.path) ELSE StillThere
  /\ l.report = "ok" =>
       /\ l.done
       /\ l.op # "create" =>
            /\ IsVersion(l.seen)
            /\ Undisturbed(l.path) => ContentOf(l.seen) = l.shown

(* Both names are the file. *)
Linked(l) ==
  disturbed = {} => /\ start[l.to] = 0
                    /\ dir = [start EXCEPT ![l.to] = start[l.path]]

LinkInv(l) ==
  /\ l.op = "move" /\ ~l.done /\ ~l.linked
  /\ Guards(l.path, l.guard) /\ StillThere
  /\ disturbed = {} => start[l.to] = 0

VerifyInv(l) ==
  /\ l.op = "move" /\ ~l.done /\ l.linked
  /\ Undisturbed(l.path) =>
       /\ dir[l.path] = l.guard[1] /\ Holds(l.guard[1], ContentOf(l.guard))
       /\ Undisturbed(l.to) => dir[l.to] = l.guard[1]
  /\ Linked(l)

MovedInv(l) ==
  /\ l.op = "move" /\ l.done /\ ~l.linked
  /\ Undisturbed(l.path) /\ Undisturbed(l.to) =>
       dir[l.to] = l.guard[1] /\ Holds(l.guard[1], ContentOf(l.guard))
  /\ disturbed = {} => dir = [start EXCEPT ![l.path] = 0, ![l.to] = start[l.path]]

RollbackInv(l) ==
  /\ l.op = "move" /\ l.report # "ok"
  /\ l.linked <=> ~l.done
  /\ l.linked => Linked(l)

DeleteInv(l) ==
  /\ l.op = "delete" /\ ~l.done
  /\ Guards(l.path, l.guard) /\ StillThere

CallInv ==
  busy \in Sessions => LET l == lease[busy] IN
    /\ l.pc \in {"read", "recheck"}  => ReadInv(l)
    /\ l.pc \in {"stage", "publish"} => StageInv(l)
    /\ l.pc = "report"   => ReportInv(l)
    /\ l.pc = "cleanup"  => CleanupInv(l)
    /\ l.pc = "link"     => LinkInv(l)
    /\ l.pc \in {"verify", "unlink"} => VerifyInv(l)
    /\ l.pc = "moved"    => MovedInv(l)
    /\ l.pc = "rollback" => RollbackInv(l)
    /\ l.pc = "delete"   => DeleteInv(l)

FilesInv == TypeInv /\ ThreadInv /\ LeaseInv /\ ObservationInv /\ CallInv

-----------------------------------------------------------------------------
(* The disk *)

DiskTyped ==
  /\ stamps \in Seq(Nat) /\ contents \in Seq(Nat)
  /\ \A i \in DOMAIN stamps : stamps[i] \in DOMAIN contents

(* Inodes are never forgotten, and what a stamp stood for it stands for.   *)
Grows ==
  /\ \A i \in DOMAIN stamps : i \in DOMAIN stamps'
  /\ \A i \in DOMAIN contents : i \in DOMAIN contents' /\ contents'[i] = contents[i]

LEMMA DiskKept ==
  ASSUME DiskTyped, UNCHANGED <<stamps, contents>>
  PROVE  DiskTyped' /\ Grows
BY DEF DiskTyped, Grows

LEMMA NewInodeMade ==
  ASSUME DiskTyped, NewInode
  PROVE  /\ DiskTyped' /\ Grows
         /\ Len(stamps) + 1 \in DOMAIN stamps' /\ Len(stamps) + 1 \notin DOMAIN stamps
         /\ Len(stamps) + 1 # 0
         /\ \A i \in DOMAIN stamps : stamps'[i] = stamps[i]
         /\ contents'[stamps'[Len(stamps) + 1]] = Len(contents) + 1
<1>1. /\ stamps' = Append(stamps, Len(contents) + 1)
      /\ contents' = Append(contents, Len(contents) + 1)
      /\ Len(contents) \in Nat /\ Len(stamps) \in Nat
  BY DEF NewInode, DiskTyped
<1>2. stamps' \in Seq(Nat) /\ contents' \in Seq(Nat)
  BY <1>1 DEF DiskTyped
<1>3. /\ DOMAIN stamps' = DOMAIN stamps \cup {Len(stamps) + 1}
      /\ DOMAIN contents' = DOMAIN contents \cup {Len(contents) + 1}
      /\ Len(stamps) + 1 \notin DOMAIN stamps
  BY <1>1 DEF DiskTyped
<1>4. /\ \A i \in DOMAIN stamps : stamps'[i] = stamps[i]
      /\ \A i \in DOMAIN contents : contents'[i] = contents[i]
      /\ stamps'[Len(stamps) + 1] = Len(contents) + 1
      /\ contents'[Len(contents) + 1] = Len(contents) + 1
  BY <1>1 DEF DiskTyped
<1> QED
  BY <1>1, <1>2, <1>3, <1>4 DEF DiskTyped, Grows

(* One inode is given a new stamp. *)
LEMMA Restamped ==
  ASSUME DiskTyped, NEW ino \in DOMAIN stamps, NEW content \in Nat,
         stamps' = [stamps EXCEPT ![ino] = Len(contents) + 1],
         contents' = Append(contents, content)
  PROVE  /\ DiskTyped' /\ Grows
         /\ DOMAIN stamps' = DOMAIN stamps
         /\ \A i \in DOMAIN stamps : i # ino => stamps'[i] = stamps[i]
         /\ stamps'[ino] \notin DOMAIN contents
         /\ contents'[stamps'[ino]] = content
<1>1. Len(contents) \in Nat
  BY DEF DiskTyped
<1>2. stamps' \in Seq(Nat) /\ contents' \in Seq(Nat) /\ DOMAIN stamps' = DOMAIN stamps
  BY <1>1 DEF DiskTyped
<1>3. /\ DOMAIN contents' = DOMAIN contents \cup {Len(contents) + 1}
      /\ Len(contents) + 1 \notin DOMAIN contents
      /\ \A i \in DOMAIN contents : contents'[i] = contents[i]
      /\ contents'[Len(contents) + 1] = content
  BY <1>1 DEF DiskTyped
<1>4. /\ stamps'[ino] = Len(contents) + 1
      /\ \A i \in DOMAIN stamps : i # ino => stamps'[i] = stamps[i]
  BY <1>1 DEF DiskTyped
<1> QED
  BY <1>2, <1>3, <1>4 DEF DiskTyped, Grows

LEMMA Touched ==
  ASSUME DiskTyped, NEW ino \in DOMAIN stamps, Touch(ino)
  PROVE  /\ DiskTyped' /\ Grows
         /\ DOMAIN stamps' = DOMAIN stamps
         /\ \A i \in DOMAIN stamps : i # ino => stamps'[i] = stamps[i]
         /\ \A i \in DOMAIN stamps : contents'[stamps'[i]] = contents[stamps[i]]
<1>1. CASE UNCHANGED <<stamps, contents>>
  BY <1>1, DiskKept
<1>2. CASE /\ stamps' = [stamps EXCEPT ![ino] = Len(contents) + 1]
           /\ contents' = Append(contents, contents[stamps[ino]])
  <2>1. contents[stamps[ino]] \in Nat
    BY DEF DiskTyped
  <2>2. /\ DiskTyped' /\ Grows
        /\ DOMAIN stamps' = DOMAIN stamps
        /\ \A i \in DOMAIN stamps : i # ino => stamps'[i] = stamps[i]
        /\ contents'[stamps'[ino]] = contents[stamps[ino]]
    BY <1>2, <2>1, Restamped
  <2> QED
    BY <2>2 DEF Grows, DiskTyped
<1> QED
  BY <1>1, <1>2 DEF Touch

(* What a version meant it means for ever. *)
LEMMA VersionsKept ==
  ASSUME Grows, NEW v, IsVersion(v)
  PROVE  IsVersion(v)' /\ ContentOf(v)' = ContentOf(v)
BY DEF IsVersion, ContentOf, Grows

LEMMA NamedVersion ==
  ASSUME TypeInv, NEW p \in Paths, dir[p] # 0
  PROVE  /\ Version(p) \in Versions /\ IsVersion(Version(p))
         /\ Version(p) = <<dir[p], stamps[dir[p]]>> /\ Version(p) # NoVersion
         /\ ContentOf(Version(p)) = contents[stamps[dir[p]]]
         /\ ContentOf(Version(p)) \in Nat
<1>1. dir[p] \in DOMAIN stamps /\ stamps[dir[p]] \in DOMAIN contents
  BY DEF TypeInv
<1>2. Version(p) = <<dir[p], stamps[dir[p]]>>
  BY DEF Version, VersionOf
<1>3. dir[p] \in Nat /\ stamps[dir[p]] \in Nat /\ contents[stamps[dir[p]]] \in Nat
  BY <1>1 DEF TypeInv
<1> QED
  BY <1>1, <1>2, <1>3 DEF IsVersion, ContentOf, NoVersion, Versions

LEMMA FreeName == ASSUME NEW p, dir[p] = 0 PROVE Version(p) = NoVersion
BY DEF Version

(* A lease is a call that has been prepared. *)
LEMMA LeaseOp ==
  ASSUME TypeInv, NEW s \in Sessions
  PROVE  /\ lease[s] = NoLease <=> lease[s].op = "none"
         /\ lease[s] # NoLease => lease[s] \in Leases
<1>1. \A l \in Leases : l.op # "none"
  BY OpAssumption DEF Leases
<1> QED
  BY <1>1 DEF TypeInv, NoLease

(* A session that is at a step holds a lease, and no other is in flight.   *)
LEMMA AtStep ==
  ASSUME TypeInv, ThreadInv, LeaseInv, NEW s \in Sessions,
         NEW ops, "none" \notin ops, NEW pc, At(s, ops, pc)
  PROVE  /\ lease[s] \in Leases /\ lease[s] # NoLease
         /\ lease[s].pc = pc /\ lease[s].op \in ops
         /\ lease[s].path \in Paths /\ lease[s].to \in Paths
         /\ busy \in {s, Nobody}
         /\ pc \notin Waiting => busy = s /\ busy \in Sessions
         /\ pc \in Waiting => busy = Nobody
<1>1. lease[s] \in Leases \cup {NoLease} /\ lease[s].pc = pc /\ lease[s].op \in ops
  BY DEF At, TypeInv
<1>2. busy = IF pc \in {"ready", "plan"} THEN Nobody ELSE s
  BY DEF At
<1>3. lease[s] # NoLease
  BY <1>1, LeaseOp
<1> QED
  BY <1>1, <1>2, <1>3 DEF Leases, Waiting

-----------------------------------------------------------------------------
(* How a step changes the lease of its session *)

NamesTyped == dir \in [Paths -> {0} \cup DOMAIN stamps] /\ temp \in {0} \cup DOMAIN stamps
SeenTyped  == obs \in [Sessions -> [Paths -> Observations \cup {NotSeen}]]
Counted    == foreign \in Nat /\ faults \in Nat /\ calls \in Nat

(* The call of s goes on: what was asked for and guarded stays.            *)
Carries(s) ==
  /\ lease' \in [Sessions -> Leases \cup {NoLease}] /\ lease'[s] \in Leases
  /\ \A t \in Sessions \ {s} : lease'[t] = lease[t]
  /\ lease'[s].op = lease[s].op /\ lease'[s].path = lease[s].path
  /\ lease'[s].to = lease[s].to /\ lease'[s].guard = lease[s].guard
  /\ lease'[s].aborted = lease[s].aborted

LEMMA Goes ==
  ASSUME TypeInv, NEW s \in Sessions, lease[s] \in Leases,
         NEW pc \in Waiting \cup InFlight, Goto(s, pc)
  PROVE  /\ Carries(s) /\ lease'[s].pc = pc
         /\ lease'[s].seen = lease[s].seen /\ lease'[s].shown = lease[s].shown
         /\ lease'[s].linked = lease[s].linked /\ lease'[s].done = lease[s].done
         /\ lease'[s].report = lease[s].report
BY DEF TypeInv, Goto, Carries, Leases

LEMMA GivesUp ==
  ASSUME TypeInv, NEW s \in Sessions, lease[s] \in Leases,
         NEW pc \in InFlight, NEW report \in Reports, GiveUp(s, pc, report)
  PROVE  /\ Carries(s) /\ lease'[s].pc = pc /\ lease'[s].report = report
         /\ lease'[s].seen = lease[s].seen /\ lease'[s].shown = lease[s].shown
         /\ lease'[s].linked = lease[s].linked /\ lease'[s].done = lease[s].done
BY DEF TypeInv, GiveUp, Carries, Leases

LEMMA ObservationsKept ==
  ASSUME FilesInv, Grows, UNCHANGED obs
  PROVE  ObservationInv' /\ SeenTyped'
<1>1. ASSUME NEW s \in Sessions, NEW p \in Paths, obs[s][p].state = "content"
      PROVE  /\ IsVersion(obs[s][p].version)'
             /\ (obs[s][p].shown # Unknown => ContentOf(obs[s][p].version) = obs[s][p].shown)'
  BY <1>1, VersionsKept DEF FilesInv, ObservationInv
<1> QED
  BY <1>1 DEF FilesInv, TypeInv, SeenTyped, ObservationInv

LEMMA LeaseCarried ==
  ASSUME LeaseInv, NEW s \in Sessions, lease[s] # NoLease, Carries(s), Grows,
         lease'[s].pc = "plan" => lease'[s].op = "edit",
         lease'[s].pc \in Waiting => ~lease'[s].done /\ ~lease'[s].linked
  PROVE  LeaseInv'
<1>1. \A t \in Sessions : IsVersion(lease[t].guard) => IsVersion(lease[t].guard)'
  <2>1. ASSUME NEW t \in Sessions, IsVersion(lease[t].guard)
        PROVE  IsVersion(lease[t].guard)'
    <3>1. lease'[t].guard = lease[t].guard
      BY DEF Carries
    <3> QED
      BY <2>1, <3>1 DEF IsVersion, Grows
  <2> QED
    BY <2>1
<1>2. ASSUME NEW t \in Sessions, lease'[t] # NoLease
      PROVE  /\ lease'[t].op \in {"edit", "delete", "move"} => IsVersion(lease[t].guard)'
             /\ (lease'[t].op = "move") <=> (lease'[t].path # lease'[t].to)
             /\ lease'[t].pc = "plan" => lease'[t].op = "edit"
             /\ lease'[t].pc \in Waiting => ~lease'[t].done /\ ~lease'[t].linked
  <2>1. CASE t = s
    BY <1>1, <2>1 DEF LeaseInv, Carries
  <2>2. CASE t # s
    BY <1>1, <1>2, <2>2 DEF LeaseInv, Carries
  <2> QED
    BY <2>1, <2>2
<1> QED
  BY <1>2 DEF LeaseInv

LEMMA EntersFromNames ==
  ASSUME TypeInv, NEW s, Enter(s)
  PROVE  busy' = s /\ start' = dir /\ disturbed' = {} /\ start' \in [Paths -> Nat]
<1>1. \A i \in DOMAIN stamps : i \in Nat
  BY DEF TypeInv
<1> QED
  BY <1>1 DEF Enter, TypeInv

(* The call of s goes on with the thread.                                  *)
LEMMA Continues ==
  ASSUME FilesInv, NEW s \in Sessions, lease[s] \in Leases, ~lease[s].aborted,
         busy \in {s, Nobody}, busy' = s, Carries(s), lease'[s].pc \in InFlight,
         start' \in [Paths -> Nat], disturbed' \in SUBSET Paths,
         Grows, DiskTyped', NamesTyped', Counted', UNCHANGED obs
  PROVE  TypeInv' /\ ThreadInv' /\ LeaseInv' /\ ObservationInv'
<1> USE DEF FilesInv
<1>1. ObservationInv' /\ SeenTyped'
  BY ObservationsKept
<1>2. TypeInv'
  BY <1>1 DEF TypeInv, DiskTyped, NamesTyped, Counted, SeenTyped, Carries
<1>3. lease[s] # NoLease /\ lease'[s] # NoLease /\ lease'[s].op # "none"
  BY <1>2, OpAssumption DEF Carries, Leases, NoLease
<1>4. ThreadInv'
  <2>1. \A t \in Sessions \ {s} : ~(lease[t] # NoLease /\ lease[t].pc \in InFlight)
    BY SessionAssumption DEF ThreadInv
  <2> QED
    BY <1>3, <2>1, SessionAssumption DEF ThreadInv, Carries
<1>5. LeaseInv'
  BY <1>3, LeaseCarried DEF Waiting, InFlight
<1> QED
  BY <1>1, <1>2, <1>4, <1>5

(* The call of s ends, and gives the thread back.                          *)
LEMMA Ends ==
  ASSUME FilesInv, NEW s \in Sessions, NEW report, End(s, report), busy \in {s, Nobody},
         Grows, DiskTyped', NamesTyped', Counted', SeenTyped', ObservationInv'
  PROVE  FilesInv'
<1> USE DEF FilesInv
<1>1. /\ lease' = [lease EXCEPT ![s] = NoLease]
      /\ busy' = Nobody /\ start' = NoNames /\ disturbed' = {}
  BY DEF End, Leave
<1>2. /\ lease' \in [Sessions -> Leases \cup {NoLease}] /\ lease'[s] = NoLease
      /\ \A t \in Sessions \ {s} : lease'[t] = lease[t]
  BY <1>1 DEF TypeInv
<1>3. TypeInv'
  BY <1>1, <1>2 DEF TypeInv, DiskTyped, NamesTyped, Counted, SeenTyped, NoNames
<1>4. ThreadInv'
  BY <1>1, <1>2, SessionAssumption DEF ThreadInv
<1>5. LeaseInv'
  <2>1. ASSUME NEW t \in Sessions, lease'[t] # NoLease
        PROVE  /\ lease'[t].op \in {"edit", "delete", "move"} => IsVersion(lease[t].guard)'
               /\ (lease'[t].op = "move") <=> (lease'[t].path # lease'[t].to)
               /\ lease'[t].pc = "plan" => lease'[t].op = "edit"
               /\ lease'[t].pc \in Waiting => ~lease'[t].done /\ ~lease'[t].linked
    <3>1. lease'[t] = lease[t]
      BY <1>2, <2>1
    <3>2. IsVersion(lease[t].guard) => IsVersion(lease[t].guard)'
      BY <3>1 DEF IsVersion, Grows
    <3> QED
      BY <2>1, <3>1, <3>2 DEF LeaseInv
  <2> QED
    BY <2>1 DEF LeaseInv
<1>6. CallInv'
  BY <1>1, SessionAssumption DEF CallInv
<1> QED
  BY <1>3, <1>4, <1>5, <1>6

LEMMA Fails ==
  ASSUME FilesInv, NEW s \in Sessions, NEW report, Fail(s, report), busy \in {s, Nobody},
         Counted'
  PROVE  FilesInv'
<1>1. DiskTyped /\ NamesTyped
  BY DEF FilesInv, TypeInv, DiskTyped, NamesTyped
<1>2. DiskTyped' /\ Grows /\ NamesTyped'
  BY <1>1, DiskKept DEF Fail, disk, NamesTyped
<1>3. ObservationInv' /\ SeenTyped'
  BY <1>2, ObservationsKept DEF Fail
<1> QED
  BY <1>2, <1>3, Ends DEF Fail

-----------------------------------------------------------------------------
(* The disk of a step that leaves it alone, and of its failed branches *)

LEMMA DiskSame ==
  ASSUME FilesInv, UNCHANGED disk
  PROVE  DiskTyped' /\ Grows /\ NamesTyped'
<1>1. DiskTyped /\ NamesTyped
  BY DEF FilesInv, TypeInv, DiskTyped, NamesTyped
<1> QED
  BY <1>1, DiskKept DEF disk, NamesTyped

LEMMA CountsKept == ASSUME FilesInv, UNCHANGED counts PROVE Counted'
BY DEF FilesInv, TypeInv, counts, Counted

LEMMA FaultCounted ==
  ASSUME FilesInv, Fault \/ UNCHANGED faults, UNCHANGED <<calls, foreign>>
  PROVE  Counted'
BY DEF FilesInv, TypeInv, Fault, Counted

(* The call that holds the thread.                                         *)
LEMMA Running ==
  ASSUME FilesInv, NEW s \in Sessions, NEW ops, "none" \notin ops,
         NEW pc, pc \notin Waiting, At(s, ops, pc)
  PROVE  /\ lease[s] \in Leases /\ lease[s] # NoLease /\ ~lease[s].aborted
         /\ lease[s].pc = pc /\ lease[s].op \in ops
         /\ lease[s].path \in Paths /\ lease[s].to \in Paths
         /\ busy = s /\ busy \in Sessions
<1>1. TypeInv /\ ThreadInv /\ LeaseInv
  BY DEF FilesInv
<1> QED
  BY <1>1, AtStep DEF ThreadInv

-----------------------------------------------------------------------------
(* stat and readText *)

LEMMA StatPathKeeps ==
  ASSUME FilesInv, NEW s \in Sessions, StatPath(s)
  PROVE  FilesInv'
<1>1. lease[s] \in Leases /\ busy \in {s, Nobody} /\ Counted' /\ lease[s].path \in Paths
  BY AtStep, CountsKept DEF StatPath, FilesInv
<1>2. CASE Aborted(s)
  BY <1>1, <1>2, Fails DEF StatPath
<1>3. CASE ~Aborted(s)
  <2> DEFINE p == lease[s].path
             o == IF dir[p] = 0 THEN Observation("absent", NoVersion, Unknown)
                  ELSE Observation("metadata", Version(p), Unknown)
  <2>1. Observe(s, p, o) /\ End(s, "ok") /\ UNCHANGED disk
    BY <1>3 DEF StatPath
  <2>2. o \in Observations /\ o.state # "content"
    BY <1>1, NamedVersion DEF Observation, Observations, Versions, NoVersion, Unknown, FilesInv
  <2>3. DiskTyped' /\ Grows /\ NamesTyped'
    BY <2>1, DiskSame
  <2> HIDE DEF o
  <2>4. SeenTyped'
    BY <1>1, <2>1, <2>2 DEF SeenTyped, Observe, FilesInv, TypeInv
  <2>5. ObservationInv'
    <3>1. ASSUME NEW t \in Sessions, NEW q \in Paths, obs'[t][q].state = "content"
          PROVE  /\ IsVersion(obs[t][q].version)'
                 /\ (obs[t][q].shown # Unknown => ContentOf(obs[t][q].version) = obs[t][q].shown)'
      <4>1. obs'[t][q] = obs[t][q]
        BY <1>1, <2>1, <2>2, <3>1 DEF Observe, FilesInv, TypeInv
      <4> QED
        BY <2>3, <3>1, <4>1, VersionsKept DEF FilesInv, ObservationInv
    <3> QED
      BY <3>1 DEF ObservationInv
  <2> QED
    BY <1>1, <2>1, <2>3, <2>4, <2>5, Ends
<1> QED
  BY <1>2, <1>3

LEMMA ReadBeforeKeeps ==
  ASSUME FilesInv, NEW s \in Sessions, ReadBefore(s)
  PROVE  FilesInv'
<1> DEFINE p == lease[s].path
<1>1. /\ lease[s] \in Leases /\ busy \in {s, Nobody} /\ Counted' /\ p \in Paths
      /\ lease[s].op \in {"read", "edit"} /\ lease[s] # NoLease /\ lease[s].pc = "ready"
  BY AtStep, CountsKept DEF ReadBefore, FilesInv
<1>2. CASE Aborted(s) \/ dir[p] = 0
  BY <1>1, <1>2, Fails DEF ReadBefore
<1>3. CASE ~Aborted(s) /\ dir[p] # 0
  <2>1. /\ Enter(s) /\ UNCHANGED disk /\ UNCHANGED obs
        /\ lease' = [lease EXCEPT ![s].pc = "read", ![s].seen = Version(p)]
    BY <1>3 DEF ReadBefore
  <2>2. Version(p) \in Versions /\ IsVersion(Version(p))
    BY <1>1, <1>3, NamedVersion DEF FilesInv
  <2>3. /\ Carries(s) /\ lease'[s].pc = "read" /\ lease'[s].seen = Version(p)
        /\ lease'[s].linked = lease[s].linked /\ lease'[s].done = lease[s].done
    BY <1>1, <2>1, <2>2 DEF Carries, Leases, FilesInv, TypeInv, InFlight
  <2>4. DiskTyped' /\ Grows /\ NamesTyped'
    BY <2>1, DiskSame
  <2>5. busy' = s /\ start' = dir /\ disturbed' = {} /\ start' \in [Paths -> Nat]
    BY <2>1, EntersFromNames DEF FilesInv
  <2>6. TypeInv' /\ ThreadInv' /\ LeaseInv' /\ ObservationInv'
    BY <1>1, <1>3, <2>1, <2>3, <2>4, <2>5, Continues DEF Aborted, InFlight
  <2>7. ReadInv(lease[s])'
    <3>1. ~lease[s].done /\ ~lease[s].linked
      BY <1>1 DEF FilesInv, LeaseInv, Waiting
    <3>2. IsVersion(lease[s].seen)'
      BY <2>2, <2>3, <2>4 DEF IsVersion, Grows
    <3> QED
      BY <1>1, <2>1, <2>3, <2>5, <3>1, <3>2 DEF ReadInv, StillThere, Carries, disk
  <2> QED
    BY <2>3, <2>5, <2>6, <2>7 DEF FilesInv, CallInv
<1> QED
  BY <1>2, <1>3

LEMMA ReadContentKeeps ==
  ASSUME FilesInv, NEW s \in Sessions, ReadContent(s)
  PROVE  FilesInv'
<1> DEFINE p == lease[s].path
<1>1. /\ lease[s] \in Leases /\ busy = s /\ p \in Paths
      /\ lease[s].op \in {"read", "edit"} /\ lease[s] # NoLease /\ lease[s].pc = "read"
  <2>1. At(s, {"read", "edit"}, "read") /\ "read" \notin Waiting /\ "none" \notin {"read", "edit"}
    BY DEF ReadContent, Waiting
  <2> QED
    BY <2>1, Running
<1>2. CASE Fail(s, "missing") \/ Fail(s, "io")
  <2>1. Counted'
    BY FaultCounted DEF ReadContent
  <2> QED
    BY <1>1, <1>2, <2>1, Fails
<1>3. CASE /\ dir[p] # 0
           /\ lease' = [lease EXCEPT ![s].pc = "recheck", ![s].shown = ContentOf(Version(p))]
           /\ Stay
           /\ UNCHANGED <<disk, obs, faults>>
  <2>1. Version(p) \in Versions /\ ContentOf(Version(p)) \in Nat
    BY <1>1, <1>3, NamedVersion DEF FilesInv
  <2>2. /\ Carries(s) /\ lease'[s].pc = "recheck" /\ lease'[s].shown = ContentOf(Version(p))
        /\ lease'[s].seen = lease[s].seen
        /\ lease'[s].linked = lease[s].linked /\ lease'[s].done = lease[s].done
    BY <1>1, <1>3, <2>1 DEF Carries, Leases, FilesInv, TypeInv, InFlight
  <2>3. DiskTyped' /\ Grows /\ NamesTyped'
    BY <1>3, DiskSame
  <2>4. busy' = s /\ start' = start /\ disturbed' = disturbed
    BY <1>1, <1>3 DEF Stay
  <2>5. TypeInv' /\ ThreadInv' /\ LeaseInv' /\ ObservationInv'
    <3>1. /\ ~lease[s].aborted /\ start' \in [Paths -> Nat] /\ disturbed' \in SUBSET Paths
      BY <1>1, <2>4 DEF FilesInv, TypeInv, ThreadInv
    <3>2. Counted'
      BY FaultCounted, <1>3 DEF ReadContent
    <3> QED
      BY <1>1, <1>3, <2>2, <2>3, <2>4, <3>1, <3>2, Continues DEF InFlight
  <2>6. ReadInv(lease[s])'
    <3>1. ReadInv(lease[s])
      BY <1>1 DEF FilesInv, CallInv
    <3>2. IsVersion(lease[s].seen)'
      BY <2>2, <2>3, <3>1 DEF ReadInv, IsVersion, Grows
    <3>3. dir' = dir /\ StillThere'
      BY <1>3, <2>4, <3>1 DEF ReadInv, StillThere, disk
    <3>4. Version(p)' = Version(p) /\ ContentOf(Version(p))' = ContentOf(Version(p))
      BY <1>3, <2>2 DEF Version, VersionOf, ContentOf, disk, Carries
    <3> QED
      BY <2>2, <3>1, <3>2, <3>3, <3>4 DEF ReadInv, Carries
  <2> QED
    BY <2>2, <2>4, <2>5, <2>6 DEF FilesInv, CallInv
<1> QED
  BY <1>2, <1>3 DEF ReadContent

LEMMA ReadAfterKeeps ==
  ASSUME FilesInv, NEW s \in Sessions, ReadAfter(s)
  PROVE  FilesInv'
<1> DEFINE p == lease[s].path
<1>1. /\ lease[s] \in Leases /\ busy = s /\ Counted' /\ p \in Paths
      /\ lease[s].op \in {"read", "edit"} /\ lease[s] # NoLease /\ lease[s].pc = "recheck"
  BY AtStep, CountsKept DEF ReadAfter, FilesInv, Waiting
<1>2. ReadInv(lease[s])
  BY <1>1 DEF FilesInv, CallInv
<1>3. CASE Version(p) # lease[s].seen
  BY <1>1, <1>3, Fails DEF ReadAfter
<1>4. CASE Version(p) = lease[s].seen /\ lease[s].op = "read"
  <2> DEFINE o == Observation("content", lease[s].seen, lease[s].shown)
  <2>1. Observe(s, p, o) /\ End(s, "ok") /\ UNCHANGED disk
    BY <1>4 DEF ReadAfter
  <2>2. /\ o \in Observations /\ o.version = lease[s].seen /\ o.shown = lease[s].shown
        /\ lease[s].shown = ContentOf(lease[s].seen) /\ IsVersion(lease[s].seen)
    BY <1>1, <1>2, <1>4 DEF Observation, Observations, Leases, ReadInv
  <2>3. DiskTyped' /\ Grows /\ NamesTyped'
    BY <2>1, DiskSame
  <2> HIDE DEF o
  <2>4. SeenTyped'
    BY <1>1, <2>1, <2>2 DEF SeenTyped, Observe, FilesInv, TypeInv
  <2>5. ObservationInv'
    <3>1. ASSUME NEW t \in Sessions, NEW q \in Paths, obs'[t][q].state = "content"
          PROVE  /\ IsVersion(obs[t][q].version)'
                 /\ (obs[t][q].shown # Unknown => ContentOf(obs[t][q].version) = obs[t][q].shown)'
      <4>1. CASE t = s /\ q = p
        <5>1. obs'[t][q] = o
          BY <1>1, <2>1, <4>1 DEF Observe, FilesInv, TypeInv
        <5> QED
          BY <2>1, <2>2, <2>3, <5>1 DEF IsVersion, ContentOf, Grows, disk
      <4>2. CASE ~(t = s /\ q = p)
        <5>1. obs'[t][q] = obs[t][q]
          BY <1>1, <2>1, <4>2 DEF Observe, FilesInv, TypeInv
        <5> QED
          BY <2>3, <3>1, <5>1, VersionsKept DEF FilesInv, ObservationInv
      <4> QED
        BY <4>1, <4>2
    <3> QED
      BY <3>1 DEF ObservationInv
  <2> QED
    BY <1>1, <2>1, <2>3, <2>4, <2>5, Ends
<1>5. CASE Version(p) = lease[s].seen /\ lease[s].op # "read"
  <2>1. Goto(s, "plan") /\ Leave /\ UNCHANGED <<disk, obs>>
    BY <1>5 DEF ReadAfter
  <2>2. /\ Carries(s) /\ lease'[s].pc = "plan"
        /\ lease'[s].linked = lease[s].linked /\ lease'[s].done = lease[s].done
    BY <1>1, <2>1, Goes DEF FilesInv, Waiting
  <2>3. DiskTyped' /\ Grows /\ NamesTyped'
    BY <2>1, DiskSame
  <2>4. busy' = Nobody /\ start' = NoNames /\ disturbed' = {}
    BY <2>1 DEF Leave
  <2>5. ObservationInv' /\ SeenTyped'
    BY <2>1, <2>3, ObservationsKept
  <2>6. TypeInv'
    BY <1>1, <2>2, <2>3, <2>4, <2>5
       DEF TypeInv, DiskTyped, NamesTyped, Counted, SeenTyped, Carries, NoNames
  <2>7. ThreadInv'
    BY <1>1, <2>2, <2>4, SessionAssumption DEF FilesInv, ThreadInv, Carries, InFlight
  <2>8. LeaseInv'
    BY <1>1, <1>2, <1>5, <2>2, <2>3, LeaseCarried DEF FilesInv, ReadInv, Carries
  <2>9. CallInv'
    BY <2>4, SessionAssumption DEF CallInv
  <2> QED
    BY <2>5, <2>6, <2>7, <2>8, <2>9 DEF FilesInv
<1> QED
  BY <1>3, <1>4, <1>5

-----------------------------------------------------------------------------
(* writeText *)

LEMMA EditEndsKeep ==
  ASSUME FilesInv, NEW s \in Sessions, EditStale(s) \/ EditRefused(s)
  PROVE  FilesInv'
<1>1. busy \in {s, Nobody} /\ Counted'
  BY AtStep, CountsKept DEF EditStale, EditRefused, FilesInv
<1> QED
  BY <1>1, Fails DEF EditStale, EditRefused

LEMMA CheckTargetKeeps ==
  ASSUME FilesInv, NEW s \in Sessions, CheckTarget(s)
  PROVE  FilesInv'
<1> DEFINE p == lease[s].path
<1>1. /\ lease[s] \in Leases /\ busy \in {s, Nobody} /\ p \in Paths /\ lease[s] # NoLease
      /\ lease[s].op \in Writers /\ lease[s].pc \in Waiting
  <2>1. CASE At(s, Writers \ {"edit"}, "ready")
    BY <2>1, AtStep DEF FilesInv, Writers, Waiting
  <2>2. CASE At(s, {"edit"}, "plan")
    BY <2>2, AtStep DEF FilesInv, Writers, Waiting
  <2> QED
    BY <2>1, <2>2 DEF CheckTarget
<1>2. Counted'
  BY CountsKept DEF CheckTarget
<1>3. CASE Aborted(s) \/ Version(p) # Expected(s)
  BY <1>1, <1>2, <1>3, Fails DEF CheckTarget
<1>4. CASE ~Aborted(s) /\ Version(p) = Expected(s)
  <2>1. Enter(s) /\ Goto(s, "stage") /\ UNCHANGED disk /\ UNCHANGED obs
    BY <1>4 DEF CheckTarget
  <2>2. /\ Carries(s) /\ lease'[s].pc = "stage" /\ lease'[s].done = lease[s].done
    BY <1>1, <2>1, Goes DEF FilesInv, InFlight
  <2>3. DiskTyped' /\ Grows /\ NamesTyped'
    BY <2>1, DiskSame
  <2>4. busy' = s /\ start' = dir /\ disturbed' = {} /\ start' \in [Paths -> Nat]
    BY <2>1, EntersFromNames DEF FilesInv
  <2>5. TypeInv' /\ ThreadInv' /\ LeaseInv' /\ ObservationInv'
    BY <1>1, <1>2, <1>4, <2>1, <2>2, <2>3, <2>4, Continues DEF Aborted, InFlight
  <2>6. StageInv(lease[s])'
    <3>1. ~lease[s].done /\ Version(p) = lease[s].guard
      BY <1>1, <1>4 DEF FilesInv, LeaseInv, Expected
    <3>2. Version(p)' = Version(p)
      BY <2>1, <2>2 DEF Version, VersionOf, disk, Carries
    <3> QED
      BY <1>1, <2>1, <2>2, <2>4, <3>1, <3>2 DEF StageInv, StillThere, Guards, Carries, disk
  <2> QED
    BY <2>2, <2>4, <2>5, <2>6 DEF FilesInv, CallInv
<1> QED
  BY <1>3, <1>4

(* A new file has a new inode, and no file changes.                         *)
LEMMA FileMade ==
  ASSUME FilesInv, NewInode
  PROVE  /\ DiskTyped' /\ Grows
         /\ \A i \in {0} \cup DOMAIN stamps : i \in {0} \cup DOMAIN stamps'
         /\ Len(stamps) + 1 \in DOMAIN stamps'
         /\ Len(stamps) + 1 \notin {0} \cup DOMAIN stamps
         /\ contents'[stamps'[Len(stamps) + 1]] = Len(contents) + 1
         /\ Len(stamps) + 1 \in Nat /\ Len(contents) + 1 \in Nat
         /\ \A i \in DOMAIN stamps : stamps'[i] = stamps[i]
<1>1. DiskTyped
  BY DEF FilesInv, TypeInv, DiskTyped
<1>2. /\ DiskTyped' /\ Grows
      /\ Len(stamps) + 1 \in DOMAIN stamps' /\ Len(stamps) + 1 \notin DOMAIN stamps
      /\ Len(stamps) + 1 # 0
      /\ \A i \in DOMAIN stamps : stamps'[i] = stamps[i]
      /\ contents'[stamps'[Len(stamps) + 1]] = Len(contents) + 1
  BY <1>1, NewInodeMade
<1>3. Len(stamps) \in Nat /\ Len(contents) \in Nat
  BY <1>1 DEF DiskTyped
<1> QED
  BY <1>2, <1>3 DEF Grows

LEMMA StageTempKeeps ==
  ASSUME FilesInv, NEW s \in Sessions, StageTemp(s)
  PROVE  FilesInv'
<1> DEFINE p == lease[s].path
<1>1. /\ lease[s] \in Leases /\ busy = s /\ p \in Paths
      /\ lease[s].op \in Writers /\ lease[s] # NoLease /\ lease[s].pc = "stage"
  <2>1. At(s, Writers, "stage") /\ "stage" \notin Waiting /\ "none" \notin Writers
    BY DEF StageTemp, Waiting, Writers
  <2> QED
    BY <2>1, Running
<1>2. StageInv(lease[s]) /\ ~lease[s].aborted
  BY <1>1 DEF FilesInv, CallInv, ThreadInv
<1>3. /\ busy' = s /\ start' = start /\ disturbed' = disturbed /\ dir' = dir /\ obs' = obs
      /\ start' \in [Paths -> Nat] /\ disturbed' \in SUBSET Paths
  BY <1>1 DEF StageTemp, Stay, FilesInv, TypeInv
<1>4. Counted'
  BY FaultCounted DEF StageTemp
<1>5. dir \in [Paths -> {0} \cup DOMAIN stamps] /\ temp \in {0} \cup DOMAIN stamps
  BY DEF FilesInv, TypeInv
<1>6. (* Whatever file is made, the names keep theirs. *)
      ASSUME \/ NewInode /\ temp' = Len(stamps) + 1
             \/ UNCHANGED <<stamps, contents, temp>>
      PROVE  /\ DiskTyped' /\ Grows /\ NamesTyped'
             /\ \A i \in DOMAIN stamps : stamps'[i] = stamps[i]
  <2>1. CASE NewInode /\ temp' = Len(stamps) + 1
    BY <1>3, <1>5, <2>1, FileMade DEF NamesTyped
  <2>2. CASE UNCHANGED <<stamps, contents, temp>>
    <3>1. UNCHANGED disk
      BY <1>3, <2>2 DEF disk
    <3> QED
      BY <2>2, <3>1, DiskSame
  <2> QED
    BY <1>6, <2>1, <2>2
<1>7. CASE /\ NewInode
           /\ temp' = Len(stamps) + 1
           /\ lease' = [lease EXCEPT ![s].pc = "publish", ![s].shown = Len(contents) + 1]
  <2>1. /\ Len(contents) + 1 \in Nat /\ temp' \in DOMAIN stamps'
        /\ temp' \notin {0} \cup DOMAIN stamps
        /\ contents'[stamps'[temp']] = Len(contents) + 1
    BY <1>7, FileMade
  <2>2. /\ Carries(s) /\ lease'[s].pc = "publish" /\ lease'[s].shown = Len(contents) + 1
        /\ lease'[s].done = lease[s].done
    BY <1>1, <1>7, <2>1 DEF Carries, Leases, FilesInv, TypeInv, InFlight
  <2>3. TypeInv' /\ ThreadInv' /\ LeaseInv' /\ ObservationInv'
    BY <1>1, <1>2, <1>3, <1>4, <1>6, <1>7, <2>2, Continues DEF InFlight
  <2>4. StageInv(lease[s])'
    <3>1. Holds(temp, lease[s].shown)' /\ \A r \in Paths : dir'[r] # temp'
      BY <1>3, <1>5, <2>1, <2>2 DEF Holds
    <3>2. Version(p)' = Version(p)
      BY <1>1, <1>3, <1>5, <1>6, <1>7, <2>2 DEF Version, VersionOf, Carries
    <3> QED
      BY <1>1, <1>2, <1>3, <2>2, <3>1, <3>2 DEF StageInv, Guards, Undisturbed, StillThere, Carries
  <2> QED
    BY <1>3, <2>2, <2>3, <2>4 DEF FilesInv, CallInv
<1>8. CASE /\ lease' = [lease EXCEPT ![s].pc = "cleanup", ![s].report = "io"]
           /\ \/ NewInode /\ temp' = Len(stamps) + 1
              \/ UNCHANGED <<stamps, contents, temp>>
  <2>1. /\ Carries(s) /\ lease'[s].pc = "cleanup" /\ lease'[s].report = "io"
        /\ lease'[s].done = lease[s].done
    BY <1>1, <1>8, GivesUp DEF FilesInv, InFlight, Reports, GiveUp
  <2>2. TypeInv' /\ ThreadInv' /\ LeaseInv' /\ ObservationInv'
    BY <1>1, <1>2, <1>3, <1>4, <1>6, <1>8, <2>1, Continues DEF InFlight
  <2>3. CleanupInv(lease[s])'
    BY <1>1, <1>2, <1>3, <2>1 DEF StageInv, CleanupInv, StillThere, Carries
  <2> QED
    BY <1>3, <2>1, <2>2, <2>3 DEF FilesInv, CallInv
<1> QED
  BY <1>7, <1>8 DEF StageTemp

(* An inode whose link count changed is the same file.                     *)
LEMMA LinkCounted ==
  ASSUME FilesInv, NEW ino \in DOMAIN stamps, Touch(ino)
  PROVE  /\ DiskTyped' /\ Grows
         /\ DOMAIN stamps' = DOMAIN stamps
         /\ \A i \in DOMAIN stamps : i # ino => stamps'[i] = stamps[i]
         /\ \A i \in DOMAIN stamps : contents'[stamps'[i]] = contents[stamps[i]]
<1>1. DiskTyped
  BY DEF FilesInv, TypeInv, DiskTyped
<1> QED
  BY <1>1, Touched

LEMMA PublishKeeps ==
  ASSUME FilesInv, NEW s \in Sessions, Publish(s)
  PROVE  FilesInv'
<1> DEFINE p == lease[s].path
<1>1. /\ lease[s] \in Leases /\ busy = s /\ p \in Paths
      /\ lease[s].op \in Writers /\ lease[s] # NoLease /\ lease[s].pc = "publish"
  <2>1. At(s, Writers, "publish") /\ "publish" \notin Waiting /\ "none" \notin Writers
    BY DEF Publish, Waiting, Writers
  <2> QED
    BY <2>1, Running
<1>2. StageInv(lease[s]) /\ ~lease[s].aborted
  BY <1>1 DEF FilesInv, CallInv, ThreadInv
<1>3. /\ busy' = s /\ start' = start /\ disturbed' = disturbed /\ obs' = obs
      /\ start' \in [Paths -> Nat] /\ disturbed' \in SUBSET Paths
  BY <1>1 DEF Publish, Stay, FilesInv, TypeInv
<1>4. Counted'
  BY FaultCounted DEF Publish
<1>5. /\ dir \in [Paths -> {0} \cup DOMAIN stamps]
      /\ Holds(temp, lease[s].shown) /\ temp \in DOMAIN stamps /\ temp # 0
      /\ \A r \in Paths : dir[r] # temp
  <2>1. dir \in [Paths -> {0} \cup DOMAIN stamps] /\ 0 \notin DOMAIN stamps
    BY DEF FilesInv, TypeInv
  <2> QED
    BY <1>1, <1>2, <2>1 DEF StageInv, Holds
<1>6. CASE /\ dir' = [dir EXCEPT ![p] = temp]
           /\ temp' = IF Exclusive(s) THEN temp ELSE 0
           /\ Touch(temp)
           /\ lease' = [lease EXCEPT ![s].pc = "report", ![s].done = TRUE]
  <2>1. /\ Carries(s) /\ lease'[s].pc = "report" /\ lease'[s].done
        /\ lease'[s].shown = lease[s].shown
    BY <1>1, <1>6 DEF Carries, Leases, FilesInv, TypeInv, InFlight
  <2>2. /\ DiskTyped' /\ Grows /\ DOMAIN stamps' = DOMAIN stamps
        /\ contents'[stamps'[temp]] = lease[s].shown
    BY <1>5, <1>6, LinkCounted DEF Holds
  <2>3. NamesTyped'
    BY <1>5, <1>6, <2>2 DEF NamesTyped
  <2>4. TypeInv' /\ ThreadInv' /\ LeaseInv' /\ ObservationInv'
    BY <1>1, <1>2, <1>3, <1>4, <2>1, <2>2, <2>3, Continues DEF InFlight
  <2>5. ReportInv(lease[s])'
    <3>1. dir'[p] = temp /\ lease'[s].path = p
      BY <1>1, <1>5, <1>6, <2>1 DEF Carries
    <3>2. Holds(dir[lease[s].path], lease[s].shown)'
      BY <1>5, <2>1, <2>2, <3>1 DEF Holds
    <3>3. Published(lease[s].path)'
      <4>1. disturbed = {} => dir = start
        BY <1>2 DEF StageInv, StillThere
      <4> QED
        BY <1>1, <1>3, <1>5, <1>6, <3>1, <4>1 DEF Published
    <3> QED
      BY <1>1, <2>1, <3>2, <3>3 DEF ReportInv, Carries
  <2> QED
    BY <1>3, <2>1, <2>4, <2>5 DEF FilesInv, CallInv
<1>7. CASE UNCHANGED disk /\ \E report \in {"aborted", "stale", "io"} : GiveUp(s, "cleanup", report)
  <2>1. /\ Carries(s) /\ lease'[s].pc = "cleanup" /\ lease'[s].report # "ok"
        /\ lease'[s].done = lease[s].done
    BY <1>1, <1>7, GivesUp DEF FilesInv, InFlight, Reports
  <2>2. DiskTyped' /\ Grows /\ NamesTyped'
    BY <1>7, DiskSame
  <2>3. TypeInv' /\ ThreadInv' /\ LeaseInv' /\ ObservationInv'
    BY <1>1, <1>2, <1>3, <1>4, <2>1, <2>2, Continues DEF InFlight
  <2>4. CleanupInv(lease[s])'
    BY <1>1, <1>2, <1>3, <1>7, <2>1 DEF StageInv, CleanupInv, StillThere, Carries, disk
  <2> QED
    BY <1>3, <2>1, <2>3, <2>4 DEF FilesInv, CallInv
<1> QED
  BY <1>6, <1>7 DEF Publish

LEMMA ReportWriteKeeps ==
  ASSUME FilesInv, NEW s \in Sessions, ReportWrite(s)
  PROVE  FilesInv'
<1> DEFINE p == lease[s].path
<1>1. /\ lease[s] \in Leases /\ busy = s /\ p \in Paths /\ ~lease[s].aborted
      /\ lease[s].op \in Writers /\ lease[s] # NoLease /\ lease[s].pc = "report"
  <2>1. At(s, Writers, "report") /\ "report" \notin Waiting /\ "none" \notin Writers
    BY DEF ReportWrite, Waiting, Writers
  <2> QED
    BY <2>1, Running
<1>2. ReportInv(lease[s])
  BY <1>1 DEF FilesInv, CallInv
<1>3. /\ busy' = s /\ start' = start /\ disturbed' = disturbed /\ UNCHANGED disk /\ obs' = obs
      /\ start' \in [Paths -> Nat] /\ disturbed' \in SUBSET Paths
  BY <1>1 DEF ReportWrite, Stay, FilesInv, TypeInv
<1>4. Counted' /\ DiskTyped' /\ Grows /\ NamesTyped'
  BY <1>3, FaultCounted, DiskSame DEF ReportWrite
<1>5. CASE /\ dir[p] # 0 \/ lease[s].op = "create"
           /\ lease' = [lease EXCEPT ![s].pc = "cleanup", ![s].report = "ok",
                                     ![s].seen = Version(p)]
  <2>1. /\ Version(p) \in Versions
        /\ dir[p] # 0 => /\ IsVersion(Version(p))
                         /\ ContentOf(Version(p)) = contents[stamps[dir[p]]]
    BY <1>1, NamedVersion, FreeName DEF FilesInv, NoVersion, Versions
  <2>2. /\ Carries(s) /\ lease'[s].pc = "cleanup" /\ lease'[s].report = "ok"
        /\ lease'[s].seen = Version(p) /\ lease'[s].shown = lease[s].shown
        /\ lease'[s].done = lease[s].done
    BY <1>1, <1>5, <2>1 DEF Carries, Leases, FilesInv, TypeInv, InFlight, Reports
  <2>3. TypeInv' /\ ThreadInv' /\ LeaseInv' /\ ObservationInv'
    BY <1>1, <1>3, <1>4, <2>2, Continues DEF InFlight
  <2>4. CleanupInv(lease[s])'
    <3>1. lease[s].op # "create" =>
            /\ IsVersion(lease[s].seen)'
            /\ Undisturbed(p) => (ContentOf(lease[s].seen) = lease[s].shown)'
      BY <1>2, <1>3, <1>5, <2>1, <2>2
         DEF ReportInv, Holds, IsVersion, ContentOf, disk, Undisturbed
    <3>2. Published(p)'
      BY <1>1, <1>2, <1>3, <2>2 DEF ReportInv, Published, disk, Carries
    <3> QED
      BY <1>1, <1>2, <1>3, <2>2, <3>1, <3>2 DEF ReportInv, CleanupInv, Carries, Undisturbed
  <2> QED
    BY <1>3, <2>2, <2>3, <2>4 DEF FilesInv, CallInv
<1>6. CASE \E report \in {"missing", "io"} : GiveUp(s, "cleanup", report)
  <2>1. /\ Carries(s) /\ lease'[s].pc = "cleanup" /\ lease'[s].report # "ok"
        /\ lease'[s].done = lease[s].done
    BY <1>1, <1>6, GivesUp DEF FilesInv, InFlight, Reports
  <2>2. TypeInv' /\ ThreadInv' /\ LeaseInv' /\ ObservationInv'
    BY <1>1, <1>3, <1>4, <2>1, Continues DEF InFlight
  <2>3. CleanupInv(lease[s])'
    BY <1>1, <1>2, <1>3, <2>1 DEF ReportInv, CleanupInv, Published, Carries, disk
  <2> QED
    BY <1>3, <2>1, <2>2, <2>3 DEF FilesInv, CallInv
<1> QED
  BY <1>5, <1>6 DEF ReportWrite

LEMMA CleanupKeeps ==
  ASSUME FilesInv, NEW s \in Sessions, Cleanup(s)
  PROVE  FilesInv'
<1> DEFINE p == lease[s].path
<1>1. /\ lease[s] \in Leases /\ busy = s /\ p \in Paths /\ ~lease[s].aborted
      /\ lease[s].op \in Writers /\ lease[s] # NoLease /\ lease[s].pc = "cleanup"
  <2>1. At(s, Writers, "cleanup") /\ "cleanup" \notin Waiting /\ "none" \notin Writers
    BY DEF Cleanup, Waiting, Writers
  <2> QED
    BY <2>1, Running
<1>2. CleanupInv(lease[s])
  BY <1>1 DEF FilesInv, CallInv
<1>3. Counted' /\ dir' = dir /\ temp' = 0
  BY FaultCounted DEF Cleanup
<1>4. dir \in [Paths -> {0} \cup DOMAIN stamps] /\ temp \in {0} \cup DOMAIN stamps
  BY DEF FilesInv, TypeInv
<1>5. DiskTyped' /\ Grows /\ DOMAIN stamps' = DOMAIN stamps
  <2>1. DiskTyped
    BY DEF FilesInv, TypeInv, DiskTyped
  <2>2. UNCHANGED <<stamps, contents>> \/ (temp \in DOMAIN stamps /\ Touch(temp))
    BY <1>4 DEF Cleanup
  <2> QED
    BY <2>1, <2>2, DiskKept, Touched
<1>6. NamesTyped'
  BY <1>3, <1>4, <1>5 DEF NamesTyped
<1>7. PICK report : End(s, report)
  BY DEF Cleanup
<1>8. CASE UNCHANGED obs
  BY <1>1, <1>3, <1>5, <1>6, <1>7, <1>8, ObservationsKept, Ends
<1>9. CASE ObserveWrite(s) /\ ~UNCHANGED obs
  <2> DEFINE o == Observation("content", lease[s].seen, Shown(s, p))
  <2>1. lease[s].report = "ok" /\ lease[s].op # "create" /\ Observe(s, p, o)
    BY <1>9 DEF ObserveWrite
  <2>2. /\ o \in Observations /\ IsVersion(lease[s].seen) /\ o.version = lease[s].seen
        /\ o.shown # Unknown => ContentOf(lease[s].seen) = o.shown
    BY <1>1, <1>2, <2>1
       DEF Observation, Observations, Leases, CleanupInv, Shown, Unknown, Undisturbed
  <2> HIDE DEF o
  <2>3. SeenTyped'
    BY <1>1, <2>1, <2>2 DEF SeenTyped, Observe, FilesInv, TypeInv
  <2>4. ObservationInv'
    <3>1. ASSUME NEW t \in Sessions, NEW q \in Paths, obs'[t][q].state = "content"
          PROVE  /\ IsVersion(obs[t][q].version)'
                 /\ (obs[t][q].shown # Unknown => ContentOf(obs[t][q].version) = obs[t][q].shown)'
      <4>1. CASE t = s /\ q = p
        <5>1. obs'[t][q] = o
          BY <1>1, <2>1, <4>1 DEF Observe, FilesInv, TypeInv
        <5> QED
          BY <1>5, <2>2, <5>1 DEF IsVersion, ContentOf, Grows
      <4>2. CASE ~(t = s /\ q = p)
        <5>1. obs'[t][q] = obs[t][q]
          BY <1>1, <2>1, <4>2 DEF Observe, FilesInv, TypeInv
        <5> QED
          BY <1>5, <3>1, <5>1, VersionsKept DEF FilesInv, ObservationInv
      <4> QED
        BY <4>1, <4>2
    <3> QED
      BY <3>1 DEF ObservationInv
  <2> QED
    BY <1>1, <1>3, <1>5, <1>6, <1>7, <2>3, <2>4, Ends
<1> QED
  BY <1>8, <1>9 DEF Cleanup

-----------------------------------------------------------------------------
(* moveFile *)

LEMMA MoveNames ==
  ASSUME FilesInv, NEW s \in Sessions, lease[s] # NoLease, lease[s].op = "move"
  PROVE  lease[s].path # lease[s].to /\ IsVersion(lease[s].guard)
BY DEF FilesInv, LeaseInv

LEMMA MoveCheckKeeps ==
  ASSUME FilesInv, NEW s \in Sessions, MoveCheck(s)
  PROVE  FilesInv'
<1> DEFINE p == lease[s].path  q == lease[s].to
<1>1. /\ lease[s] \in Leases /\ busy \in {s, Nobody} /\ Counted' /\ p \in Paths /\ q \in Paths
      /\ lease[s].op = "move" /\ lease[s] # NoLease /\ lease[s].pc = "ready"
  <2>1. /\ At(s, {"move"}, "ready") /\ UNCHANGED counts /\ "none" \notin {"move"}
        /\ TypeInv /\ ThreadInv /\ LeaseInv
    BY DEF MoveCheck, FilesInv
  <2> QED
    BY <2>1, AtStep, CountsKept
<1>2. CASE \E report \in {"aborted", "missing", "stale"} : Fail(s, report)
  BY <1>1, <1>2, Fails
<1>3. CASE /\ ~Aborted(s) /\ dir[p] # 0 /\ Version(p) = lease[s].guard /\ dir[q] = 0
           /\ Enter(s) /\ UNCHANGED <<disk, obs>>
           /\ lease' = [lease EXCEPT ![s].pc = "link", ![s].file = dir[p]]
  <2>1. dir[p] \in Nat
    BY <1>1, <1>3, NamedVersion DEF FilesInv, Versions
  <2>2. /\ Carries(s) /\ lease'[s].pc = "link"
        /\ lease'[s].linked = lease[s].linked /\ lease'[s].done = lease[s].done
    BY <1>1, <1>3, <2>1 DEF Carries, Leases, FilesInv, TypeInv, InFlight
  <2>3. DiskTyped' /\ Grows /\ NamesTyped'
    BY <1>3, DiskSame
  <2>4. busy' = s /\ start' = dir /\ disturbed' = {} /\ start' \in [Paths -> Nat]
    BY <1>3, EntersFromNames DEF FilesInv
  <2>5. TypeInv' /\ ThreadInv' /\ LeaseInv' /\ ObservationInv'
    BY <1>1, <1>3, <2>2, <2>3, <2>4, Continues DEF Aborted, InFlight
  <2>6. LinkInv(lease[s])'
    <3>1. ~lease[s].done /\ ~lease[s].linked
      BY <1>1 DEF FilesInv, LeaseInv, Waiting
    <3>2. Version(p)' = Version(p)
      BY <1>3, <2>2 DEF Version, VersionOf, disk, Carries
    <3>3. dir' = dir
      BY <1>3 DEF disk
    <3> QED
      BY <1>1, <1>3, <2>2, <2>4, <3>1, <3>2, <3>3 DEF LinkInv, StillThere, Guards, Carries
  <2> QED
    BY <2>2, <2>4, <2>5, <2>6 DEF FilesInv, CallInv
<1> QED
  BY <1>2, <1>3 DEF MoveCheck

LEMMA MoveLinkKeeps ==
  ASSUME FilesInv, NEW s \in Sessions, MoveLink(s)
  PROVE  FilesInv'
<1> DEFINE p == lease[s].path  q == lease[s].to  g == lease[s].guard
<1>1. /\ lease[s] \in Leases /\ busy = s /\ p \in Paths /\ q \in Paths /\ ~lease[s].aborted
      /\ lease[s].op = "move" /\ lease[s] # NoLease /\ lease[s].pc = "link"
  <2>1. At(s, {"move"}, "link") /\ "link" \notin Waiting /\ "none" \notin {"move"}
    BY DEF MoveLink, Waiting
  <2> QED
    BY <2>1, Running
<1>2. LinkInv(lease[s]) /\ p # q /\ IsVersion(g)
  BY <1>1, MoveNames DEF FilesInv, CallInv
<1>3. Counted'
  BY FaultCounted DEF MoveLink
<1>4. CASE \E report \in {"missing", "stale", "io"} : Fail(s, report)
  BY <1>1, <1>3, <1>4, Fails
<1>5. CASE /\ dir[p] # 0 /\ dir[q] = 0
           /\ dir' = [dir EXCEPT ![q] = dir[p]]
           /\ Touch(dir[p])
           /\ lease' = [lease EXCEPT ![s].pc = "verify", ![s].linked = TRUE]
           /\ Stay /\ UNCHANGED <<temp, obs>>
  <2>1. /\ dir \in [Paths -> {0} \cup DOMAIN stamps] /\ temp \in {0} \cup DOMAIN stamps
        /\ dir[p] \in DOMAIN stamps
    BY <1>1, <1>5 DEF FilesInv, TypeInv
  <2>2. /\ DiskTyped' /\ Grows /\ DOMAIN stamps' = DOMAIN stamps
        /\ contents'[stamps'[dir[p]]] = contents[stamps[dir[p]]]
    BY <1>5, <2>1, LinkCounted
  <2>3. NamesTyped'
    BY <1>1, <1>5, <2>1, <2>2 DEF NamesTyped
  <2>4. /\ Carries(s) /\ lease'[s].pc = "verify" /\ lease'[s].linked
        /\ lease'[s].done = lease[s].done
    BY <1>1, <1>5 DEF Carries, Leases, FilesInv, TypeInv, InFlight
  <2>5. /\ busy' = s /\ start' = start /\ disturbed' = disturbed
        /\ start' \in [Paths -> Nat] /\ disturbed' \in SUBSET Paths
    BY <1>1, <1>5 DEF Stay, FilesInv, TypeInv
  <2>6. TypeInv' /\ ThreadInv' /\ LeaseInv' /\ ObservationInv'
    BY <1>1, <1>3, <1>5, <2>2, <2>3, <2>4, <2>5, Continues DEF InFlight
  <2>7. VerifyInv(lease[s])'
    <3>1. dir'[p] = dir[p] /\ dir'[q] = dir[p]
      BY <1>1, <1>2, <1>5, <2>1
    <3>2. lease'[s].path = p /\ lease'[s].to = q /\ lease'[s].guard = g
      BY <2>4 DEF Carries
    <3>3. Undisturbed(p) => dir[p] = g[1] /\ Holds(g[1], ContentOf(g))'
      <4>1. SUFFICES ASSUME Undisturbed(p) PROVE dir[p] = g[1] /\ Holds(g[1], ContentOf(g))'
        OBVIOUS
      <4>2. Version(p) = g /\ Version(p) = <<dir[p], stamps[dir[p]]>>
        BY <1>1, <1>2, <1>5, <4>1, NamedVersion DEF LinkInv, Guards, FilesInv
      <4>3. g[1] = dir[p] /\ g[2] = stamps[dir[p]]
        BY <4>2
      <4>4. contents'[g[2]] = contents[g[2]]
        BY <1>2, <2>2 DEF IsVersion, Grows
      <4> QED
        BY <2>1, <2>2, <3>2, <4>3, <4>4 DEF Holds, ContentOf
    <3>4. Linked(lease[s])'
      BY <1>1, <1>2, <1>5, <2>5, <3>2 DEF LinkInv, Linked, StillThere
    <3> QED
      BY <1>1, <1>2, <2>4, <2>5, <3>1, <3>2, <3>3, <3>4
         DEF LinkInv, VerifyInv, Undisturbed, Carries
  <2> QED
    BY <2>4, <2>5, <2>6, <2>7 DEF FilesInv, CallInv
<1> QED
  BY <1>4, <1>5 DEF MoveLink

LEMMA MoveVerifyKeeps ==
  ASSUME FilesInv, NEW s \in Sessions, MoveVerify(s)
  PROVE  FilesInv'
<1>1. /\ lease[s] \in Leases /\ busy = s /\ ~lease[s].aborted
      /\ lease[s].op = "move" /\ lease[s] # NoLease /\ lease[s].pc = "verify"
  <2>1. At(s, {"move"}, "verify") /\ "verify" \notin Waiting /\ "none" \notin {"move"}
    BY DEF MoveVerify, Waiting
  <2> QED
    BY <2>1, Running
<1>2. VerifyInv(lease[s])
  BY <1>1 DEF FilesInv, CallInv
<1>3. Counted'
  BY FaultCounted DEF MoveVerify
<1>4. /\ busy' = s /\ start' = start /\ disturbed' = disturbed /\ UNCHANGED disk /\ obs' = obs
      /\ start' \in [Paths -> Nat] /\ disturbed' \in SUBSET Paths
  BY <1>1 DEF MoveVerify, Stay, FilesInv, TypeInv
<1>5. DiskTyped' /\ Grows /\ NamesTyped'
  BY <1>4, DiskSame
<1>6. CASE Goto(s, "unlink")
  <2>1. /\ Carries(s) /\ lease'[s].pc = "unlink" /\ lease'[s].linked = lease[s].linked
        /\ lease'[s].done = lease[s].done
    BY <1>1, <1>6, Goes DEF FilesInv, InFlight
  <2>2. TypeInv' /\ ThreadInv' /\ LeaseInv' /\ ObservationInv'
    BY <1>1, <1>3, <1>4, <1>5, <2>1, Continues DEF InFlight
  <2>3. VerifyInv(lease[s])'
    BY <1>2, <1>4, <2>1 DEF VerifyInv, Linked, Undisturbed, Holds, ContentOf, Carries, disk
  <2> QED
    BY <1>4, <2>1, <2>2, <2>3 DEF FilesInv, CallInv
<1>7. CASE \E report \in {"stale", "aborted", "io"} : GiveUp(s, "rollback", report)
  <2>1. /\ Carries(s) /\ lease'[s].pc = "rollback" /\ lease'[s].report # "ok"
        /\ lease'[s].linked = lease[s].linked /\ lease'[s].done = lease[s].done
    BY <1>1, <1>7, GivesUp DEF FilesInv, InFlight, Reports
  <2>2. TypeInv' /\ ThreadInv' /\ LeaseInv' /\ ObservationInv'
    BY <1>1, <1>3, <1>4, <1>5, <2>1, Continues DEF InFlight
  <2>3. RollbackInv(lease[s])'
    BY <1>2, <1>4, <2>1 DEF VerifyInv, RollbackInv, Linked, Carries, disk
  <2> QED
    BY <1>4, <2>1, <2>2, <2>3 DEF FilesInv, CallInv
<1> QED
  BY <1>6, <1>7 DEF MoveVerify

LEMMA MoveUnlinkKeeps ==
  ASSUME FilesInv, NEW s \in Sessions, MoveUnlink(s)
  PROVE  FilesInv'
<1> DEFINE p == lease[s].path  q == lease[s].to  g == lease[s].guard
<1>1. /\ lease[s] \in Leases /\ busy = s /\ p \in Paths /\ q \in Paths /\ ~lease[s].aborted
      /\ lease[s].op = "move" /\ lease[s] # NoLease /\ lease[s].pc = "unlink"
  <2>1. At(s, {"move"}, "unlink") /\ "unlink" \notin Waiting /\ "none" \notin {"move"}
    BY DEF MoveUnlink, Waiting
  <2> QED
    BY <2>1, Running
<1>2. VerifyInv(lease[s]) /\ p # q /\ IsVersion(g)
  BY <1>1, MoveNames DEF FilesInv, CallInv
<1>3. Counted'
  BY FaultCounted DEF MoveUnlink
<1>4. /\ busy' = s /\ start' = start /\ disturbed' = disturbed /\ obs' = obs
      /\ start' \in [Paths -> Nat] /\ disturbed' \in SUBSET Paths
  BY <1>1 DEF MoveUnlink, Stay, FilesInv, TypeInv
<1>5. CASE /\ dir[p] # 0
           /\ dir' = [dir EXCEPT ![p] = 0]
           /\ Touch(dir[p])
           /\ lease' = [lease EXCEPT ![s].pc = "moved", ![s].linked = FALSE, ![s].done = TRUE]
           /\ UNCHANGED temp
  <2>1. /\ dir \in [Paths -> {0} \cup DOMAIN stamps] /\ temp \in {0} \cup DOMAIN stamps
        /\ dir[p] \in DOMAIN stamps
    BY <1>1, <1>5 DEF FilesInv, TypeInv
  <2>2. /\ DiskTyped' /\ Grows /\ DOMAIN stamps' = DOMAIN stamps
        /\ \A i \in DOMAIN stamps : contents'[stamps'[i]] = contents[stamps[i]]
    BY <1>5, <2>1, LinkCounted
  <2>3. NamesTyped'
    BY <1>1, <1>5, <2>1, <2>2 DEF NamesTyped
  <2>4. /\ Carries(s) /\ lease'[s].pc = "moved" /\ ~lease'[s].linked /\ lease'[s].done
    BY <1>1, <1>5 DEF Carries, Leases, FilesInv, TypeInv, InFlight
  <2>5. TypeInv' /\ ThreadInv' /\ LeaseInv' /\ ObservationInv'
    BY <1>1, <1>3, <1>4, <2>2, <2>3, <2>4, Continues DEF InFlight
  <2>6. MovedInv(lease[s])'
    <3>1. dir'[q] = dir[q]
      BY <1>1, <1>2, <1>5, <2>1
    <3>2. lease'[s].path = p /\ lease'[s].to = q /\ lease'[s].guard = g
      BY <2>4 DEF Carries
    <3>3. Holds(g[1], ContentOf(g)) => Holds(g[1], ContentOf(g))'
      BY <1>2, <2>2, <3>2 DEF Holds, ContentOf, IsVersion, Grows
    <3>4. disturbed = {} => dir' = [start EXCEPT ![p] = 0, ![q] = start[p]]
      <4>1. SUFFICES ASSUME disturbed = {} PROVE dir' = [start EXCEPT ![p] = 0, ![q] = start[p]]
        OBVIOUS
      <4>2. dir = [start EXCEPT ![q] = start[p]] /\ start \in [Paths -> Nat]
        BY <1>2, <4>1 DEF VerifyInv, Linked, FilesInv, TypeInv
      <4> QED
        BY <1>1, <1>2, <1>5, <4>2
    <3> QED
      BY <1>1, <1>2, <1>4, <2>4, <3>1, <3>2, <3>3, <3>4 DEF VerifyInv, MovedInv, Undisturbed, Carries
  <2> QED
    BY <1>4, <2>4, <2>5, <2>6 DEF FilesInv, CallInv
<1>6. CASE UNCHANGED disk /\ \E report \in {"missing", "io"} : GiveUp(s, "rollback", report)
  <2>1. /\ Carries(s) /\ lease'[s].pc = "rollback" /\ lease'[s].report # "ok"
        /\ lease'[s].linked = lease[s].linked /\ lease'[s].done = lease[s].done
    BY <1>1, <1>6, GivesUp DEF FilesInv, InFlight, Reports
  <2>2. TypeInv' /\ ThreadInv' /\ LeaseInv' /\ ObservationInv'
    BY <1>1, <1>3, <1>4, <1>6, <2>1, DiskSame, Continues DEF InFlight
  <2>3. RollbackInv(lease[s])'
    BY <1>2, <1>4, <1>6, <2>1 DEF VerifyInv, RollbackInv, Linked, Carries, disk
  <2> QED
    BY <1>4, <2>1, <2>2, <2>3 DEF FilesInv, CallInv
<1> QED
  BY <1>5, <1>6 DEF MoveUnlink

LEMMA MoveReportKeeps ==
  ASSUME FilesInv, NEW s \in Sessions, MoveReport(s)
  PROVE  FilesInv'
<1> DEFINE p == lease[s].path  q == lease[s].to  g == lease[s].guard
<1>1. /\ lease[s] \in Leases /\ busy = s /\ p \in Paths /\ q \in Paths /\ ~lease[s].aborted
      /\ lease[s].op = "move" /\ lease[s] # NoLease /\ lease[s].pc = "moved"
  <2>1. At(s, {"move"}, "moved") /\ "moved" \notin Waiting /\ "none" \notin {"move"}
    BY DEF MoveReport, Waiting
  <2> QED
    BY <2>1, Running
<1>2. MovedInv(lease[s]) /\ p # q /\ IsVersion(g)
  BY <1>1, MoveNames DEF FilesInv, CallInv
<1>3. Counted' /\ UNCHANGED disk
  BY FaultCounted DEF MoveReport
<1>4. DiskTyped' /\ Grows /\ NamesTyped'
  BY <1>3, DiskSame
<1>5. CASE /\ dir[q] # 0
           /\ obs' = [obs EXCEPT ![s][p] = NotSeen,
                       ![s][q] = Observation("content", Version(q),
                                   IF q \in disturbed \/ p \in disturbed THEN Unknown
                                   ELSE ContentOf(lease[s].guard))]
           /\ End(s, "ok")
  <2> DEFINE o == Observation("content", Version(q),
                    IF q \in disturbed \/ p \in disturbed THEN Unknown ELSE ContentOf(g))
  <2>1. /\ Version(q) \in Versions /\ IsVersion(Version(q))
        /\ ContentOf(Version(q)) = contents[stamps[dir[q]]]
    BY <1>1, <1>5, NamedVersion DEF FilesInv
  <2>2. ContentOf(g) \in Nat
    BY <1>2 DEF IsVersion, ContentOf, FilesInv, TypeInv
  <2>3. /\ o \in Observations /\ o.version = Version(q)
        /\ o.shown # Unknown => ContentOf(Version(q)) = o.shown
    BY <1>2, <2>1, <2>2
       DEF Observation, Observations, MovedInv, Undisturbed, Holds, Unknown
  <2>4. obs' = [obs EXCEPT ![s][p] = NotSeen, ![s][q] = o]
    BY <1>5
  <2> HIDE DEF o
  <2>5. SeenTyped'
    BY <1>1, <2>3, <2>4 DEF SeenTyped, FilesInv, TypeInv
  <2>6. ObservationInv'
    <3>1. ASSUME NEW t \in Sessions, NEW r \in Paths, obs'[t][r].state = "content"
          PROVE  /\ IsVersion(obs[t][r].version)'
                 /\ (obs[t][r].shown # Unknown => ContentOf(obs[t][r].version) = obs[t][r].shown)'
      <4>1. CASE t = s /\ r = q
        <5>1. obs'[t][r] = o
          BY <1>1, <2>4, <4>1 DEF FilesInv, TypeInv
        <5> QED
          BY <1>3, <2>1, <2>3, <5>1 DEF IsVersion, ContentOf, disk
      <4>2. CASE t = s /\ r = p
        <5>1. obs'[t][r] = NotSeen
          BY <1>1, <1>2, <2>4, <4>2 DEF FilesInv, TypeInv
        <5> QED
          BY <3>1, <5>1 DEF NotSeen
      <4>3. CASE ~(t = s /\ r \in {p, q})
        <5>1. obs'[t][r] = obs[t][r]
          BY <1>1, <2>4, <4>3 DEF FilesInv, TypeInv
        <5> QED
          BY <1>4, <3>1, <5>1, VersionsKept DEF FilesInv, ObservationInv
      <4> QED
        BY <4>1, <4>2, <4>3
    <3> QED
      BY <3>1 DEF ObservationInv
  <2> QED
    BY <1>1, <1>3, <1>4, <1>5, <2>5, <2>6, Ends
<1>6. CASE Stay /\ UNCHANGED obs /\ \E report \in {"missing", "io"} : GiveUp(s, "rollback", report)
  <2>1. /\ Carries(s) /\ lease'[s].pc = "rollback" /\ lease'[s].report # "ok"
        /\ lease'[s].linked = lease[s].linked /\ lease'[s].done = lease[s].done
    BY <1>1, <1>6, GivesUp DEF FilesInv, InFlight, Reports
  <2>2. /\ busy' = s /\ start' \in [Paths -> Nat] /\ disturbed' \in SUBSET Paths
    BY <1>1, <1>6 DEF Stay, FilesInv, TypeInv
  <2>3. TypeInv' /\ ThreadInv' /\ LeaseInv' /\ ObservationInv'
    BY <1>1, <1>3, <1>4, <1>6, <2>1, <2>2, Continues DEF InFlight
  <2>4. RollbackInv(lease[s])'
    BY <1>2, <2>1 DEF MovedInv, RollbackInv, Carries
  <2> QED
    BY <2>1, <2>2, <2>3, <2>4 DEF FilesInv, CallInv
<1> QED
  BY <1>5, <1>6 DEF MoveReport

LEMMA MoveRollbackKeeps ==
  ASSUME FilesInv, NEW s \in Sessions, MoveRollback(s)
  PROVE  FilesInv'
<1> DEFINE q == lease[s].to
<1>1. /\ lease[s] \in Leases /\ busy = s /\ q \in Paths
  <2>1. At(s, {"move"}, "rollback") /\ "rollback" \notin Waiting /\ "none" \notin {"move"}
    BY DEF MoveRollback, Waiting
  <2> QED
    BY <2>1, Running
<1>2. Counted'
  BY FaultCounted DEF MoveRollback
<1>3. CASE \E report \in {"io", lease[s].report} : Fail(s, report)
  BY <1>1, <1>2, <1>3, Fails
<1>4. CASE /\ dir' = [dir EXCEPT ![q] = 0]
           /\ IF dir[q] = 0 THEN UNCHANGED <<stamps, contents>> ELSE Touch(dir[q])
           /\ End(s, lease[s].report)
           /\ UNCHANGED <<temp, obs>>
  <2>1. dir \in [Paths -> {0} \cup DOMAIN stamps] /\ temp \in {0} \cup DOMAIN stamps
    BY DEF FilesInv, TypeInv
  <2>2. DiskTyped' /\ Grows /\ DOMAIN stamps' = DOMAIN stamps
    <3>1. DiskTyped
      BY DEF FilesInv, TypeInv, DiskTyped
    <3>2. UNCHANGED <<stamps, contents>> \/ (dir[q] \in DOMAIN stamps /\ Touch(dir[q]))
      BY <1>1, <1>4, <2>1
    <3> QED
      BY <3>1, <3>2, DiskKept, Touched
  <2>3. NamesTyped'
    BY <1>1, <1>4, <2>1, <2>2 DEF NamesTyped
  <2> QED
    BY <1>1, <1>2, <1>4, <2>2, <2>3, ObservationsKept, Ends
<1> QED
  BY <1>3, <1>4 DEF MoveRollback

-----------------------------------------------------------------------------
(* deleteFile *)

LEMMA DeleteCheckKeeps ==
  ASSUME FilesInv, NEW s \in Sessions, DeleteCheck(s)
  PROVE  FilesInv'
<1> DEFINE p == lease[s].path
<1>1. /\ lease[s] \in Leases /\ busy \in {s, Nobody} /\ Counted' /\ p \in Paths
      /\ lease[s].op = "delete" /\ lease[s] # NoLease /\ lease[s].pc = "ready"
  <2>1. /\ At(s, {"delete"}, "ready") /\ UNCHANGED counts /\ "none" \notin {"delete"}
        /\ TypeInv /\ ThreadInv /\ LeaseInv
    BY DEF DeleteCheck, FilesInv
  <2> QED
    BY <2>1, AtStep, CountsKept
<1>2. CASE \E report \in {"aborted", "missing", "stale"} : Fail(s, report)
  BY <1>1, <1>2, Fails
<1>3. CASE /\ ~Aborted(s) /\ Version(p) = lease[s].guard
           /\ Enter(s) /\ Goto(s, "delete") /\ UNCHANGED <<disk, obs>>
  <2>1. /\ Carries(s) /\ lease'[s].pc = "delete" /\ lease'[s].done = lease[s].done
    BY <1>1, <1>3, Goes DEF FilesInv, InFlight
  <2>2. DiskTyped' /\ Grows /\ NamesTyped'
    BY <1>3, DiskSame
  <2>3. busy' = s /\ start' = dir /\ disturbed' = {} /\ start' \in [Paths -> Nat]
    BY <1>3, EntersFromNames DEF FilesInv
  <2>4. TypeInv' /\ ThreadInv' /\ LeaseInv' /\ ObservationInv'
    BY <1>1, <1>3, <2>1, <2>2, <2>3, Continues DEF Aborted, InFlight
  <2>5. DeleteInv(lease[s])'
    <3>1. ~lease[s].done
      BY <1>1 DEF FilesInv, LeaseInv, Waiting
    <3>2. Version(p)' = Version(p)
      BY <1>3, <2>1 DEF Version, VersionOf, disk, Carries
    <3>3. dir' = dir
      BY <1>3 DEF disk
    <3> QED
      BY <1>1, <1>3, <2>1, <2>3, <3>1, <3>2, <3>3 DEF DeleteInv, StillThere, Guards, Carries
  <2> QED
    BY <2>1, <2>3, <2>4, <2>5 DEF FilesInv, CallInv
<1> QED
  BY <1>2, <1>3 DEF DeleteCheck

LEMMA DeleteUnlinkKeeps ==
  ASSUME FilesInv, NEW s \in Sessions, DeleteUnlink(s)
  PROVE  FilesInv'
<1> DEFINE p == lease[s].path
<1>1. /\ lease[s] \in Leases /\ busy = s /\ p \in Paths
  <2>1. At(s, {"delete"}, "delete") /\ "delete" \notin Waiting /\ "none" \notin {"delete"}
    BY DEF DeleteUnlink, Waiting
  <2> QED
    BY <2>1, Running
<1>2. Counted'
  BY FaultCounted DEF DeleteUnlink
<1>3. CASE Fail(s, "missing") \/ Fail(s, "io")
  BY <1>1, <1>2, <1>3, Fails
<1>4. CASE /\ dir[p] # 0
           /\ dir' = [dir EXCEPT ![p] = 0]
           /\ Touch(dir[p])
           /\ Observe(s, p, NotSeen)
           /\ End(s, "ok")
           /\ UNCHANGED temp
  <2>1. /\ dir \in [Paths -> {0} \cup DOMAIN stamps] /\ temp \in {0} \cup DOMAIN stamps
        /\ dir[p] \in DOMAIN stamps
    BY <1>1, <1>4 DEF FilesInv, TypeInv
  <2>2. DiskTyped' /\ Grows /\ DOMAIN stamps' = DOMAIN stamps
    BY <1>4, <2>1, LinkCounted
  <2>3. NamesTyped'
    BY <1>1, <1>4, <2>1, <2>2 DEF NamesTyped
  <2>4. SeenTyped'
    BY <1>1, <1>4 DEF SeenTyped, Observe, FilesInv, TypeInv
  <2>5. ObservationInv'
    <3>1. ASSUME NEW t \in Sessions, NEW r \in Paths, obs'[t][r].state = "content"
          PROVE  /\ IsVersion(obs[t][r].version)'
                 /\ (obs[t][r].shown # Unknown => ContentOf(obs[t][r].version) = obs[t][r].shown)'
      <4>1. obs'[t][r] = obs[t][r]
        BY <1>1, <1>4, <3>1 DEF Observe, NotSeen, FilesInv, TypeInv
      <4> QED
        BY <2>2, <3>1, <4>1, VersionsKept DEF FilesInv, ObservationInv
    <3> QED
      BY <3>1 DEF ObservationInv
  <2> QED
    BY <1>1, <1>2, <1>4, <2>2, <2>3, <2>4, <2>5, Ends
<1> QED
  BY <1>3, <1>4 DEF DeleteUnlink

-----------------------------------------------------------------------------
(* Leases that no call runs yet, and the crash *)

LEMMA PrepareKeeps ==
  ASSUME FilesInv, NEW s \in Sessions, NEW op \in Ops, NEW p \in Paths, NEW q \in Paths,
         Prepare(s, op, p, q)
  PROVE  FilesInv'
<1> DEFINE l == [op |-> op, path |-> p, to |-> q, guard |-> Guard(s, op, p),
                 aborted |-> FALSE, pc |-> "ready", seen |-> NoVersion, shown |-> Unknown,
                 file |-> 0, linked |-> FALSE, done |-> FALSE, report |-> "none"]
<1>1. /\ busy = Nobody /\ Guarded(s, op, p, q) /\ ((op = "move") <=> (p # q))
      /\ lease' = [lease EXCEPT ![s] = l] /\ calls' = calls + 1
      /\ UNCHANGED <<disk, obs, busy, start, disturbed, foreign, faults>>
  BY DEF Prepare
<1>2. obs[s][p] \in Observations \cup {NotSeen}
  BY DEF FilesInv, TypeInv
<1>3. op \in {"write", "edit", "delete", "move"} => obs[s][p] \in Observations
  <2>1. op \in {"edit", "delete", "move"} => obs[s][p] # NotSeen
    <3>1. op \in {"edit", "delete", "move"} => obs[s][p].state = "content"
      BY <1>1 DEF Guarded
    <3>2. NotSeen.state # "content"
      BY DEF NotSeen
    <3> QED
      BY <3>1, <3>2
  <2>2. op = "write" => obs[s][p] # NotSeen
    BY <1>1 DEF Guarded
  <2> QED
    BY <1>2, <2>1, <2>2
<1>4. Guard(s, op, p) \in Versions
  <2>1. NoVersion \in Versions
    BY DEF NoVersion, Versions
  <2>2. op \notin {"stat", "read", "legacy", "create"} => obs[s][p] \in Observations
    BY <1>3, OpAssumption
  <2> QED
    BY <2>1, <2>2 DEF Guard, WriteGuard, Observations
<1>5. op \in {"edit", "delete", "move"} => IsVersion(Guard(s, op, p))
  <2>1. op \in {"edit", "delete", "move"} => obs[s][p].state = "content"
    BY <1>1 DEF Guarded
  <2>2. op \in {"edit", "delete", "move"} => IsVersion(obs[s][p].version)
    BY <2>1 DEF FilesInv, ObservationInv
  <2> QED
    BY <2>1, <2>2 DEF Guard, WriteGuard
<1>6. l \in Leases /\ l # NoLease
  <2>1. l \in Leases
    BY <1>4 DEF Leases, NoVersion, Versions, Unknown, Waiting, Reports
  <2>2. l.op # "none"
    BY OpAssumption
  <2> QED
    BY <2>1, <2>2 DEF NoLease
<1>7. l.op = op /\ l.path = p /\ l.to = q /\ l.guard = Guard(s, op, p) /\ l.pc = "ready"
      /\ ~l.done /\ ~l.linked
  OBVIOUS
<1> HIDE DEF l
<1>8. /\ lease' \in [Sessions -> Leases \cup {NoLease}] /\ lease'[s] = l
      /\ \A t \in Sessions \ {s} : lease'[t] = lease[t]
  BY <1>1, <1>6 DEF FilesInv, TypeInv
<1>9. UNCHANGED <<dir, stamps, contents, temp>> /\ Grows
  BY <1>1, DiskSame DEF disk
<1>10. TypeInv'
  BY <1>1, <1>8, <1>9 DEF FilesInv, TypeInv
<1>11. ThreadInv'
  BY <1>1, <1>7, <1>8, SessionAssumption DEF FilesInv, ThreadInv, InFlight
<1>12. LeaseInv'
  <2>1. ASSUME NEW t \in Sessions, lease'[t] # NoLease
        PROVE  /\ lease'[t].op \in {"edit", "delete", "move"} => IsVersion(lease[t].guard)'
               /\ (lease'[t].op = "move") <=> (lease'[t].path # lease'[t].to)
               /\ lease'[t].pc = "plan" => lease'[t].op = "edit"
               /\ lease'[t].pc \in Waiting => ~lease'[t].done /\ ~lease'[t].linked
    <3>1. CASE t = s
      BY <1>1, <1>5, <1>7, <1>8, <1>9, <3>1 DEF IsVersion
    <3>2. CASE t # s
      BY <1>8, <1>9, <2>1, <3>2 DEF FilesInv, LeaseInv, IsVersion
    <3> QED
      BY <3>1, <3>2
  <2> QED
    BY <2>1 DEF LeaseInv
<1>13. ObservationInv'
  BY <1>1, <1>9, ObservationsKept
<1>14. CallInv'
  BY <1>1, SessionAssumption DEF CallInv
<1> QED
  BY <1>10, <1>11, <1>12, <1>13, <1>14 DEF FilesInv

LEMMA DisposeLeaseKeeps ==
  ASSUME FilesInv, NEW s \in Sessions, DisposeLease(s)
  PROVE  FilesInv'
<1>1. /\ busy = Nobody /\ lease' = [lease EXCEPT ![s] = NoLease]
      /\ UNCHANGED <<disk, obs, busy, start, disturbed, counts>>
  BY DEF DisposeLease
<1>2. /\ lease' \in [Sessions -> Leases \cup {NoLease}] /\ lease'[s] = NoLease
      /\ \A t \in Sessions \ {s} : lease'[t] = lease[t]
  BY <1>1 DEF FilesInv, TypeInv
<1>3. UNCHANGED <<dir, stamps, contents, temp>> /\ Grows
  BY <1>1, DiskSame DEF disk
<1>4. TypeInv'
  BY <1>1, <1>2, <1>3 DEF FilesInv, TypeInv, counts
<1>5. ThreadInv'
  BY <1>1, <1>2, SessionAssumption DEF FilesInv, ThreadInv
<1>6. LeaseInv'
  <2>1. ASSUME NEW t \in Sessions, lease'[t] # NoLease
        PROVE  lease'[t] = lease[t]
    BY <1>2, <2>1
  <2> QED
    BY <1>3, <2>1 DEF FilesInv, LeaseInv, IsVersion
<1>7. ObservationInv'
  BY <1>1, <1>3, ObservationsKept
<1>8. CallInv'
  BY <1>1, SessionAssumption DEF CallInv
<1> QED
  BY <1>4, <1>5, <1>6, <1>7, <1>8 DEF FilesInv

LEMMA CancelKeeps ==
  ASSUME FilesInv, NEW s \in Sessions, Cancel(s)
  PROVE  FilesInv'
<1>1. /\ busy = Nobody /\ lease[s].op # "none"
      /\ lease' = [lease EXCEPT ![s].aborted = TRUE]
      /\ UNCHANGED <<disk, obs, busy, start, disturbed, counts>>
  BY DEF Cancel
<1>2. lease[s] \in Leases /\ lease[s] # NoLease
  BY <1>1, LeaseOp DEF FilesInv
<1>3. /\ lease' \in [Sessions -> Leases \cup {NoLease}]
      /\ \A t \in Sessions \ {s} : lease'[t] = lease[t]
      /\ lease'[s].op = lease[s].op /\ lease'[s].path = lease[s].path
      /\ lease'[s].to = lease[s].to /\ lease'[s].guard = lease[s].guard
      /\ lease'[s].pc = lease[s].pc /\ lease'[s].done = lease[s].done
      /\ lease'[s].linked = lease[s].linked
  BY <1>1, <1>2 DEF FilesInv, TypeInv, Leases
<1>4. UNCHANGED <<dir, stamps, contents, temp>> /\ Grows
  BY <1>1, DiskSame DEF disk
<1>5. TypeInv'
  BY <1>1, <1>3, <1>4 DEF FilesInv, TypeInv, counts
<1>6. ThreadInv'
  <2>1. \A t \in Sessions : ~(lease[t] # NoLease /\ lease[t].pc \in InFlight)
    BY <1>1, SessionAssumption DEF FilesInv, ThreadInv
  <2>2. \A t \in Sessions : ~(lease'[t] # NoLease /\ lease'[t].pc \in InFlight)
    BY <1>2, <1>3, <2>1
  <2> QED
    BY <1>1, <2>2, SessionAssumption DEF ThreadInv
<1>7. LeaseInv'
  <2>1. ASSUME NEW t \in Sessions, lease'[t] # NoLease
        PROVE  /\ lease'[t].op \in {"edit", "delete", "move"} => IsVersion(lease[t].guard)'
               /\ (lease'[t].op = "move") <=> (lease'[t].path # lease'[t].to)
               /\ lease'[t].pc = "plan" => lease'[t].op = "edit"
               /\ lease'[t].pc \in Waiting => ~lease'[t].done /\ ~lease'[t].linked
    <3>1. CASE t = s
      BY <1>2, <1>3, <1>4, <3>1 DEF FilesInv, LeaseInv, IsVersion
    <3>2. CASE t # s
      BY <1>3, <1>4, <2>1, <3>2 DEF FilesInv, LeaseInv, IsVersion
    <3> QED
      BY <3>1, <3>2
  <2> QED
    BY <2>1 DEF LeaseInv
<1>8. ObservationInv'
  BY <1>1, <1>4, ObservationsKept
<1>9. CallInv'
  BY <1>1, SessionAssumption DEF CallInv
<1> QED
  BY <1>5, <1>6, <1>7, <1>8, <1>9 DEF FilesInv

LEMMA CrashKeeps ==
  ASSUME FilesInv, Crash
  PROVE  FilesInv'
<1>1. /\ obs' = [s \in Sessions |-> [p \in Paths |-> NotSeen]]
      /\ lease' = [s \in Sessions |-> NoLease]
      /\ busy' = Nobody /\ start' = NoNames /\ disturbed' = {} /\ temp' = 0
      /\ UNCHANGED <<dir, stamps, contents>>
  BY DEF Crash, Leave
<1>2. Counted'
  BY FaultCounted DEF Crash
<1>3. TypeInv'
  BY <1>1, <1>2 DEF FilesInv, TypeInv, Counted, NoNames
<1>4. ThreadInv' /\ LeaseInv' /\ CallInv'
  BY <1>1, SessionAssumption DEF ThreadInv, LeaseInv, CallInv
<1>5. ObservationInv'
  BY <1>1 DEF ObservationInv, NotSeen
<1> QED
  BY <1>3, <1>4, <1>5 DEF FilesInv

-----------------------------------------------------------------------------
(* Programs outside the harness *)

(* What a step of another program may do to a call in flight: a name it     *)
(* touched never has a version any file had before, every other name, and   *)
(* a file without a name, is as it was.                                    *)
Beside(touched) ==
  /\ \A p \in Paths \ touched :
       dir'[p] = dir[p] /\ (dir[p] # 0 => stamps'[dir[p]] = stamps[dir[p]])
  /\ \A p \in touched : ~IsVersion(Version(p)')
  /\ \A ino \in DOMAIN stamps : (\A p \in Paths : dir[p] # ino) =>
       stamps'[ino] = stamps[ino] /\ \A p \in Paths : dir'[p] # ino

LEMMA HoldsOn ==
  ASSUME FilesInv, Grows, NEW ino, NEW c, Holds(ino, c), stamps'[ino] = stamps[ino]
  PROVE  ino \in DOMAIN stamps' /\ contents'[stamps'[ino]] = c
<1>1. ino \in DOMAIN stamps /\ stamps[ino] \in DOMAIN contents
  BY DEF Holds, FilesInv, TypeInv
<1> QED
  BY <1>1 DEF Holds, Grows

LEMMA ForeignKeeps ==
  ASSUME FilesInv, NEW touched \in SUBSET Paths, touched # {}, ForeignStep(touched),
         Beside(touched), Grows, DiskTyped', dir' \in [Paths -> {0} \cup DOMAIN stamps']
  PROVE  FilesInv'
<1>1. /\ foreign' = foreign + 1
      /\ disturbed' = IF busy = Nobody THEN disturbed ELSE disturbed \cup touched
      /\ UNCHANGED <<temp, obs, lease, busy, start, last, calls, faults>>
  BY DEF ForeignStep
<1>2. ObservationInv' /\ SeenTyped'
  BY <1>1, ObservationsKept
<1>3. temp' \in {0} \cup DOMAIN stamps'
  BY <1>1 DEF FilesInv, TypeInv, Grows
<1>4. TypeInv'
  BY <1>1, <1>2, <1>3 DEF FilesInv, TypeInv, DiskTyped, SeenTyped
<1>5. ThreadInv'
  BY <1>1 DEF FilesInv, ThreadInv
<1>6. LeaseInv'
  <2>1. \A t \in Sessions : IsVersion(lease[t].guard) => IsVersion(lease[t].guard)'
    BY <1>1 DEF IsVersion, Grows
  <2> QED
    BY <1>1, <2>1 DEF FilesInv, LeaseInv
<1>7. CallInv'
  <2> DEFINE l == lease[busy]
  <2>1. SUFFICES ASSUME busy \in Sessions
                 PROVE  /\ l.pc \in {"read", "recheck"}  => ReadInv(l)'
                        /\ l.pc \in {"stage", "publish"} => StageInv(l)'
                        /\ l.pc = "report"   => ReportInv(l)'
                        /\ l.pc = "cleanup"  => CleanupInv(l)'
                        /\ l.pc = "link"     => LinkInv(l)'
                        /\ l.pc \in {"verify", "unlink"} => VerifyInv(l)'
                        /\ l.pc = "moved"    => MovedInv(l)'
                        /\ l.pc = "rollback" => RollbackInv(l)'
                        /\ l.pc = "delete"   => DeleteInv(l)'
    BY <1>1 DEF CallInv
  <2>2. l' = l /\ l \in Leases /\ l.path \in Paths /\ l.to \in Paths
    <3>1. l # NoLease
      BY <2>1 DEF FilesInv, ThreadInv
    <3> QED
      BY <1>1, <2>1, <3>1 DEF FilesInv, TypeInv, Leases
  <2>3. disturbed' = disturbed \cup touched /\ disturbed' # {}
    BY <1>1, <2>1, SessionAssumption
  <2>4. ASSUME NEW p \in Paths, Undisturbed(p)'
        PROVE  Undisturbed(p) /\ dir'[p] = dir[p]
               /\ (dir[p] # 0 => stamps'[dir[p]] = stamps[dir[p]]) /\ Version(p)' = Version(p)
    <3>1. Undisturbed(p) /\ p \notin touched
      BY <2>3, <2>4 DEF Undisturbed
    <3> QED
      BY <3>1 DEF Beside, Version, VersionOf
  <2>5. StillThere' /\ Published(l.path)' /\ Linked(l)'
    BY <2>3 DEF StillThere, Published, Linked
  <2>6. \A v : IsVersion(v) => IsVersion(v)' /\ ContentOf(v)' = ContentOf(v)
    BY DEF IsVersion, ContentOf, Grows
  <2>7. 0 \notin DOMAIN stamps /\ dir \in [Paths -> {0} \cup DOMAIN stamps]
    BY DEF FilesInv, TypeInv
  <2>8. l.op = "move" => IsVersion(l.guard)
    BY <2>1, MoveNames DEF FilesInv, ThreadInv
  <2>9. CallInv
    BY DEF FilesInv
  <2> HIDE DEF l
  <2>10. ASSUME l.pc \in {"read", "recheck"} PROVE ReadInv(l)'
    <3>1. ReadInv(l)
      BY <2>1, <2>9, <2>10 DEF CallInv, l
    <3>2. l.pc = "recheck" => (Version(l.path)' = l.seen => l.shown = ContentOf(l.seen)')
      <4>1. SUFFICES ASSUME l.pc = "recheck", Version(l.path)' = l.seen
                     PROVE  l.shown = ContentOf(l.seen)'
        OBVIOUS
      <4>2. l.path \notin touched
        BY <2>2, <3>1, <4>1 DEF ReadInv, Beside
      <4>3. Version(l.path)' = Version(l.path)
        BY <2>2, <4>2 DEF Beside, Version, VersionOf
      <4> QED
        BY <2>2, <2>6, <3>1, <4>1, <4>3 DEF ReadInv, ContentOf
    <3>3. IsVersion(l.seen)'
      BY <2>2, <2>6, <3>1 DEF ReadInv, IsVersion
    <3> QED
      BY <2>2, <2>5, <3>1, <3>2, <3>3 DEF ReadInv, ContentOf
  <2>11. ASSUME l.pc \in {"stage", "publish"} PROVE StageInv(l)'
    <3>1. StageInv(l)
      BY <2>1, <2>9, <2>11 DEF CallInv, l
    <3>2. Undisturbed(l.path)' => Version(l.path)' = l.guard
      BY <2>2, <2>4, <3>1 DEF StageInv, Guards, Undisturbed
    <3>3. l.pc = "publish" => Holds(temp, l.shown)' /\ \A p \in Paths : dir'[p] # temp
      <4>1. SUFFICES ASSUME l.pc = "publish"
                     PROVE  Holds(temp, l.shown)' /\ \A p \in Paths : dir'[p] # temp
        OBVIOUS
      <4>2. Holds(temp, l.shown) /\ temp \in DOMAIN stamps /\ \A p \in Paths : dir[p] # temp
        BY <3>1, <4>1 DEF StageInv, Holds
      <4>3. stamps'[temp] = stamps[temp] /\ \A p \in Paths : dir'[p] # temp
        BY <4>2 DEF Beside
      <4>4. temp \in DOMAIN stamps' /\ contents'[stamps'[temp]] = l.shown
        BY <4>2, <4>3, HoldsOn
      <4> QED
        BY <1>1, <2>2, <4>3, <4>4 DEF Holds
    <3> QED
      BY <1>1, <2>2, <2>5, <3>1, <3>2, <3>3 DEF StageInv, Guards
  <2>12. ASSUME l.pc = "report" PROVE ReportInv(l)'
    <3>1. ReportInv(l)
      BY <2>1, <2>9, <2>12 DEF CallInv, l
    <3>2. Undisturbed(l.path)' => Holds(dir[l.path], l.shown)'
      <4>1. SUFFICES ASSUME Undisturbed(l.path)' PROVE Holds(dir[l.path], l.shown)'
        OBVIOUS
      <4>2. Holds(dir[l.path], l.shown) /\ dir[l.path] # 0
        BY <2>2, <2>4, <2>7, <3>1, <4>1 DEF ReportInv, Holds
      <4>3. dir'[l.path] = dir[l.path] /\ stamps'[dir[l.path]] = stamps[dir[l.path]]
        BY <2>2, <2>4, <4>1, <4>2
      <4>4. dir[l.path] \in DOMAIN stamps' /\ contents'[stamps'[dir[l.path]]] = l.shown
        BY <4>2, <4>3, HoldsOn
      <4> QED
        BY <2>2, <4>3, <4>4 DEF Holds
    <3> QED
      BY <2>2, <2>5, <3>1, <3>2 DEF ReportInv
  <2>13. ASSUME l.pc = "cleanup" PROVE CleanupInv(l)'
    <3>1. CleanupInv(l)
      BY <2>1, <2>9, <2>13 DEF CallInv, l
    <3>2. IsVersion(l.seen) => IsVersion(l.seen)' /\ ContentOf(l.seen)' = ContentOf(l.seen)
      BY <2>2, <2>6 DEF IsVersion, ContentOf
    <3>3. Undisturbed(l.path)' => Undisturbed(l.path)
      BY <2>2, <2>4
    <3> QED
      BY <2>2, <2>5, <3>1, <3>2, <3>3 DEF CleanupInv, ContentOf
  <2>14. ASSUME l.pc = "link" PROVE LinkInv(l)'
    <3>1. LinkInv(l)
      BY <2>1, <2>9, <2>14 DEF CallInv, l
    <3>2. Undisturbed(l.path)' => Version(l.path)' = l.guard
      BY <2>2, <2>4, <3>1 DEF LinkInv, Guards, Undisturbed
    <3> QED
      BY <2>2, <2>3, <2>5, <3>1, <3>2 DEF LinkInv, Guards
  <2>15. ASSUME l.pc \in {"verify", "unlink"} PROVE VerifyInv(l)'
    <3>1. VerifyInv(l) /\ IsVersion(l.guard)
      BY <2>1, <2>8, <2>9, <2>15 DEF CallInv, VerifyInv, l
    <3>2. Undisturbed(l.path)' => dir'[l.path] = l.guard[1] /\ Holds(l.guard[1], ContentOf(l.guard))'
      <4>1. SUFFICES ASSUME Undisturbed(l.path)'
                     PROVE  dir'[l.path] = l.guard[1] /\ Holds(l.guard[1], ContentOf(l.guard))'
        OBVIOUS
      <4>2. /\ dir[l.path] = l.guard[1] /\ Holds(l.guard[1], ContentOf(l.guard))
            /\ dir[l.path] # 0
        BY <2>2, <2>4, <2>7, <3>1, <4>1 DEF VerifyInv, Holds
      <4>3. dir'[l.path] = l.guard[1] /\ stamps'[l.guard[1]] = stamps[l.guard[1]]
        BY <2>2, <2>4, <4>1, <4>2
      <4>4. /\ l.guard[1] \in DOMAIN stamps'
            /\ contents'[stamps'[l.guard[1]]] = ContentOf(l.guard)
        BY <4>2, <4>3, HoldsOn
      <4>5. ContentOf(l.guard)' = ContentOf(l.guard)
        BY <2>2, <2>6, <3>1 DEF ContentOf
      <4> QED
        BY <2>2, <4>3, <4>4, <4>5 DEF Holds
    <3>3. Undisturbed(l.path)' /\ Undisturbed(l.to)' => dir'[l.to] = l.guard[1]
      BY <2>2, <2>4, <3>1 DEF VerifyInv
    <3> QED
      BY <2>2, <2>5, <3>1, <3>2, <3>3 DEF VerifyInv
  <2>16. ASSUME l.pc = "moved" PROVE MovedInv(l)'
    <3>1. MovedInv(l) /\ IsVersion(l.guard)
      BY <2>1, <2>8, <2>9, <2>16 DEF CallInv, MovedInv, l
    <3>2. Undisturbed(l.path)' /\ Undisturbed(l.to)' =>
            dir'[l.to] = l.guard[1] /\ Holds(l.guard[1], ContentOf(l.guard))'
      <4>1. SUFFICES ASSUME Undisturbed(l.path)', Undisturbed(l.to)'
                     PROVE  dir'[l.to] = l.guard[1] /\ Holds(l.guard[1], ContentOf(l.guard))'
        OBVIOUS
      <4>2. /\ dir[l.to] = l.guard[1] /\ Holds(l.guard[1], ContentOf(l.guard))
            /\ dir[l.to] # 0
        BY <2>2, <2>4, <2>7, <3>1, <4>1 DEF MovedInv, Holds
      <4>3. dir'[l.to] = l.guard[1] /\ stamps'[l.guard[1]] = stamps[l.guard[1]]
        BY <2>2, <2>4, <4>1, <4>2
      <4>4. /\ l.guard[1] \in DOMAIN stamps'
            /\ contents'[stamps'[l.guard[1]]] = ContentOf(l.guard)
        BY <4>2, <4>3, HoldsOn
      <4>5. ContentOf(l.guard)' = ContentOf(l.guard)
        BY <2>2, <2>6, <3>1 DEF ContentOf
      <4> QED
        BY <2>2, <4>3, <4>4, <4>5 DEF Holds
    <3> QED
      BY <2>2, <2>3, <3>1, <3>2 DEF MovedInv
  <2>17. ASSUME l.pc = "rollback" PROVE RollbackInv(l)'
    <3>1. RollbackInv(l)
      BY <2>1, <2>9, <2>17 DEF CallInv, l
    <3> QED
      BY <2>2, <2>5, <3>1 DEF RollbackInv
  <2>18. ASSUME l.pc = "delete" PROVE DeleteInv(l)'
    <3>1. DeleteInv(l)
      BY <2>1, <2>9, <2>18 DEF CallInv, l
    <3>2. Undisturbed(l.path)' => Version(l.path)' = l.guard
      BY <2>2, <2>4, <3>1 DEF DeleteInv, Guards, Undisturbed
    <3> QED
      BY <2>2, <2>5, <3>1, <3>2 DEF DeleteInv, Guards
  <2> QED
    BY <2>10, <2>11, <2>12, <2>13, <2>14, <2>15, <2>16, <2>17, <2>18
<1> QED
  BY <1>2, <1>4, <1>5, <1>6, <1>7 DEF FilesInv

LEMMA ForeignWriteKeeps ==
  ASSUME FilesInv, NEW p \in Paths, ForeignWrite(p)
  PROVE  FilesInv'
<1> DEFINE touched == {q \in Paths : dir[q] = dir[p]}
<1>1. /\ ForeignStep(touched) /\ dir[p] # 0 /\ dir' = dir
      /\ stamps' = [stamps EXCEPT ![dir[p]] = Len(contents) + 1]
      /\ contents' = Append(contents, Len(contents) + 1)
  BY DEF ForeignWrite
<1>2. DiskTyped /\ dir[p] \in DOMAIN stamps /\ Len(contents) + 1 \in Nat
      /\ dir \in [Paths -> {0} \cup DOMAIN stamps]
  BY <1>1 DEF FilesInv, TypeInv, DiskTyped
<1>3. /\ DiskTyped' /\ Grows /\ DOMAIN stamps' = DOMAIN stamps
      /\ \A i \in DOMAIN stamps : i # dir[p] => stamps'[i] = stamps[i]
      /\ stamps'[dir[p]] \notin DOMAIN contents
  BY <1>1, <1>2, Restamped
<1>4. touched \in SUBSET Paths /\ p \in touched
  OBVIOUS
<1>5. Beside(touched)
  <2>1. \A q \in touched : ~IsVersion(Version(q)')
    BY <1>1, <1>3 DEF IsVersion, Version, VersionOf
  <2> QED
    BY <1>1, <1>2, <1>3, <2>1 DEF Beside
<1> HIDE DEF touched
<1> QED
  BY <1>1, <1>2, <1>3, <1>4, <1>5, ForeignKeeps

LEMMA ForeignReplaceKeeps ==
  ASSUME FilesInv, NEW p \in Paths, ForeignReplace(p)
  PROVE  FilesInv'
<1>1. ForeignStep({p}) /\ NewInode /\ dir' = [dir EXCEPT ![p] = Len(stamps) + 1]
  BY DEF ForeignReplace
<1>2. dir \in [Paths -> {0} \cup DOMAIN stamps]
  BY DEF FilesInv, TypeInv
<1>3. /\ DiskTyped' /\ Grows /\ Len(stamps) + 1 \in DOMAIN stamps'
      /\ Len(stamps) + 1 \notin {0} \cup DOMAIN stamps
      /\ \A i \in {0} \cup DOMAIN stamps : i \in {0} \cup DOMAIN stamps'
      /\ \A i \in DOMAIN stamps : stamps'[i] = stamps[i]
  BY <1>1, FileMade
<1>4. /\ dir'[p] = Len(stamps) + 1 /\ \A q \in Paths \ {p} : dir'[q] = dir[q]
      /\ dir' \in [Paths -> {0} \cup DOMAIN stamps']
  BY <1>1, <1>2, <1>3
<1>5. Beside({p})
  <2>1. ~IsVersion(Version(p)')
    BY <1>3, <1>4 DEF IsVersion, Version, VersionOf
  <2> QED
    BY <1>2, <1>3, <1>4, <2>1 DEF Beside
<1> QED
  BY <1>1, <1>3, <1>4, <1>5, ForeignKeeps

LEMMA ForeignRemoveKeeps ==
  ASSUME FilesInv, NEW p \in Paths, ForeignRemove(p)
  PROVE  FilesInv'
<1>1. /\ ForeignStep({p}) /\ dir' = [dir EXCEPT ![p] = 0] /\ UNCHANGED <<stamps, contents>>
  BY DEF ForeignRemove
<1>2. /\ dir \in [Paths -> {0} \cup DOMAIN stamps] /\ DiskTyped /\ 0 \notin DOMAIN stamps
  BY DEF FilesInv, TypeInv, DiskTyped
<1>3. DiskTyped' /\ Grows
  BY <1>1, <1>2, DiskKept
<1>4. /\ dir'[p] = 0 /\ \A q \in Paths \ {p} : dir'[q] = dir[q]
      /\ dir' \in [Paths -> {0} \cup DOMAIN stamps']
  BY <1>1, <1>2
<1>5. Beside({p})
  <2>1. ~IsVersion(Version(p)')
    BY <1>2, <1>4 DEF IsVersion, Version, VersionOf, NoVersion
  <2> QED
    BY <1>1, <1>2, <1>4, <2>1 DEF Beside
<1> QED
  BY <1>1, <1>3, <1>4, <1>5, ForeignKeeps

-----------------------------------------------------------------------------
(* The initial states *)

LEMMA InitEstablishes == Init => FilesInv
<1> SUFFICES ASSUME Init PROVE FilesInv
  OBVIOUS
<1> DEFINE n == Cardinality({p \in Paths : dir[p] # 0})
<1>1. n \in Nat /\ Cardinality(Paths) \in Nat
  <2>1. {p \in Paths : dir[p] # 0} \subseteq Paths
    OBVIOUS
  <2> QED
    BY <2>1, PathAssumption, FS_Subset, FS_CardinalityType
<1>2. /\ stamps = [i \in 1 .. n |-> i] /\ contents = stamps /\ temp = 0
      /\ lease = [s \in Sessions |-> NoLease] /\ busy = Nobody
      /\ start = NoNames /\ disturbed = {}
      /\ calls = 0 /\ foreign = 0 /\ faults = 0
  BY DEF Init
<1>3. dir \in [Paths -> 0 .. Cardinality(Paths)] /\ {dir[p] : p \in Paths} \ {0} = 1 .. n
  BY DEF Init
<1> HIDE DEF n
<1>4. /\ stamps \in Seq(Nat) /\ contents \in Seq(Nat)
      /\ DOMAIN stamps = 1 .. n /\ DOMAIN contents = 1 .. n
      /\ \A i \in DOMAIN stamps : stamps[i] = i /\ stamps[i] \in DOMAIN contents
  BY <1>1, <1>2
<1>5. dir \in [Paths -> {0} \cup DOMAIN stamps]
  BY <1>3, <1>4
<1>6. ASSUME NEW p \in Paths, dir[p] # 0
      PROVE  /\ Version(p) \in Versions /\ IsVersion(Version(p))
             /\ ContentOf(Version(p)) \in Nat
  BY <1>1, <1>4, <1>5, <1>6 DEF Version, VersionOf, IsVersion, Versions, ContentOf
<1>7. SeenTyped /\ ObservationInv
  <2>1. CASE obs = [s \in Sessions |-> [p \in Paths |-> NotSeen]]
    BY <2>1 DEF SeenTyped, ObservationInv, NotSeen
  <2>2. CASE obs = [s \in Sessions |-> [p \in Paths |->
                 IF dir[p] = 0 THEN Observation("absent", NoVersion, Unknown)
                 ELSE Observation("content", Version(p), ContentOf(Version(p)))]]
    <3>1. ASSUME NEW s \in Sessions, NEW p \in Paths
          PROVE  /\ obs[s][p] \in Observations
                 /\ obs[s][p].state = "content" =>
                      /\ IsVersion(obs[s][p].version)
                      /\ ContentOf(obs[s][p].version) = obs[s][p].shown
      <4>1. CASE dir[p] = 0
        BY <2>2, <3>1, <4>1 DEF Observation, Observations, NoVersion, Versions, Unknown
      <4>2. CASE dir[p] # 0
        BY <1>6, <2>2, <3>1, <4>2 DEF Observation, Observations
      <4> QED
        BY <4>1, <4>2
    <3> QED
      BY <2>2, <3>1 DEF SeenTyped, ObservationInv
  <2> QED
    BY <2>1, <2>2 DEF Init
<1>8. TypeInv
  BY <1>2, <1>4, <1>5, <1>7 DEF TypeInv, SeenTyped, NoNames
<1>9. ThreadInv /\ LeaseInv /\ CallInv
  BY <1>2, SessionAssumption DEF ThreadInv, LeaseInv, CallInv
<1> QED
  BY <1>7, <1>8, <1>9 DEF FilesInv

LEMMA StepKeeps ==
  ASSUME FilesInv, [Next]_vars
  PROVE  FilesInv'
<1>1. CASE \E s \in Sessions, op \in Ops, p, q \in Paths : Prepare(s, op, p, q)
  BY <1>1, PrepareKeeps
<1>2. CASE \E s \in Sessions : DisposeLease(s) \/ Cancel(s)
  BY <1>2, DisposeLeaseKeeps, CancelKeeps
<1>3. ASSUME NEW s \in Sessions, Step(s) PROVE FilesInv'
  BY <1>3, StatPathKeeps, ReadBeforeKeeps, ReadContentKeeps, ReadAfterKeeps, EditEndsKeep,
     CheckTargetKeeps, StageTempKeeps, PublishKeeps, ReportWriteKeeps, CleanupKeeps,
     MoveCheckKeeps, MoveLinkKeeps, MoveVerifyKeeps, MoveUnlinkKeeps, MoveReportKeeps,
     MoveRollbackKeeps, DeleteCheckKeeps, DeleteUnlinkKeeps DEF Step
<1>4. CASE \E p \in Paths : ForeignWrite(p) \/ ForeignReplace(p) \/ ForeignRemove(p)
  BY <1>4, ForeignWriteKeeps, ForeignReplaceKeeps, ForeignRemoveKeeps
<1>5. CASE Crash
  BY <1>5, CrashKeeps
<1>6. CASE UNCHANGED vars
  <2>1. UNCHANGED <<dir, stamps, contents, temp, obs, lease, busy, start, disturbed,
                    calls, foreign, faults>>
    BY <1>6 DEF vars
  <2>2. TypeInv' /\ ThreadInv' /\ LeaseInv' /\ ObservationInv'
    BY <2>1 DEF FilesInv, TypeInv, ThreadInv, LeaseInv, ObservationInv, IsVersion, ContentOf
  <2>3. /\ ReadInv(lease[busy])' = ReadInv(lease[busy])
        /\ StageInv(lease[busy])' = StageInv(lease[busy])
        /\ ReportInv(lease[busy])' = ReportInv(lease[busy])
        /\ CleanupInv(lease[busy])' = CleanupInv(lease[busy])
        /\ RollbackInv(lease[busy])' = RollbackInv(lease[busy])
    BY <2>1 DEF ReadInv, StageInv, ReportInv, CleanupInv, RollbackInv, StillThere, Published,
       Linked, Guards, Undisturbed, Holds, IsVersion, ContentOf, Version, VersionOf
  <2>4. /\ LinkInv(lease[busy])' = LinkInv(lease[busy])
        /\ VerifyInv(lease[busy])' = VerifyInv(lease[busy])
        /\ MovedInv(lease[busy])' = MovedInv(lease[busy])
        /\ DeleteInv(lease[busy])' = DeleteInv(lease[busy])
    BY <2>1 DEF LinkInv, VerifyInv, MovedInv, DeleteInv, StillThere, Linked, Guards,
       Undisturbed, Holds, ContentOf, Version, VersionOf
  <2>5. CallInv'
    BY <2>1, <2>3, <2>4 DEF FilesInv, CallInv
  <2> QED
    BY <2>2, <2>5 DEF FilesInv
<1> QED
  BY <1>1, <1>2, <1>3, <1>4, <1>5, <1>6 DEF Next

(* The names and the contents compare with what each call was given, and    *)
(* with what it began from, as the points of the calls say.                *)
THEOREM FilesAreInvariant == Spec => []FilesInv
<1> QED
  BY InitEstablishes, StepKeeps, PTL DEF Spec

-----------------------------------------------------------------------------
(* What the observations claim *)

(* Proves HonestObservation: the content a session is said to know is that  *)
(* of the version it is said to know it of (FileObservationPolicy).        *)
THEOREM ObservationsAreHonest == Spec => []HonestObservation
<1>1. FilesInv => HonestObservation
  BY DEF FilesInv, ObservationInv, HonestObservation
<1> QED
  BY <1>1, FilesAreInvariant, PTL

-----------------------------------------------------------------------------
(* Who changes the names *)

Renames(s) ==
  Publish(s) \/ MoveLink(s) \/ MoveUnlink(s) \/ MoveRollback(s) \/ DeleteUnlink(s)

LEMMA OthersLeaveNames ==
  ASSUME NEW s, Step(s), ~Renames(s)
  PROVE  dir' = dir
<1>1. CASE StatPath(s)
  BY <1>1 DEF StatPath, Fail, disk
<1>2. CASE ReadBefore(s)
  BY <1>2 DEF ReadBefore, Fail, disk
<1>3. CASE ReadContent(s)
  BY <1>3 DEF ReadContent, Fail, disk
<1>4. CASE ReadAfter(s)
  BY <1>4 DEF ReadAfter, Fail, disk
<1>5. CASE EditStale(s) \/ EditRefused(s)
  BY <1>5 DEF EditStale, EditRefused, Fail, disk
<1>6. CASE CheckTarget(s)
  BY <1>6 DEF CheckTarget, Fail, disk
<1>7. CASE StageTemp(s) \/ Cleanup(s)
  BY <1>7 DEF StageTemp, Cleanup
<1>8. CASE ReportWrite(s)
  BY <1>8 DEF ReportWrite, disk
<1>9. CASE MoveCheck(s)
  BY <1>9 DEF MoveCheck, Fail, disk
<1>10. CASE MoveVerify(s)
  BY <1>10 DEF MoveVerify, disk
<1>11. CASE MoveReport(s)
  BY <1>11 DEF MoveReport, disk
<1>12. CASE DeleteCheck(s)
  BY <1>12 DEF DeleteCheck, Fail, disk
<1> QED
  BY <1>1, <1>2, <1>3, <1>4, <1>5, <1>6, <1>7, <1>8, <1>9, <1>10, <1>11, <1>12
     DEF Step, Renames

(* Of a session's steps only those that rename or unlink change the names.  *)
LEMMA NamesChangedBy ==
  ASSUME FilesInv, Next, foreign' = foreign, dir' # dir
  PROVE  \E s \in Sessions : Renames(s)
<1>1. foreign + 1 # foreign
  BY DEF FilesInv, TypeInv
<1>2. ~\E p \in Paths : ForeignWrite(p) \/ ForeignReplace(p) \/ ForeignRemove(p)
  BY <1>1 DEF ForeignWrite, ForeignReplace, ForeignRemove, ForeignStep
<1>3. ~\E s \in Sessions : (\E op \in Ops, p, q \in Paths : Prepare(s, op, p, q))
                           \/ DisposeLease(s) \/ Cancel(s)
  BY DEF Prepare, DisposeLease, Cancel, disk
<1>4. ~Crash
  BY DEF Crash
<1>5. PICK s \in Sessions : Step(s)
  BY <1>2, <1>3, <1>4 DEF Next
<1> QED
  BY <1>5, OthersLeaveNames

(* The step is one of the session that holds the thread, on its own lease.  *)
LEMMA RenamerRuns ==
  ASSUME FilesInv, NEW s \in Sessions, Renames(s)
  PROVE  /\ lease[s] \in Leases /\ lease[s] # NoLease /\ ~lease[s].aborted /\ busy = s
         /\ lease[s].path \in Paths /\ lease[s].to \in Paths
         /\ busy' \in {s, Nobody}
         /\ \A t \in Sessions \ {s} : lease'[t] = lease[t]
<1>1. PICK ops \in {Writers, {"move"}, {"delete"}},
           pc \in {"publish", "link", "unlink", "rollback", "delete"} : At(s, ops, pc)
  BY DEF Renames, Publish, MoveLink, MoveUnlink, MoveRollback, DeleteUnlink
<1>2. "none" \notin ops /\ pc \notin Waiting
  BY DEF Writers, Waiting
<1>3. /\ lease[s] \in Leases /\ lease[s] # NoLease /\ ~lease[s].aborted /\ busy = s
      /\ lease[s].path \in Paths /\ lease[s].to \in Paths
  BY <1>1, <1>2, Running
<1>4. lease \in [Sessions -> Leases \cup {NoLease}]
  BY DEF FilesInv, TypeInv
<1>5. CASE Publish(s)
  BY <1>3, <1>4, <1>5 DEF Publish, GiveUp, Stay
<1>6. CASE MoveLink(s)
  BY <1>3, <1>4, <1>6 DEF MoveLink, Fail, End, Leave, Stay
<1>7. CASE MoveUnlink(s)
  BY <1>3, <1>4, <1>7 DEF MoveUnlink, GiveUp, Stay
<1>8. CASE MoveRollback(s)
  BY <1>3, <1>4, <1>8 DEF MoveRollback, Fail, End, Leave
<1>9. CASE DeleteUnlink(s)
  BY <1>3, <1>4, <1>9 DEF DeleteUnlink, Fail, End, Leave
<1> QED
  BY <1>3, <1>5, <1>6, <1>7, <1>8, <1>9 DEF Renames

LEMMA WorkRenames ==
  ASSUME FilesInv, Next, NEW s \in Sessions, Works(s), dir' # dir
  PROVE  Renames(s)
<1>1. PICK t \in Sessions : Renames(t)
  BY NamesChangedBy DEF Works
<1>2. /\ busy = t /\ busy' \in {t, Nobody}
      /\ \A r \in Sessions \ {t} : lease'[r] = lease[r]
  BY <1>1, RenamerRuns
<1>3. t = s
  BY <1>2, SessionAssumption DEF Works
<1> QED
  BY <1>1, <1>3

(* Proves CancelPublishesNothing: a call that was cancelled while it waited *)
(* changes no name afterwards (every operation reads its signal first).    *)
THEOREM CancelledCallsPublishNothing == Spec => CancelPublishesNothing
<1>1. ASSUME FilesInv, [Next]_vars
      PROVE  [\A s \in Sessions :
                (Works(s) /\ lease[s].aborted) => \A p \in Paths : dir'[p] = dir[p]]_vars
  <2>1. SUFFICES ASSUME Next, NEW s \in Sessions, Works(s), lease[s].aborted, dir' # dir
                 PROVE  FALSE
    BY <1>1
  <2> QED
    BY <1>1, <2>1, WorkRenames, RenamerRuns
<1> QED
  BY <1>1, FilesAreInvariant, PTL DEF Spec, CancelPublishesNothing

(* Proves ObservedOnly: what a call takes from its name is what its session *)
(* had observed when the call was prepared (#publish, moveFile, deleteFile).*)
THEOREM OnlyObservedFilesGo == Spec => ObservedOnly
<1> DEFINE Goal(s, p) ==
      /\ lease[s].guard # NoVersion /\ p = lease[s].path
      /\ \/ p \in disturbed
         \/ ContentOf(Version(p)) = ContentOf(lease[s].guard)
<1>1. ASSUME FilesInv, Next, NEW s \in Sessions, NEW p \in Paths,
             Works(s), Displaced(p), lease[s].pc # "rollback"
      PROVE  Goal(s, p)
  <2>1. Renames(s) /\ dir[p] # 0 /\ dir'[p] # dir[p]
    BY <1>1, WorkRenames DEF Displaced
  <2>2. /\ lease[s] \in Leases /\ lease[s] # NoLease /\ busy = s
        /\ lease[s].path \in Paths /\ lease[s].to \in Paths
    BY <1>1, <2>1, RenamerRuns
  <2>3. dir \in [Paths -> {0} \cup DOMAIN stamps] /\ 0 \notin DOMAIN stamps /\ CallInv
    BY <1>1 DEF FilesInv, TypeInv
  <2>4. IsVersion(lease[s].guard) => lease[s].guard # NoVersion
    BY <2>3 DEF IsVersion, NoVersion
  <2>5. CASE Publish(s)
    <3>1. p = lease[s].path /\ ~Exclusive(s)
      BY <2>1, <2>2, <2>3, <2>5 DEF Publish, disk
    <3>2. StageInv(lease[s])
      BY <2>2, <2>3, <2>5 DEF Publish, At, CallInv
    <3> QED
      BY <3>1, <3>2 DEF StageInv, Guards, Undisturbed, Exclusive
  <2>6. CASE MoveLink(s)
    BY <2>1, <2>2, <2>3, <2>6 DEF MoveLink, Fail, disk
  <2>7. CASE MoveUnlink(s)
    <3>1. p = lease[s].path
      BY <2>1, <2>2, <2>3, <2>7 DEF MoveUnlink, disk
    <3>2. VerifyInv(lease[s])
      BY <2>2, <2>3, <2>7 DEF MoveUnlink, At, CallInv
    <3>3. IsVersion(lease[s].guard)
      BY <1>1, <2>2, <3>2, MoveNames DEF VerifyInv
    <3>4. ContentOf(Version(p)) = contents[stamps[dir[p]]]
      BY <1>1, <2>1, NamedVersion DEF FilesInv
    <3> QED
      BY <2>4, <3>1, <3>2, <3>3, <3>4 DEF VerifyInv, Undisturbed, Holds
  <2>8. CASE MoveRollback(s)
    BY <1>1, <2>8 DEF MoveRollback, At
  <2>9. CASE DeleteUnlink(s)
    <3>1. p = lease[s].path
      BY <2>1, <2>2, <2>3, <2>9 DEF DeleteUnlink, Fail, disk
    <3>2. DeleteInv(lease[s])
      BY <2>2, <2>3, <2>9 DEF DeleteUnlink, At, CallInv
    <3>3. IsVersion(lease[s].guard)
      BY <1>1, <2>2, <3>2 DEF DeleteInv, FilesInv, LeaseInv
    <3> QED
      BY <2>4, <3>1, <3>2, <3>3 DEF DeleteInv, Guards, Undisturbed
  <2> QED
    BY <2>1, <2>5, <2>6, <2>7, <2>8, <2>9 DEF Renames
<1>2. ASSUME FilesInv, [Next]_vars
      PROVE  [\A s \in Sessions, p \in Paths :
                (Works(s) /\ Displaced(p) /\ lease[s].pc # "rollback") =>
                  /\ lease[s].guard # NoVersion /\ p = lease[s].path
                  /\ \/ p \in disturbed
                     \/ ContentOf(Version(p)) = ContentOf(lease[s].guard)]_vars
  BY <1>1, <1>2
<1> QED
  BY <1>2, FilesAreInvariant, PTL DEF Spec, ObservedOnly

(* Proves MoveLosesNothing: the target is linked before the source is       *)
(* unlinked, and a rollback unlinks the target only while the source has    *)
(* its name (moveFile), so no file is left without one.                    *)
THEOREM MovesLoseNothing == Spec => MoveLosesNothing
<1>1. ASSUME FilesInv, Next, NEW s \in Sessions,
             lease[s].op = "move", busy = s, foreign' = foreign, disturbed = {}
      PROVE  Named \subseteq Named'
  <2> DEFINE p == lease[s].path  q == lease[s].to
  <2>1. CASE dir' = dir
    BY <2>1 DEF Named
  <2>2. CASE dir' # dir
    <3>1. PICK t \in Sessions : Renames(t)
      BY <1>1, <2>2, NamesChangedBy
    <3>2. t = s /\ lease[s] # NoLease /\ p \in Paths /\ q \in Paths
      BY <1>1, <3>1, RenamerRuns
    <3>3. p # q /\ dir \in [Paths -> {0} \cup DOMAIN stamps] /\ start \in [Paths -> Nat] /\ CallInv
      BY <1>1, <3>2, MoveNames DEF FilesInv, TypeInv
    <3>4. SUFFICES ASSUME NEW r \in Paths, dir[r] # 0 PROVE \E u \in Paths : dir'[u] = dir[r]
      BY DEF Named
    <3>5. CASE MoveLink(s)
      <4>1. dir[q] = 0 /\ dir' = [dir EXCEPT ![q] = dir[p]]
        BY <2>2, <3>5 DEF MoveLink, Fail, disk
      <4> QED
        BY <3>3, <3>4, <4>1
    <3>6. CASE MoveUnlink(s)
      <4>1. dir' = [dir EXCEPT ![p] = 0]
        BY <2>2, <3>6 DEF MoveUnlink, disk
      <4>2. VerifyInv(lease[s])
        BY <1>1, <3>3, <3>6 DEF MoveUnlink, At, CallInv
      <4>3. dir[q] = dir[p]
        BY <1>1, <3>2, <3>3, <4>2 DEF VerifyInv, Linked
      <4>4. dir'[q] = dir[p] /\ (r # p => dir'[r] = dir[r])
        BY <3>2, <3>3, <4>1, <4>3
      <4> QED
        BY <3>2, <4>4
    <3>7. CASE MoveRollback(s)
      <4>1. lease[s].linked /\ dir' = [dir EXCEPT ![q] = 0]
        BY <2>2, <3>7 DEF MoveRollback, Fail, disk
      <4>2. RollbackInv(lease[s])
        BY <1>1, <3>3, <3>7 DEF MoveRollback, At, CallInv
      <4>3. dir[q] = dir[p]
        BY <1>1, <3>2, <3>3, <4>1, <4>2 DEF RollbackInv, Linked
      <4>4. dir'[p] = dir[p] /\ (r # q => dir'[r] = dir[r])
        BY <3>2, <3>3, <4>1
      <4> QED
        BY <3>2, <4>3, <4>4
    <3>8. CASE Publish(s) \/ DeleteUnlink(s)
      BY <1>1, <3>8 DEF Publish, DeleteUnlink, At, Writers
    <3> QED
      BY <3>1, <3>2, <3>5, <3>6, <3>7, <3>8 DEF Renames
  <2> QED
    BY <2>1, <2>2
<1>2. ASSUME FilesInv, [Next]_vars
      PROVE  [\A s \in Sessions :
                (lease[s].op = "move" /\ busy = s /\ foreign' = foreign /\ disturbed = {}) =>
                  Named \subseteq Named']_vars
  BY <1>1, <1>2
<1> QED
  BY <1>2, FilesAreInvariant, PTL DEF Spec, MoveLosesNothing

-----------------------------------------------------------------------------
(* What a call that ends has done *)

(* A call that holds the thread can only end in one of these steps.         *)
LEMMA EndsIn ==
  ASSUME FilesInv, Next, NEW s \in Sessions,
         busy = s, Works(s), lease'[s].op = "none", last' # "crashed"
  PROVE  /\ lease[s] \in Leases /\ lease[s] # NoLease /\ ~lease[s].aborted
         /\ lease[s].path \in Paths /\ lease[s].to \in Paths
         /\ \/ ReadContent(s) \/ ReadAfter(s) \/ Cleanup(s) \/ MoveLink(s)
            \/ MoveReport(s) \/ MoveRollback(s) \/ DeleteUnlink(s)
<1>1. /\ lease[s] \in Leases /\ lease[s] # NoLease /\ ~lease[s].aborted
      /\ lease[s].path \in Paths /\ lease[s].to \in Paths /\ lease[s].op # "none"
      /\ lease \in [Sessions -> Leases \cup {NoLease}]
  BY LeaseOp DEF FilesInv, TypeInv, ThreadInv, Leases, Works
<1>2. busy # Nobody /\ foreign + 1 # foreign /\ foreign' = foreign
  BY SessionAssumption DEF FilesInv, TypeInv, Works
<1>3. ~\E p \in Paths : ForeignWrite(p) \/ ForeignReplace(p) \/ ForeignRemove(p)
  BY <1>2 DEF ForeignWrite, ForeignReplace, ForeignRemove, ForeignStep
<1>4. ~\E t \in Sessions : (\E op \in Ops, p, q \in Paths : Prepare(t, op, p, q))
                           \/ DisposeLease(t) \/ Cancel(t)
  BY <1>2 DEF Prepare, DisposeLease, Cancel
<1>5. ~Crash
  BY DEF Crash
<1>6. PICK t \in Sessions : Step(t)
  BY <1>3, <1>4, <1>5 DEF Next
<1>7. ~(StatPath(t) \/ ReadBefore(t) \/ EditStale(t) \/ EditRefused(t) \/ CheckTarget(t)
        \/ MoveCheck(t) \/ DeleteCheck(t))
  BY <1>2 DEF StatPath, ReadBefore, EditStale, EditRefused, CheckTarget, MoveCheck,
     DeleteCheck, At
<1>8. t = s
  <2>1. PICK pc \in InFlight : \E ops : At(t, ops, pc)
    <3>1. CASE ReadContent(t)
      BY <3>1 DEF ReadContent, InFlight
    <3>2. CASE ReadAfter(t)
      BY <3>2 DEF ReadAfter, InFlight
    <3>3. CASE StageTemp(t)
      BY <3>3 DEF StageTemp, InFlight
    <3>4. CASE Publish(t)
      BY <3>4 DEF Publish, InFlight
    <3>5. CASE ReportWrite(t)
      BY <3>5 DEF ReportWrite, InFlight
    <3>6. CASE Cleanup(t)
      BY <3>6 DEF Cleanup, InFlight
    <3>7. CASE MoveLink(t)
      BY <3>7 DEF MoveLink, InFlight
    <3>8. CASE MoveVerify(t)
      BY <3>8 DEF MoveVerify, InFlight
    <3>9. CASE MoveUnlink(t)
      BY <3>9 DEF MoveUnlink, InFlight
    <3>10. CASE MoveReport(t)
      BY <3>10 DEF MoveReport, InFlight
    <3>11. CASE MoveRollback(t)
      BY <3>11 DEF MoveRollback, InFlight
    <3>12. CASE DeleteUnlink(t)
      BY <3>12 DEF DeleteUnlink, InFlight
    <3> QED
      BY <1>6, <1>7, <3>1, <3>2, <3>3, <3>4, <3>5, <3>6, <3>7, <3>8, <3>9, <3>10, <3>11, <3>12
         DEF Step
  <2> QED
    BY <1>2, <2>1 DEF At
<1>9. ~(StageTemp(s) \/ Publish(s) \/ ReportWrite(s) \/ MoveVerify(s) \/ MoveUnlink(s))
  <2>1. CASE StageTemp(s)
    BY <1>1, <2>1 DEF StageTemp, Leases
  <2>2. CASE Publish(s)
    BY <1>1, <2>2 DEF Publish, GiveUp, Leases
  <2>3. CASE ReportWrite(s)
    BY <1>1, <2>3 DEF ReportWrite, GiveUp, Leases
  <2>4. CASE MoveVerify(s)
    BY <1>1, <2>4 DEF MoveVerify, GiveUp, Goto, Leases
  <2>5. CASE MoveUnlink(s)
    BY <1>1, <2>5 DEF MoveUnlink, GiveUp, Leases
  <2> QED
    BY <2>1, <2>2, <2>3, <2>4, <2>5
<1> QED
  BY <1>1, <1>6, <1>7, <1>8, <1>9 DEF Step

(* Proves AllOrNothing: an undisturbed call that ends has done to the names *)
(* what it promised, or nothing, whichever system call failed.             *)
THEOREM CallsDoAllOrNothing == Spec => AllOrNothing
<1> DEFINE Goal(s) ==
      /\ last' = "ok" => Effect(s, start, dir')
      /\ (last' # "ok" /\ ~lease[s].done /\ faults' = faults) => dir' = start
<1>1. ASSUME FilesInv, Next, NEW s \in Sessions, busy = s, Works(s),
             lease'[s].op = "none", disturbed = {}, last' # "crashed"
      PROVE  Goal(s)
  <2> DEFINE p == lease[s].path  q == lease[s].to
  <2>1. /\ lease[s] \in Leases /\ lease[s] # NoLease /\ p \in Paths /\ q \in Paths
        /\ lease \in [Sessions -> Leases \cup {NoLease}] /\ CallInv
        /\ dir \in [Paths -> {0} \cup DOMAIN stamps] /\ start \in [Paths -> Nat]
    BY <1>1, EndsIn DEF FilesInv, TypeInv
  <2>2. (Fault => faults' # faults)
    BY <1>1 DEF Fault, FilesInv, TypeInv
  <2>3. CASE ReadContent(s)
    <3>1. ReadInv(lease[s])
      BY <1>1, <2>1, <2>3 DEF ReadContent, At, CallInv
    <3>2. Fail(s, "missing") \/ Fail(s, "io")
      BY <1>1, <2>1, <2>3 DEF ReadContent, Works, Leases
    <3> QED
      BY <1>1, <3>1, <3>2 DEF ReadInv, StillThere, Fail, End, disk
  <2>4. CASE ReadAfter(s)
    <3>1. ReadInv(lease[s])
      BY <1>1, <2>1, <2>4 DEF ReadAfter, At, CallInv
    <3>2. dir' = start
      BY <1>1, <2>4, <3>1 DEF ReadAfter, ReadInv, StillThere, Fail, disk
    <3>3. last' = "ok" => lease[s].op = "read"
      BY <1>1, <2>1, <2>4 DEF ReadAfter, Fail, End, Goto, Works, Leases
    <3> QED
      BY <3>2, <3>3 DEF Effect
  <2>5. CASE Cleanup(s)
    <3>1. CleanupInv(lease[s]) /\ lease[s].op \in Writers
      BY <1>1, <2>1, <2>5 DEF Cleanup, At, CallInv
    <3>2. dir' = dir
      BY <2>5 DEF Cleanup
    <3>3. last' = "ok" => lease[s].done
      BY <2>5, <3>1 DEF Cleanup, End, CleanupInv
    <3>4. lease[s].done => dir'[p] \notin {0, start[p]} /\ dir' = [start EXCEPT ![p] = dir'[p]]
      BY <1>1, <3>1, <3>2 DEF CleanupInv, Published
    <3>5. lease[s].op \notin {"stat", "read", "delete", "move"}
      BY <3>1 DEF Writers
    <3>6. lease[s].done => Effect(s, start, dir')
      BY <3>4, <3>5 DEF Effect
    <3> QED
      BY <1>1, <3>1, <3>2, <3>3, <3>6 DEF CleanupInv, StillThere
  <2>6. CASE MoveLink(s)
    <3>1. LinkInv(lease[s])
      BY <1>1, <2>1, <2>6 DEF MoveLink, At, CallInv
    <3>2. \E report \in {"missing", "stale", "io"} : Fail(s, report)
      BY <1>1, <2>1, <2>6 DEF MoveLink, Works, Leases
    <3> QED
      BY <1>1, <3>1, <3>2 DEF LinkInv, StillThere, Fail, End, disk
  <2>7. CASE MoveReport(s)
    <3>1. MovedInv(lease[s]) /\ lease[s].op = "move" /\ lease[s].done
      BY <1>1, <2>1, <2>7 DEF MoveReport, At, CallInv, MovedInv
    <3>2. dir' = dir
      BY <2>7 DEF MoveReport, disk
    <3> QED
      BY <1>1, <3>1, <3>2 DEF MovedInv, Effect
  <2>8. CASE MoveRollback(s)
    <3>1. RollbackInv(lease[s]) /\ p # q
      BY <1>1, <2>1, <2>8, MoveNames DEF MoveRollback, At, CallInv, RollbackInv
    <3>2. last' # "ok"
      BY <2>8, <3>1 DEF MoveRollback, Fail, End, RollbackInv
    <3>3. ~lease[s].done /\ faults' = faults => dir' = [dir EXCEPT ![q] = 0] /\ Linked(lease[s])
      BY <2>2, <2>8, <3>1 DEF MoveRollback, RollbackInv
    <3> QED
      BY <1>1, <2>1, <3>2, <3>3 DEF Linked
  <2>9. CASE DeleteUnlink(s)
    <3>1. DeleteInv(lease[s])
      BY <1>1, <2>1, <2>9 DEF DeleteUnlink, At, CallInv
    <3>2. CASE Fail(s, "missing") \/ Fail(s, "io")
      BY <1>1, <3>1, <3>2 DEF DeleteInv, StillThere, Fail, End, disk
    <3>3. CASE dir' = [dir EXCEPT ![p] = 0] /\ End(s, "ok")
      BY <1>1, <3>1, <3>3 DEF DeleteInv, StillThere, End, Effect
    <3> QED
      BY <2>9, <3>2, <3>3 DEF DeleteUnlink
  <2> QED
    BY <1>1, <2>3, <2>4, <2>5, <2>6, <2>7, <2>8, <2>9, EndsIn
<1>2. ASSUME FilesInv, [Next]_vars
      PROVE  [\A s \in Sessions :
                (busy = s /\ Works(s) /\ lease'[s].op = "none" /\ disturbed = {} /\
                 last' # "crashed") =>
                  /\ last' = "ok" => Effect(s, start, dir')
                  /\ (last' # "ok" /\ ~lease[s].done /\ faults' = faults) => dir' = start]_vars
  BY <1>1, <1>2
<1> QED
  BY <1>2, FilesAreInvariant, PTL DEF Spec, AllOrNothing
=============================================================================
