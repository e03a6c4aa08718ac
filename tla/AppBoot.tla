------------------------------ MODULE AppBoot -------------------------------
(***************************************************************************)
(* Manifest reconciliation (src/harness/app-boot/src/index.ts).            *)
(*                                                                         *)
(* reconcile() chains its transaction behind the earlier ones; #apply      *)
(* validates, loads, disposes what is removed or replaced, mounts what is  *)
(* new and awaits the candidate graph; on a failure #rollback disposes the *)
(* candidates and mounts the retired plugins again.  Fibers belong to the  *)
(* Cordis package: between the steps of a transaction they start when the  *)
(* services they inject are there, load, fail, and stop when one of those  *)
(* services goes.  The bodies of plugins are left out: a plugin is the     *)
(* identity, revision and context it was loaded for, and provides one      *)
(* service, named like its entry and seen from every context.              *)
(***************************************************************************)
EXTENDS Naturals, Sequences, FiniteSets

CONSTANTS Ids,              \* entry identifiers
          Root,             \* the parent of an entry without parentId
          Needs,            \* the entries whose services an entry's plugin injects
          Manifests,        \* the manifests callers submit: sequences of entries
          MaxManifests,     \* bound: manifests submitted
          MaxFaults         \* bound: failures of external code

VARIABLES handles,          \* AppBoot.#handles
          configured,       \* AppBoot.#configuredIds
          fibers,           \* every fiber made so far (Cordis)
          submitted,        \* the manifests of the promise chain #transaction
          outcome,          \* how each settled manifest ended
          tx,               \* the locals of the running #apply
          faults            \* external failures so far

vars == <<handles, configured, fibers, submitted, outcome, tx, faults>>

NoHandle == [known |-> FALSE]
NoPlugin == [none |-> TRUE]
NoFiber  == 0
NoEntry  == <<>>
Idle     == [phase |-> "idle"]

-----------------------------------------------------------------------------
(* A manifest and its normal form *)

EntryIds(m) == {m[i].id : i \in DOMAIN m}
EntryOf(m, id) == m[CHOOSE i \in DOMAIN m : m[i].id = id]

(* A manifest lists finitely many entries, and no entry is its own Root:   *)
(* an entry below no other has no parentId at all.                         *)
ASSUME ManifestAssumption ==
  \A m \in Manifests : EntryIds(m) \subseteq Ids /\ IsFiniteSet(EntryIds(m))
ASSUME RootAssumption == Root \notin Ids
ASSUME NeedsAssumption == Needs \in [Ids -> SUBSET Ids]

(* An id and the entries above it, in a parent function closed under itself. *)
Ancestry(par, id) ==
  {a \in DOMAIN par : \A S \in SUBSET DOMAIN par :
     (id \in S /\ \A s \in S : par[s] \in S \cup {Root}) => a \in S}

Parents(m) == [id \in EntryIds(m) |-> EntryOf(m, id).parent]

Valid(m) ==
  /\ \A i, j \in DOMAIN m : m[i].id = m[j].id => i = j
  /\ \A i \in DOMAIN m : m[i].parent \in EntryIds(m) \cup {Root}
  /\ \A id \in EntryIds(m) :
       LET up == Parents(m)[id] IN up # Root => id \notin Ancestry(Parents(m), up)

Depth(par, id) == Cardinality(Ancestry(par, id)) - 1

Active(m) ==
  {id \in EntryIds(m) : \A a \in Ancestry(Parents(m), id) : EntryOf(m, a).enabled}

-----------------------------------------------------------------------------
(* What is mounted now *)

Handles == {id \in Ids : handles[id] # NoHandle}
Mounted == {id \in configured : handles[id].fiber # NoFiber}

OldParents == [id \in configured |-> handles[id].parent]
OldDepth(id) == Depth(OldParents, id)

SameAs(id, entry) ==
  handles[id].revision = entry.revision /\ handles[id].context = entry.context

RemovedIds(m) == Mounted \ Active(m)
UpdatedIds(m) == {id \in Active(m) \cap Mounted : ~SameAs(id, EntryOf(m, id))}
AddedIds(m)   == Active(m) \ Mounted

(* #loadChanged keeps the plugin object of a handle whose revision and    *)
(* context are the wanted ones, mounted or not, and loads the others.     *)
Cached(m, id) ==
  id \in Handles /\ handles[id].plugin # NoPlugin /\ SameAs(id, EntryOf(m, id))

PluginFor(m, id) ==
  LET entry == EntryOf(m, id) IN
  IF Cached(m, id)
    THEN handles[id].plugin
    ELSE [id |-> id, revision |-> entry.revision, context |-> entry.context]

-----------------------------------------------------------------------------
(* Fibers, as the pinned Cordis behaves towards this package *)

(* What a new fiber can inject is what the active ones provide.            *)
Provided == {fibers[f].id : f \in {g \in DOMAIN fibers : fibers[g].state = "active"}}
Runnable(id) == Needs[id] \subseteq Provided

NewFiber(plugin, context) ==
  [id |-> plugin.id, plugin |-> plugin, context |-> context,
   state |-> IF Runnable(plugin.id) THEN "loading" ELSE "pending"]

(* A fiber lives until it is disposed, or its disposal throws.             *)
Live == {f \in DOMAIN fibers : fibers[f].state \notin {"disposed", "broken"}}
SetState(f, s) == [fibers EXCEPT ![f].state = s]

Fault == faults < MaxFaults /\ faults' = faults + 1

(* await() waits while a fiber loads.  It resolves when the fiber is up and *)
(* also when a service is missing, so that the body has not run; it rejects *)
(* when the body threw.  Of a fiber that is disposed, or whose disposal     *)
(* threw, either may be the case.                                           *)
AwaitResolves(f) == fibers[f].state \in {"pending", "active", "disposed", "broken"}
AwaitRejects(f)  == fibers[f].state \in {"failed", "disposed", "broken"}

(* The services a pending fiber waits for are there. *)
FiberStarts(f) ==
  /\ fibers[f].state = "pending"
  /\ Runnable(fibers[f].id)
  /\ fibers' = SetState(f, "loading")
  /\ UNCHANGED <<handles, configured, submitted, outcome, tx, faults>>

(* A plugin body returns or throws. *)
FiberSettles(f) ==
  /\ fibers[f].state = "loading"
  /\ \/ fibers' = SetState(f, "active") /\ UNCHANGED faults
     \/ fibers' = SetState(f, "failed") /\ Fault
  /\ UNCHANGED <<handles, configured, submitted, outcome, tx>>

(* A service a fiber runs on is withdrawn: it waits for another provider. *)
FiberStops(f) ==
  /\ fibers[f].state \in {"loading", "active", "failed"}
  /\ ~Runnable(fibers[f].id)
  /\ fibers' = SetState(f, "pending")
  /\ UNCHANGED <<handles, configured, submitted, outcome, tx, faults>>

-----------------------------------------------------------------------------
(* reconcile *)

Reconcile(m) ==
  /\ Len(submitted) < MaxManifests
  /\ submitted' = Append(submitted, m)
  /\ UNCHANGED <<handles, configured, fibers, outcome, tx, faults>>

Current == submitted[Len(outcome) + 1]

Settle(how) ==
  /\ outcome' = Append(outcome, how)
  /\ tx' = Idle

(* The start of #apply: #normalize throws before anything is touched.      *)
BeginApply ==
  /\ tx = Idle
  /\ Len(outcome) < Len(submitted)
  /\ IF Valid(Current)
       THEN /\ tx' = [phase   |-> "load",
                      retire  |-> RemovedIds(Current) \cup UpdatedIds(Current),
                      mount   |-> UpdatedIds(Current) \cup AddedIds(Current),
                      plugins |-> [id \in UpdatedIds(Current) \cup AddedIds(Current)
                                     |-> PluginFor(Current, id)],
                      candidate |-> [id \in Mounted |-> handles[id].fiber],
                      fresh   |-> <<>>,
                      retired |-> {},
                      awaited |-> {},
                      errors  |-> 0]
            /\ UNCHANGED outcome
       ELSE Settle("rejected")
  /\ UNCHANGED <<handles, configured, fibers, submitted, faults>>

LoadPlugins ==
  /\ tx.phase = "load"
  /\ \/ tx' = [tx EXCEPT !.phase = "dispose"] /\ UNCHANGED <<outcome, faults>>
     \/ /\ \E id \in tx.mount : ~Cached(Current, id)
        /\ Fault
        /\ Settle("rejected")
  /\ UNCHANGED <<handles, configured, fibers, submitted>>

(* Mutant: what goes is disposed in the order of the old configuration. *)
AnyToRetire(id) ==
  /\ id \in tx.retire
  /\ tx.retire \ tx.mount # {} => id \in tx.retire \ tx.mount

(* Removals from the leaves up, then replacements from the roots down. *)
NextToRetire(id) ==
  LET removed == tx.retire \ tx.mount IN
  /\ id \in tx.retire
  /\ IF removed # {}
       THEN id \in removed /\ \A o \in removed : OldDepth(o) <= OldDepth(id)
       ELSE \A o \in tx.retire : Depth(Parents(Current), id) <= Depth(Parents(Current), o)

Without(f, id) == [x \in DOMAIN f \ {id} |-> f[x]]

DisposeOld(id) ==
  /\ tx.phase = "dispose"
  /\ NextToRetire(id)
  /\ \/ /\ fibers' = SetState(handles[id].fiber, "disposed")
        /\ tx' = [tx EXCEPT !.retire = @ \ {id}, !.retired = @ \cup {id},
                            !.candidate = Without(@, id)]
        /\ UNCHANGED faults
     \/ /\ Fault
        /\ fibers' = SetState(handles[id].fiber, "broken")
        /\ tx' = [tx EXCEPT !.phase = "undo"]
  /\ UNCHANGED <<handles, configured, submitted, outcome>>

AllDisposed ==
  /\ tx.phase = "dispose"
  /\ tx.retire = {}
  /\ tx' = [tx EXCEPT !.phase = "mount"]
  /\ UNCHANGED <<handles, configured, fibers, submitted, outcome, faults>>

(* Replacements before additions, each from the roots down. *)
NextToMount(id) ==
  LET first == IF tx.mount \cap Mounted # {} THEN tx.mount \cap Mounted ELSE tx.mount IN
  id \in first /\ \A o \in first :
    Depth(Parents(Current), id) <= Depth(Parents(Current), o)

MountNew(id) ==
  /\ tx.phase = "mount"
  /\ NextToMount(id)
  /\ \/ /\ fibers' = Append(fibers, NewFiber(tx.plugins[id], EntryOf(Current, id).context))
        /\ tx' = [tx EXCEPT !.mount = @ \ {id},
                            !.fresh = Append(@, Len(fibers) + 1),
                            !.candidate = [x \in DOMAIN @ \cup {id} |->
                               IF x = id THEN Len(fibers) + 1 ELSE @[x]]]
        /\ UNCHANGED faults
     \/ Fault /\ tx' = [tx EXCEPT !.phase = "undo"] /\ UNCHANGED fibers
  /\ UNCHANGED <<handles, configured, submitted, outcome>>

CandidateFibers == {tx.candidate[id] : id \in DOMAIN tx.candidate}

(* The fibers a rollback waits for: those never retired and those restored. *)
RestoredGraph == CandidateFibers \cup {handles[id].fiber : id \in Mounted \ tx.retired}

(* Promise.all over the graph: each await resolves on its own, and what its *)
(* fiber does afterwards is not looked at again.                            *)
AwaitedGraph == IF tx.phase = "mount" THEN CandidateFibers ELSE RestoredGraph

AwaitOne(f) ==
  /\ tx.phase \in {"mount", "restore"}
  /\ tx.mount = {}
  /\ f \in AwaitedGraph \ tx.awaited
  /\ AwaitResolves(f)
  /\ tx' = [tx EXCEPT !.awaited = @ \cup {f}]
  /\ UNCHANGED <<handles, configured, fibers, submitted, outcome, faults>>

(* The first await that rejects ends it, whatever the others still wait for. *)
AwaitFails == \E f \in AwaitedGraph \ tx.awaited : AwaitRejects(f)

-----------------------------------------------------------------------------
(* #commit *)

Forget(h) == [h EXCEPT !.enabled = FALSE, !.fiber = NoFiber]

(* Mutant: a disabled entry keeps its plugin whatever revision it is given. *)
CommittedHandleStale(m, id) ==
  LET entry == EntryOf(m, id) IN
  [known    |-> TRUE,
   parent   |-> entry.parent,
   revision |-> entry.revision,
   enabled  |-> entry.enabled,
   context  |-> entry.context,
   plugin   |-> IF id \in Active(m) THEN fibers[tx.candidate[id]].plugin
                ELSE IF handles[id] # NoHandle THEN handles[id].plugin ELSE NoPlugin,
   fiber    |-> IF id \in Active(m) THEN tx.candidate[id] ELSE NoFiber]

CommittedHandle(m, id) ==
  LET entry == EntryOf(m, id)
      kept  == IF handles[id] # NoHandle /\ SameAs(id, entry)
                 THEN handles[id].plugin ELSE NoPlugin
  IN [known    |-> TRUE,
      parent   |-> entry.parent,
      revision |-> entry.revision,
      enabled  |-> entry.enabled,
      context  |-> entry.context,
      plugin   |-> IF id \in Active(m) THEN fibers[tx.candidate[id]].plugin ELSE kept,
      fiber    |-> IF id \in Active(m) THEN tx.candidate[id] ELSE NoFiber]

(* Mutant: an entry that is no longer listed stays configured. *)
CommitAccumulating ==
  /\ tx.phase = "mount"
  /\ tx.mount = {}
  /\ AwaitedGraph \subseteq tx.awaited
  /\ handles' = [id \in Ids |->
       IF id \in EntryIds(Current) THEN CommittedHandle(Current, id)
       ELSE IF id \in configured THEN Forget(handles[id])
       ELSE handles[id]]
  /\ configured' = configured \cup EntryIds(Current)
  /\ Settle("committed")
  /\ UNCHANGED <<fibers, submitted, faults>>

Commit ==
  /\ tx.phase = "mount"
  /\ tx.mount = {}
  /\ AwaitedGraph \subseteq tx.awaited
  /\ handles' = [id \in Ids |->
       IF id \in EntryIds(Current) THEN CommittedHandle(Current, id)
       ELSE IF id \in configured THEN Forget(handles[id])
       ELSE handles[id]]
  /\ configured' = EntryIds(Current)
  /\ Settle("committed")
  /\ UNCHANGED <<fibers, submitted, faults>>

AwaitCandidateFails ==
  /\ tx.phase = "mount"
  /\ tx.mount = {}
  /\ AwaitFails
  /\ tx' = [tx EXCEPT !.phase = "undo"]
  /\ UNCHANGED <<handles, configured, fibers, submitted, outcome, faults>>

-----------------------------------------------------------------------------
(* #rollback: tx.fresh is undone newest first, then tx.retired is mounted  *)
(* again, oldest ancestor first; tx.candidate becomes the restored fibers. *)

UndoNew ==
  /\ tx.phase = "undo"
  /\ tx.fresh # <<>>
  /\ LET last == tx.fresh[Len(tx.fresh)]
         rest == SubSeq(tx.fresh, 1, Len(tx.fresh) - 1) IN
     \/ /\ fibers' = SetState(last, "disposed")
        /\ tx' = [tx EXCEPT !.fresh = rest]
        /\ UNCHANGED faults
     \/ /\ Fault
        /\ fibers' = SetState(last, "broken")
        /\ tx' = [tx EXCEPT !.fresh = rest, !.errors = @ + 1]
  /\ UNCHANGED <<handles, configured, submitted, outcome>>

StartRestore ==
  /\ tx.phase = "undo"
  /\ tx.fresh = <<>>
  /\ tx' = [tx EXCEPT !.phase = "restore", !.mount = tx.retired, !.candidate = NoEntry,
                      !.awaited = {}]
  /\ UNCHANGED <<handles, configured, fibers, submitted, outcome, faults>>

RestoreOld(id) ==
  /\ tx.phase = "restore"
  /\ id \in tx.mount /\ \A o \in tx.mount : OldDepth(id) <= OldDepth(o)
  /\ \/ /\ fibers' = Append(fibers, NewFiber(handles[id].plugin, handles[id].context))
        /\ tx' = [tx EXCEPT !.mount = @ \ {id},
                            !.candidate = [x \in DOMAIN @ \cup {id} |->
                               IF x = id THEN Len(fibers) + 1 ELSE @[x]]]
        /\ UNCHANGED faults
     \/ /\ Fault
        /\ tx' = [tx EXCEPT !.mount = @ \ {id}, !.errors = @ + 1]
        /\ UNCHANGED fibers
  /\ UNCHANGED <<handles, configured, submitted, outcome>>

(* Mutant: the rollback ends without awaiting what it mounted again. *)
EndRollbackUnawaited ==
  /\ tx.phase = "restore"
  /\ tx.mount = {}
  /\ handles' = [id \in Ids |->
       IF id \in DOMAIN tx.candidate
         THEN [handles[id] EXCEPT !.fiber = tx.candidate[id]] ELSE handles[id]]
  /\ Settle(IF tx.errors = 0 THEN "rejected" ELSE "aggregate")
  /\ UNCHANGED <<configured, fibers, submitted, faults>>

EndRollback ==
  /\ tx.phase = "restore"
  /\ tx.mount = {}
  /\ \E failed \in {0, 1} :
       /\ IF failed = 1 THEN AwaitFails ELSE AwaitedGraph \subseteq tx.awaited
       /\ handles' = [id \in Ids |->
            IF id \in DOMAIN tx.candidate
              THEN [handles[id] EXCEPT !.fiber = tx.candidate[id]] ELSE handles[id]]
       /\ Settle(IF tx.errors + failed = 0 THEN "rejected" ELSE "aggregate")
  /\ UNCHANGED <<configured, fibers, submitted, faults>>

-----------------------------------------------------------------------------
Init ==
  /\ handles = [id \in Ids |-> NoHandle]
  /\ configured = {}
  /\ fibers = <<>>
  /\ submitted = <<>> /\ outcome = <<>>
  /\ tx = Idle
  /\ faults = 0

Transaction ==
  \/ BeginApply \/ LoadPlugins \/ AllDisposed \/ Commit \/ AwaitCandidateFails
  \/ UndoNew \/ StartRestore \/ EndRollback
  \/ \E id \in Ids : DisposeOld(id) \/ MountNew(id) \/ RestoreOld(id)
  \/ \E f \in DOMAIN fibers : AwaitOne(f)

FiberStep == \E f \in DOMAIN fibers : FiberStarts(f) \/ FiberSettles(f) \/ FiberStops(f)

Next ==
  \/ \E m \in Manifests : Reconcile(m)
  \/ Transaction
  \/ FiberStep

(* The transaction runs whenever it can, and a plugin body, a load and a   *)
(* disposal end: reconcile has no timeout and promises nothing otherwise.  *)
Fairness == WF_vars(Transaction) /\ WF_vars(FiberStep)

Spec == Init /\ [][Next]_vars
FairSpec == Spec /\ Fairness

-----------------------------------------------------------------------------
(* Properties *)

(* Between transactions no fiber is left that no handle owns: no candidate  *)
(* of a failed manifest, no replaced plugin, however the transaction        *)
(* failed.  And as long as none ended in an AggregateError, the graph the   *)
(* handles describe is there: the fiber of a mounted entry that injects     *)
(* nothing is up, and that of a consumer has not been disposed and can run  *)
(* when its services are there (it may wait for one, or be starting again,  *)
(* after its await resolved).  The exception is an entry whose disposal     *)
(* threw, which is neither retired nor mounted again.                       *)
LastKnownGood ==
  tx = Idle =>
    /\ \A f \in Live : fibers[f].id \in Mounted /\ handles[fibers[f].id].fiber = f
    /\ (\A n \in DOMAIN outcome : outcome[n] # "aggregate") =>
         \A id \in Mounted :
           \/ fibers[handles[id].fiber].state \in {"active", "broken"}
           \/ Needs[id] # {} /\ handles[id].fiber \in Live

(* A plugin object is only ever reused for the revision and the context it  *)
(* was loaded for, through disabling, removal, re-adding and rollback, and  *)
(* the mounted fiber runs that plugin in that context.                      *)
CachedPlugin ==
  \A id \in Handles :
    /\ handles[id].plugin # NoPlugin =>
         handles[id].plugin = [id |-> id, revision |-> handles[id].revision,
                               context |-> handles[id].context]
    /\ id \in Mounted =>
         /\ fibers[handles[id].fiber].plugin = handles[id].plugin
         /\ fibers[handles[id].fiber].context = handles[id].context

Dies(f) == f \in Live /\ fibers'[f].state \in {"disposed", "broken"}

(* An entry that a manifest takes away goes only after the entries below it *)
(* that go too: teardown is from the leaves to the roots, whatever the      *)
(* manifests before it changed of the ownership.                            *)
ChildrenFirst ==
  [][\A id \in Mounted :
       (tx.phase = "dispose" /\ Dies(handles[id].fiber) /\ id \notin tx.mount) =>
         \A child \in configured :
           (handles[child].parent = id /\ child \notin Active(Current)) =>
             handles[child].fiber \notin Live]_vars

(* The configuration the handles describe, read as ManifestHost reads it. *)
Described ==
  [id \in configured |-> [parent |-> handles[id].parent, revision |-> handles[id].revision,
                          enabled |-> handles[id].enabled, context |-> handles[id].context]]

Listed(m) ==
  [id \in EntryIds(m) |->
     LET e == EntryOf(m, id) IN [parent |-> e.parent, revision |-> e.revision,
                                 enabled |-> e.enabled, context |-> e.context]]

Host == INSTANCE ManifestHost WITH
  Manifests  <- {Listed(m) : m \in Manifests},
  NoManifest <- <<>>,
  submitted  <- [n \in DOMAIN submitted |-> Listed(submitted[n])],
  settled    <- Len(outcome),
  committed  <- Described

(* AppBoot implements ManifestHost: manifests settle in the order they were *)
(* submitted, each is settled, a failure in one does not reach the next,    *)
(* and the handles describe the last committed manifest, never a mixture.   *)
SettlesInOrder == Host!Spec
=============================================================================
