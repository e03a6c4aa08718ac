--------------------------- MODULE AppBoot_proofs ---------------------------
(***************************************************************************)
(* Proofs about AppBoot, for any manifests and any number of transactions, *)
(* failures and services that come and go.                                 *)
(*                                                                         *)
(* The inductive invariant follows a transaction through its phases: what  *)
(* it has still to retire and to mount, which fiber stands for which entry *)
(* of the candidate graph, and that every live fiber is owned by a handle, *)
(* by the candidate or by the list the rollback undoes.                    *)
(***************************************************************************)
EXTENDS AppBoot, FiniteSetTheorems, TLAPS

-----------------------------------------------------------------------------
(* The values the variables range over *)

Entries   == UNION {{m[i] : i \in DOMAIN m} : m \in Manifests}
Revisions == {e.revision : e \in Entries}
Contexts  == {e.context : e \in Entries}

Plugin == [id : Ids, revision : Revisions, context : Contexts]

Handle ==
  [known : {TRUE}, parent : {e.parent : e \in Entries}, revision : Revisions,
   enabled : {e.enabled : e \in Entries} \cup {FALSE}, context : Contexts,
   plugin : Plugin \cup {NoPlugin}, fiber : Nat]

States == {"pending", "loading", "active", "failed", "disposed", "broken"}
Fiber  == [id : Ids, plugin : Plugin, context : Contexts, state : States]

Phases == {"load", "dispose", "mount", "undo", "restore"}
Transactions ==
  [phase : Phases, retire : SUBSET Ids, mount : SUBSET Ids, plugins : {tx.plugins},
   candidate : {tx.candidate}, fresh : Seq(Nat), retired : SUBSET Ids,
   awaited : SUBSET Nat, errors : Nat]

TypeInv ==
  /\ handles \in [Ids -> Handle \cup {NoHandle}]
  /\ configured \in SUBSET {id \in Ids : handles[id] # NoHandle}
  /\ fibers \in Seq(Fiber)
  /\ submitted \in Seq(Manifests)
  /\ outcome \in Seq({"committed", "rejected", "aggregate"})
  /\ Len(outcome) <= Len(submitted)
  /\ tx \in Transactions \cup {Idle}

-----------------------------------------------------------------------------
(* Handles and their fibers *)

(* The plugin a handle's revision and context call for. *)
Bundled(id) ==
  [id |-> id, revision |-> handles[id].revision, context |-> handles[id].context]

Runs(f, plugin, context) ==
  /\ f \in DOMAIN fibers
  /\ fibers[f].id = plugin.id
  /\ fibers[f].plugin = plugin
  /\ fibers[f].context = context

HandleInv ==
  /\ \A id \in Handles : handles[id].plugin \in {NoPlugin, Bundled(id)}
  /\ \A id \in Mounted :
       /\ handles[id].plugin = Bundled(id)
       /\ Runs(handles[id].fiber, Bundled(id), handles[id].context)

-----------------------------------------------------------------------------
(* The running transaction *)

Gone   == RemovedIds(Current) \cup UpdatedIds(Current)
Come   == UpdatedIds(Current) \cup AddedIds(Current)
Target == Active(Current)

(* The plugin and the context the manifest calls for. *)
WantedContext(id) == EntryOf(Current, id).context
Wanted(id) ==
  [id |-> id, revision |-> EntryOf(Current, id).revision, context |-> WantedContext(id)]

TxInv ==
  tx # Idle =>
    /\ Len(outcome) < Len(submitted)
    /\ Valid(Current)
    /\ tx.retired \subseteq Gone
    /\ \A id \in tx.retired : fibers[handles[id].fiber].state = "disposed"
    /\ \A i \in DOMAIN tx.fresh :
         /\ tx.fresh[i] \in DOMAIN fibers
         /\ \A id \in Mounted : tx.fresh[i] # handles[id].fiber

(* Before anything of the manifest is mounted. *)
TeardownInv ==
  tx.phase \in {"load", "dispose"} =>
    /\ tx.retire \cup tx.retired = Gone /\ tx.retire \cap tx.retired = {}
    /\ tx.mount = Come
    /\ \A id \in Come : tx.plugins[id] = Wanted(id)
    /\ tx.candidate = [id \in Mounted \ tx.retired |-> handles[id].fiber]
    /\ tx.fresh = <<>>
    /\ tx.phase = "load" => tx.retired = {}

MountInv ==
  tx.phase = "mount" =>
    /\ tx.retired = Gone
    /\ tx.mount \subseteq Come
    /\ \A id \in tx.mount : tx.plugins[id] = Wanted(id)
    /\ DOMAIN tx.candidate = Target \ tx.mount
    /\ \A id \in Mounted \ Gone : tx.candidate[id] = handles[id].fiber
    /\ \A id \in DOMAIN tx.candidate :
         Runs(tx.candidate[id], Wanted(id), WantedContext(id))

RestoreInv ==
  tx.phase = "restore" =>
    /\ tx.fresh = <<>>
    /\ tx.mount \subseteq tx.retired
    /\ DOMAIN tx.candidate \subseteq tx.retired
    /\ tx.mount \cap DOMAIN tx.candidate = {}
    /\ tx.errors = 0 => tx.retired = DOMAIN tx.candidate \cup tx.mount
    /\ \A id \in DOMAIN tx.candidate :
         Runs(tx.candidate[id], Bundled(id), handles[id].context)

-----------------------------------------------------------------------------
(* What lives, and how well *)

Owned(f) == fibers[f].id \in Mounted /\ handles[fibers[f].id].fiber = f

Chosen(f) == fibers[f].id \in DOMAIN tx.candidate /\ tx.candidate[fibers[f].id] = f

Fresh == {tx.fresh[i] : i \in DOMAIN tx.fresh}

OwnedInv ==
  \A f \in Live :
    \/ Owned(f)
    \/ tx.phase = "mount" /\ f \in Fresh /\ Chosen(f)
    \/ tx.phase = "undo" /\ f \in Fresh
    \/ tx.phase = "restore" /\ Chosen(f)

(* A fiber that is up, and one that may only be down for want of a service. *)
Standing(f) ==
  \/ fibers[f].state \in {"active", "broken"}
  \/ fibers[f].state # "disposed" /\ Needs[fibers[f].id] # {}

(* What has been awaited in this transaction stands, if it is still there,  *)
(* whatever has been withdrawn since.                                       *)
AwaitInv ==
  /\ \A f \in DOMAIN fibers : fibers[f].state = "pending" => Needs[fibers[f].id] # {}
  /\ tx # Idle =>
       \A f \in tx.awaited :
         f \in DOMAIN fibers /\ (fibers[f].state = "disposed" \/ Standing(f))

(* Every transaction so far was undone without an error of its own. *)
Clean == \A n \in DOMAIN outcome : outcome[n] # "aggregate"

HealthInv ==
  Clean =>
    /\ tx.phase \in {"idle", "load"} => \A id \in Mounted : Standing(handles[id].fiber)
    /\ tx # Idle =>
         \A id \in Mounted \ tx.retired : fibers[handles[id].fiber].state # "disposed"
    /\ tx.phase \in {"mount", "restore"} =>
         \A id \in DOMAIN tx.candidate : fibers[tx.candidate[id]].state # "disposed"

(* The configured entries form a forest. *)
ForestInv ==
  /\ IsFiniteSet(configured)
  /\ \A id \in configured : OldParents[id] \in configured \cup {Root}
  /\ \A id \in configured :
       OldParents[id] # Root => id \notin Ancestry(OldParents, OldParents[id])

BootInv ==
  /\ TypeInv /\ HandleInv /\ TxInv /\ TeardownInv /\ MountInv /\ RestoreInv
  /\ OwnedInv /\ AwaitInv /\ HealthInv /\ ForestInv

-----------------------------------------------------------------------------
(* Lemmas *)

(* The entry of a listed id is one of the manifest's, and has that id. *)
LEMMA EntryListed ==
  ASSUME NEW m, NEW id \in EntryIds(m)
  PROVE  EntryOf(m, id) \in {m[i] : i \in DOMAIN m} /\ EntryOf(m, id).id = id
BY DEF EntryIds, EntryOf

(* Only listed entries are active. *)
LEMMA ActiveListed == ASSUME NEW m PROVE Active(m) \subseteq EntryIds(m)
BY DEF Active

(* The manifest a transaction reads is one that was submitted. *)
LEMMA CurrentSubmitted ==
  ASSUME TypeInv, Len(outcome) < Len(submitted)
  PROVE  /\ Current \in Manifests
         /\ EntryIds(Current) \subseteq Ids
         /\ Target \subseteq EntryIds(Current)
<1>1. Current \in Manifests
  BY DEF TypeInv, Current
<1> QED
  BY <1>1, ManifestAssumption, ActiveListed DEF Target

LEMMA WantedIsPlugin ==
  ASSUME TypeInv, Len(outcome) < Len(submitted), NEW id \in EntryIds(Current)
  PROVE  /\ EntryOf(Current, id) \in Entries
         /\ Wanted(id) \in Plugin
         /\ WantedContext(id) \in Contexts
<1>1. Current \in Manifests /\ id \in Ids
  BY CurrentSubmitted
<1>2. EntryOf(Current, id) \in Entries
  BY <1>1, EntryListed DEF Entries
<1> QED
  BY <1>1, <1>2 DEF Wanted, WantedContext, Plugin, Revisions, Contexts

LEMMA BundledIsPlugin ==
  ASSUME TypeInv, NEW id \in Handles
  PROVE  handles[id] \in Handle /\ Bundled(id) \in Plugin /\ handles[id].context \in Contexts
BY DEF TypeInv, Handles, Bundled, Plugin, Handle

(* What is mounted, retired or added is an entry with an id. *)
LEMMA SetsOfIds ==
  ASSUME TypeInv
  PROVE  /\ Mounted \subseteq Handles
         /\ Handles \subseteq Ids
         /\ Gone \subseteq Mounted
         /\ Come \subseteq Target
         /\ Len(outcome) < Len(submitted) => Target \subseteq Ids
<1>1. Mounted \subseteq Handles /\ Handles \subseteq Ids
  BY DEF TypeInv, Mounted, Handles
<1>2. Gone \subseteq Mounted /\ Come \subseteq Target
  BY DEF Gone, Come, RemovedIds, UpdatedIds, AddedIds, Target
<1> QED
  BY <1>1, <1>2, CurrentSubmitted

(* Nothing a transaction reads of the configuration changes while it runs. *)
LEMMA Frame ==
  ASSUME handles' = handles, configured' = configured, Current' = Current
  PROVE  /\ Mounted' = Mounted /\ Handles' = Handles
         /\ Gone' = Gone /\ Come' = Come /\ Target' = Target
         /\ \A id : Bundled(id)' = Bundled(id)
         /\ \A id : Wanted(id)' = Wanted(id) /\ WantedContext(id)' = WantedContext(id)
<1>1. Mounted' = Mounted /\ Handles' = Handles /\ \A id : Bundled(id)' = Bundled(id)
  BY DEF Mounted, Handles, Bundled
<1>2. Target' = Target
  BY DEF Target
<1>3. \A id : Wanted(id)' = Wanted(id) /\ WantedContext(id)' = WantedContext(id)
  BY DEF Wanted, WantedContext
<1>4. RemovedIds(Current)' = RemovedIds(Current) /\ AddedIds(Current)' = AddedIds(Current)
  BY <1>1, <1>2 DEF RemovedIds, AddedIds, Target
<1>5. UpdatedIds(Current)' = UpdatedIds(Current)
  BY <1>1, <1>2 DEF UpdatedIds, SameAs, Target
<1> QED
  BY <1>1, <1>2, <1>3, <1>4, <1>5 DEF Gone, Come

(* An await that resolves changes nothing but what has been awaited. *)
LEMMA AwaitKeeps ==
  ASSUME TypeInv, NEW f, AwaitOne(f)
  PROVE  /\ tx # Idle /\ tx \in Transactions
         /\ tx'.phase = tx.phase /\ tx'.retire = tx.retire /\ tx'.mount = tx.mount
         /\ tx'.plugins = tx.plugins /\ tx'.candidate = tx.candidate
         /\ tx'.fresh = tx.fresh /\ tx'.retired = tx.retired /\ tx'.errors = tx.errors
         /\ tx'.awaited = tx.awaited \cup {f}
         /\ handles' = handles /\ configured' = configured /\ fibers' = fibers
<1>1. tx # Idle /\ tx \in Transactions
  BY DEF TypeInv, AwaitOne, Idle
<1>2. tx' = [tx EXCEPT !.awaited = tx.awaited \cup {f}]
  BY DEF AwaitOne
<1> QED
  BY <1>1, <1>2 DEF AwaitOne, Transactions

(* Only the end of a transaction changes the configuration; submitting     *)
(* another manifest does not change the one that is being applied.         *)
LEMMA CurrentKept ==
  ASSUME TypeInv, Len(outcome) < Len(submitted), [Next]_vars, tx # Idle, tx' # Idle
  PROVE  /\ handles' = handles /\ configured' = configured
         /\ outcome' = outcome /\ Current' = Current
         /\ Len(outcome') < Len(submitted')
<1>1. CASE UNCHANGED vars
  BY <1>1 DEF vars, Current
<1>2. ASSUME NEW m \in Manifests, Reconcile(m)
      PROVE  /\ handles' = handles /\ configured' = configured
             /\ outcome' = outcome /\ Current' = Current
             /\ Len(outcome') < Len(submitted')
  BY <1>2 DEF TypeInv, Reconcile, Current
<1>3. CASE Transaction
  BY <1>3 DEF Transaction, BeginApply, LoadPlugins, AllDisposed, Commit,
  AwaitCandidateFails,
       UndoNew, StartRestore, EndRollback, DisposeOld, MountNew, RestoreOld, AwaitOne, Settle,
       Current
<1>4. ASSUME FiberStep
      PROVE  /\ handles' = handles /\ configured' = configured
             /\ outcome' = outcome /\ Current' = Current
             /\ Len(outcome') < Len(submitted')
  BY <1>4 DEF FiberStep, FiberStarts, FiberSettles, FiberStops, Current
<1> QED
  BY <1>1, <1>2, <1>3, <1>4 DEF Next

(* A fiber that changes its state stays the fiber it was. *)
LEMMA StateSet ==
  ASSUME TypeInv, NEW f \in DOMAIN fibers, NEW s \in States, fibers' = SetState(f, s)
  PROVE  /\ fibers' \in Seq(Fiber)
         /\ DOMAIN fibers' = DOMAIN fibers
         /\ fibers'[f].state = s
         /\ \A g \in DOMAIN fibers : g # f => fibers'[g] = fibers[g]
         /\ \A g \in DOMAIN fibers :
              /\ fibers'[g].id = fibers[g].id /\ fibers'[g].plugin = fibers[g].plugin
              /\ fibers'[g].context = fibers[g].context
<1>1. fibers \in Seq(Fiber) /\ fibers[f] \in Fiber
  BY DEF TypeInv
<1>2. [fibers[f] EXCEPT !.state = s] \in Fiber
  BY <1>1 DEF Fiber
<1>3. fibers' = [fibers EXCEPT ![f] = [fibers[f] EXCEPT !.state = s]]
  BY DEF SetState
<1> QED
  BY <1>1, <1>2, <1>3 DEF Fiber

LEMMA FiberMade ==
  ASSUME TypeInv, NEW plugin \in Plugin, NEW context \in Contexts,
         fibers' = Append(fibers, NewFiber(plugin, context))
  PROVE  /\ fibers' \in Seq(Fiber)
         /\ DOMAIN fibers' = DOMAIN fibers \cup {Len(fibers) + 1}
         /\ Len(fibers) + 1 \notin DOMAIN fibers
         /\ fibers'[Len(fibers) + 1] = NewFiber(plugin, context)
         /\ \A g \in DOMAIN fibers : fibers'[g] = fibers[g]
<1>1. fibers \in Seq(Fiber)
  BY DEF TypeInv
<1>2. NewFiber(plugin, context) \in Fiber
  BY DEF NewFiber, Fiber, Plugin, States
<1> QED
  BY <1>1, <1>2

(* A fiber keeps its plugin and its context for good. *)
LEMMA FibersKeep ==
  ASSUME TypeInv, HandleInv, TxInv, TeardownInv, MountInv, RestoreInv, [Next]_vars
  PROVE  /\ fibers' \in Seq(Fiber)
         /\ \A g \in DOMAIN fibers :
              /\ g \in DOMAIN fibers'
              /\ fibers'[g].id = fibers[g].id /\ fibers'[g].plugin = fibers[g].plugin
              /\ fibers'[g].context = fibers[g].context
<1> DEFINE Kept == /\ fibers' \in Seq(Fiber)
                   /\ \A g \in DOMAIN fibers :
                        /\ g \in DOMAIN fibers'
                        /\ fibers'[g].id = fibers[g].id
                        /\ fibers'[g].plugin = fibers[g].plugin
                        /\ fibers'[g].context = fibers[g].context
<1> SUFFICES Kept
  OBVIOUS
<1>1. ASSUME fibers' = fibers PROVE Kept
  BY <1>1 DEF TypeInv
<1>2. ASSUME NEW f \in DOMAIN fibers, NEW s \in States, fibers' = SetState(f, s) PROVE Kept
  BY <1>2, StateSet
<1>3. ASSUME NEW plugin \in Plugin, NEW context \in Contexts,
             fibers' = Append(fibers, NewFiber(plugin, context))
      PROVE  Kept
  BY <1>3, FiberMade
<1> HIDE DEF Kept
<1>4. CASE FiberStep
  BY <1>2, <1>4 DEF FiberStep, FiberStarts, FiberSettles, FiberStops, States
<1>5. ASSUME NEW id \in Ids, DisposeOld(id) PROVE Kept
  <2>1. tx # Idle /\ id \in Gone
    BY <1>5 DEF DisposeOld, NextToRetire, TeardownInv, Idle
  <2>2. handles[id].fiber \in DOMAIN fibers
    BY <2>1, SetsOfIds DEF HandleInv, Runs
  <2> QED
    BY <1>2, <1>5, <2>2 DEF DisposeOld, States
<1>6. ASSUME NEW id \in Ids, MountNew(id) PROVE Kept
  <2>1. tx # Idle /\ id \in tx.mount
    BY <1>6 DEF MountNew, NextToMount, Idle
  <2>2. tx.plugins[id] = Wanted(id) /\ id \in EntryIds(Current) /\ Len(outcome) < Len(submitted)
    BY <1>6, <2>1, SetsOfIds, CurrentSubmitted DEF MountInv, TxInv, MountNew
  <2> QED
    BY <1>1, <1>3, <1>6, <2>2, WantedIsPlugin DEF MountNew, WantedContext
<1>7. ASSUME NEW id \in Ids, RestoreOld(id) PROVE Kept
  <2>1. id \in Mounted
    BY <1>7, SetsOfIds DEF RestoreOld, RestoreInv, TxInv, Idle
  <2>2. handles[id].plugin \in Plugin /\ handles[id].context \in Contexts
    BY <2>1, SetsOfIds, BundledIsPlugin DEF HandleInv
  <2> QED
    BY <1>1, <1>3, <1>7, <2>2 DEF RestoreOld
<1>8. CASE UndoNew
  <2>1. tx \in Transactions /\ tx # Idle
    BY <1>8 DEF TypeInv, UndoNew, Idle
  <2>2. tx.fresh \in Seq(Nat) /\ tx.fresh # <<>>
    BY <1>8, <2>1 DEF UndoNew, Transactions
  <2>3. tx.fresh[Len(tx.fresh)] \in DOMAIN fibers
    BY <2>1, <2>2 DEF TxInv
  <2> QED
    BY <1>2, <1>8, <2>3 DEF UndoNew, States
<1>9. CASE \E m \in Manifests : Reconcile(m)
  BY <1>1, <1>9 DEF Reconcile
<1>10. CASE BeginApply \/ LoadPlugins \/ AllDisposed \/ Commit \/ AwaitCandidateFails
            \/ StartRestore \/ EndRollback \/ \E f \in DOMAIN fibers : AwaitOne(f)
  BY <1>1, <1>10 DEF BeginApply, LoadPlugins, AllDisposed, Commit, AwaitCandidateFails,
       StartRestore, EndRollback, AwaitOne
<1>11. CASE UNCHANGED vars
  BY <1>1, <1>11 DEF vars
<1> QED
  BY <1>4, <1>5, <1>6, <1>7, <1>8, <1>9, <1>10, <1>11 DEF Next, Transaction

-----------------------------------------------------------------------------
(* Types *)

LEMMA HandleIsKnown == ASSUME NEW h \in Handle PROVE h # NoHandle
<1>1. h.known = TRUE
  BY DEF Handle
<1> QED
  BY <1>1 DEF NoHandle

LEMMA HandlesTyped ==
  ASSUME TypeInv, HandleInv, TxInv, TeardownInv, MountInv, RestoreInv, [Next]_vars
  PROVE  /\ handles' \in [Ids -> Handle \cup {NoHandle}]
         /\ configured' \in SUBSET {id \in Ids : handles'[id] # NoHandle}
<1>1. CASE handles' = handles /\ configured' = configured
  BY <1>1 DEF TypeInv
<1>2. CASE Commit
  <2>1. tx # Idle /\ Len(outcome) < Len(submitted)
    BY <1>2 DEF Commit, TxInv, Idle
  <2>2. tx.mount = {} /\ DOMAIN tx.candidate = Target
    BY <1>2 DEF Commit, MountInv
  <2>3. ASSUME NEW id \in EntryIds(Current)
        PROVE  CommittedHandle(Current, id) \in Handle
    <3> DEFINE entry == EntryOf(Current, id)
    <3>1. entry \in Entries /\ id \in Ids
      BY <2>1, <2>3, WantedIsPlugin, CurrentSubmitted
    <3>2. ASSUME id \in Target
          PROVE  tx.candidate[id] \in Nat /\ fibers[tx.candidate[id]].plugin \in Plugin
      <4>1. tx.candidate[id] \in DOMAIN fibers
        BY <1>2, <2>2, <3>2 DEF MountInv, Commit, Runs
      <4>2. tx.candidate[id] \in Nat /\ fibers[tx.candidate[id]] \in Fiber
        BY <4>1 DEF TypeInv
      <4> QED
        BY <4>2 DEF Fiber
    <3>3. handles[id] # NoHandle => handles[id].plugin \in Plugin \cup {NoPlugin}
      BY <3>1, BundledIsPlugin DEF Handles, Handle
    <3> HIDE DEF entry
    <3>4. CASE id \in Target
      BY <3>1, <3>2, <3>4 DEF CommittedHandle, Handle, Revisions, Contexts, Target, entry
    <3>5. CASE id \notin Target
      BY <3>1, <3>3, <3>5 DEF CommittedHandle, Handle, Revisions, Contexts, Target,
      entry, NoFiber
    <3> QED
      BY <3>4, <3>5
  <2>4. ASSUME NEW id \in configured PROVE Forget(handles[id]) \in Handle
    <3>1. handles[id] \in Handle
      BY <2>4, BundledIsPlugin DEF TypeInv, Handles
    <3> QED
      BY <3>1 DEF Forget, Handle, NoFiber
  <2>5. handles' \in [Ids -> Handle \cup {NoHandle}]
    BY <1>2, <2>3, <2>4 DEF Commit, TypeInv
  <2>6. \A id \in EntryIds(Current) : id \in Ids /\ handles'[id] # NoHandle
    <3>1. \A id \in EntryIds(Current) : id \in Ids /\ handles'[id] = CommittedHandle(Current, id)
      BY <1>2, <2>1, CurrentSubmitted DEF Commit
    <3> QED
      BY <2>3, <3>1, HandleIsKnown
  <2> QED
    BY <1>2, <2>5, <2>6 DEF Commit
<1>3. CASE EndRollback
  <2>1. tx # Idle
    BY <1>3 DEF EndRollback, Idle
  <2>2. DOMAIN tx.candidate \subseteq Mounted
    BY <1>3, <2>1, SetsOfIds DEF EndRollback, RestoreInv, TxInv
  <2>3. ASSUME NEW id \in DOMAIN tx.candidate
        PROVE  [handles[id] EXCEPT !.fiber = tx.candidate[id]] \in Handle
    <3>1. handles[id] \in Handle
      BY <2>2, SetsOfIds, BundledIsPlugin
    <3>2. tx.candidate[id] \in Nat
      BY <1>3 DEF EndRollback, RestoreInv, Runs, TypeInv
    <3> QED
      BY <3>1, <3>2 DEF Handle
  <2>4. handles' = [id \in Ids |->
          IF id \in DOMAIN tx.candidate
            THEN [handles[id] EXCEPT !.fiber = tx.candidate[id]] ELSE handles[id]]
    BY <1>3 DEF EndRollback
  <2>5. handles' \in [Ids -> Handle \cup {NoHandle}]
    BY <2>3, <2>4 DEF TypeInv
  <2>6. \A id \in configured : handles'[id] # NoHandle
    <3>1. \A id \in configured : handles[id] \in Handle
      BY BundledIsPlugin DEF TypeInv, Handles
    <3>2. \A id \in configured : handles'[id] \in Handle
      BY <2>3, <2>4, <3>1 DEF TypeInv
    <3> QED
      BY <3>2, HandleIsKnown
  <2> QED
    BY <1>3, <2>5, <2>6 DEF EndRollback, TypeInv
<1> QED
  <2>1. [Next]_vars /\ ~Commit /\ ~EndRollback => handles' = handles /\ configured' = configured
    BY DEF Next, vars, Transaction, Reconcile, BeginApply, LoadPlugins, AllDisposed,
         AwaitCandidateFails, UndoNew, StartRestore, DisposeOld, MountNew, RestoreOld,
         FiberStep, FiberStarts, FiberSettles, FiberStops, AwaitOne
  <2> QED
    BY <1>1, <1>2, <1>3, <2>1

LEMMA TxShape ==
  ASSUME NEW phase \in Phases, NEW retire \in SUBSET Ids, NEW mount \in SUBSET Ids,
         NEW plugins, NEW candidate, NEW fresh \in Seq(Nat), NEW retired \in SUBSET Ids,
         NEW awaited \in SUBSET Nat, NEW errors \in Nat,
         tx' = [phase |-> phase, retire |-> retire, mount |-> mount, plugins |-> plugins,
                candidate |-> candidate, fresh |-> fresh, retired |-> retired,
                awaited |-> awaited, errors |-> errors]
  PROVE  tx' \in Transactions'
<1>1. tx'.plugins = plugins /\ tx'.candidate = candidate
  OBVIOUS
<1> QED
  BY <1>1 DEF Transactions

LEMMA TxFields ==
  ASSUME tx \in Transactions
  PROVE  /\ tx.phase \in Phases /\ tx.retire \in SUBSET Ids /\ tx.mount \in SUBSET Ids
         /\ tx.fresh \in Seq(Nat) /\ tx.retired \in SUBSET Ids
         /\ tx.awaited \in SUBSET Nat /\ tx.errors \in Nat
         /\ tx = [phase |-> tx.phase, retire |-> tx.retire, mount |-> tx.mount,
                  plugins |-> tx.plugins, candidate |-> tx.candidate, fresh |-> tx.fresh,
                  retired |-> tx.retired, awaited |-> tx.awaited, errors |-> tx.errors]
BY DEF Transactions

LEMMA TxTyped ==
  ASSUME TypeInv, TxInv, [Next]_vars
  PROVE  tx' \in Transactions' \cup {Idle}
<1> DEFINE Result == tx' \in Transactions' \cup {Idle}
<1> SUFFICES Result
  OBVIOUS
<1>1. ASSUME tx' = tx PROVE Result
  BY <1>1 DEF TypeInv, Transactions
<1>2. ASSUME tx' = Idle PROVE Result
  BY <1>2
<1> HIDE DEF Result
<1>3. CASE BeginApply
  <2>1. RemovedIds(Current) \cup UpdatedIds(Current) \in SUBSET Ids
    BY SetsOfIds DEF Gone
  <2>2. UpdatedIds(Current) \cup AddedIds(Current) \in SUBSET Ids
    BY <1>3, SetsOfIds DEF Come, BeginApply, TypeInv
  <2>3. CASE Valid(Current)
    <3>1. /\ <<>> \in Seq(Nat) /\ {} \in SUBSET Ids /\ {} \in SUBSET Nat
          /\ "load" \in Phases
      BY DEF Phases
    <3> QED
      BY <1>3, <2>1, <2>2, <2>3, <3>1, TxShape DEF BeginApply, Result
  <2> QED
    BY <1>2, <1>3, <2>3 DEF BeginApply, Settle
<1>4. CASE LoadPlugins
  <2>1. tx \in Transactions
    BY <1>4 DEF LoadPlugins, TypeInv, Idle
  <2> QED
    BY <1>2, <1>4, <2>1 DEF LoadPlugins, Settle, Result, Transactions, Phases
<1>5. CASE AllDisposed \/ AwaitCandidateFails
  <2>1. tx \in Transactions
    BY <1>5 DEF AllDisposed, AwaitCandidateFails, TypeInv, Idle
  <2> QED
    BY <1>5, <2>1 DEF AllDisposed, AwaitCandidateFails, Result, Transactions, Phases
<1>6. CASE UndoNew
  <2>1. tx \in Transactions
    BY <1>6 DEF UndoNew, TypeInv, Idle
  <2>2. SubSeq(tx.fresh, 1, Len(tx.fresh) - 1) \in Seq(Nat)
    BY <1>6, <2>1 DEF UndoNew, Transactions
  <2> QED
    <3>1. \/ tx' = [tx EXCEPT !.fresh = SubSeq(tx.fresh, 1, Len(tx.fresh) - 1)]
          \/ tx' = [tx EXCEPT !.fresh = SubSeq(tx.fresh, 1, Len(tx.fresh) - 1),
                              !.errors = @ + 1]
      BY <1>6 DEF UndoNew
    <3>2. CASE tx' = [tx EXCEPT !.fresh = SubSeq(tx.fresh, 1, Len(tx.fresh) - 1)]
      <4>1. tx' = [phase |-> tx.phase, retire |-> tx.retire, mount |-> tx.mount,
                   plugins |-> tx.plugins, candidate |-> tx.candidate,
                   fresh |-> SubSeq(tx.fresh, 1, Len(tx.fresh) - 1),
                   retired |-> tx.retired,
                   awaited |-> tx.awaited, errors |-> tx.errors]
        BY <2>1, <3>2 DEF Transactions
      <4> QED
        BY <2>1, <2>2, <4>1, TxFields, TxShape DEF Result
    <3>3. CASE tx' = [tx EXCEPT !.fresh = SubSeq(tx.fresh, 1, Len(tx.fresh) - 1),
                                !.errors = @ + 1]
      <4>1. tx' = [phase |-> tx.phase, retire |-> tx.retire, mount |-> tx.mount,
                   plugins |-> tx.plugins, candidate |-> tx.candidate,
                   fresh |-> SubSeq(tx.fresh, 1, Len(tx.fresh) - 1),
                   retired |-> tx.retired,
                   awaited |-> tx.awaited, errors |-> tx.errors + 1]
        BY <2>1, <3>3 DEF Transactions
      <4>2. tx.errors + 1 \in Nat
        BY <2>1, TxFields
      <4> QED
        BY <2>1, <2>2, <4>1, <4>2, TxFields, TxShape DEF Result
    <3> QED
      BY <3>1, <3>2, <3>3
<1>7. CASE StartRestore
  <2>1. tx \in Transactions
    BY <1>7 DEF StartRestore, TypeInv, Idle
  <2> QED
    BY <1>7, <2>1 DEF StartRestore, Result, Transactions, Phases
<1>8. ASSUME NEW id \in Ids, DisposeOld(id) PROVE Result
  <2>1. tx \in Transactions
    BY <1>8 DEF DisposeOld, TypeInv, Idle
  <2> QED
    <3>1. \/ tx' = [tx EXCEPT !.retire = @ \ {id}, !.retired = @ \cup {id},
                              !.candidate = Without(@, id)]
          \/ tx' = [tx EXCEPT !.phase = "undo"]
      BY <1>8 DEF DisposeOld
    <3>2. CASE tx' = [tx EXCEPT !.retire = @ \ {id}, !.retired = @ \cup {id},
                                !.candidate = Without(@, id)]
      <4>1. tx' = [phase |-> tx.phase, retire |-> tx.retire \ {id}, mount |-> tx.mount,
                   plugins |-> tx.plugins, candidate |-> Without(tx.candidate, id),
                   fresh |-> tx.fresh, retired |-> tx.retired \cup {id},
                   awaited |-> tx.awaited,
                   errors |-> tx.errors]
        BY <2>1, <3>2 DEF Transactions
      <4>2. tx.retire \ {id} \in SUBSET Ids /\ tx.retired \cup {id} \in SUBSET Ids
        BY <2>1, TxFields
      <4> QED
        BY <2>1, <1>8, <4>1, <4>2, TxFields, TxShape DEF Result
    <3>3. CASE tx' = [tx EXCEPT !.phase = "undo"]
      <4>1. tx' = [phase |-> "undo", retire |-> tx.retire, mount |-> tx.mount,
                   plugins |-> tx.plugins, candidate |-> tx.candidate,
                   fresh |-> tx.fresh, retired |-> tx.retired,
                   awaited |-> tx.awaited, errors |-> tx.errors]
        BY <2>1, <3>3 DEF Transactions
      <4> QED
        BY <2>1, <4>1, TxFields, TxShape DEF Result, Phases
    <3> QED
      BY <3>1, <3>2, <3>3
<1>9. ASSUME NEW id \in Ids, MountNew(id) PROVE Result
  <2>1. tx \in Transactions /\ Len(fibers) \in Nat
    BY <1>9 DEF MountNew, TypeInv, Idle
  <2>2. Append(tx.fresh, Len(fibers) + 1) \in Seq(Nat)
    BY <2>1 DEF Transactions
  <2> QED
    <3>1. \/ /\ tx' = [tx EXCEPT !.mount = @ \ {id}, !.fresh = Append(@, Len(fibers) + 1),
                                 !.candidate = tx'.candidate]
          \/ tx' = [tx EXCEPT !.phase = "undo"]
      BY <1>9 DEF MountNew
    <3>2. CASE tx' = [tx EXCEPT !.mount = @ \ {id}, !.fresh = Append(@, Len(fibers) + 1),
                                !.candidate = tx'.candidate]
      <4>1. tx' = [phase |-> tx.phase, retire |-> tx.retire, mount |-> tx.mount \ {id},
                   plugins |-> tx.plugins, candidate |-> tx'.candidate,
                   fresh |-> Append(tx.fresh, Len(fibers) + 1), retired |-> tx.retired,
                   awaited |-> tx.awaited,
                   errors |-> tx.errors]
        BY <2>1, <3>2 DEF Transactions
      <4> QED
        BY <2>1, <2>2, <4>1, TxFields, TxShape DEF Result
    <3>3. CASE tx' = [tx EXCEPT !.phase = "undo"]
      <4>1. tx' = [phase |-> "undo", retire |-> tx.retire, mount |-> tx.mount,
                   plugins |-> tx.plugins, candidate |-> tx.candidate,
                   fresh |-> tx.fresh, retired |-> tx.retired,
                   awaited |-> tx.awaited, errors |-> tx.errors]
        BY <2>1, <3>3 DEF Transactions
      <4> QED
        BY <2>1, <4>1, TxFields, TxShape DEF Result, Phases
    <3> QED
      BY <3>1, <3>2, <3>3
<1>10. ASSUME NEW id \in Ids, RestoreOld(id) PROVE Result
  <2>1. tx \in Transactions
    BY <1>10 DEF RestoreOld, TypeInv, Idle
  <2> QED
    <3>1. \/ tx' = [tx EXCEPT !.mount = @ \ {id}, !.candidate = tx'.candidate]
          \/ tx' = [tx EXCEPT !.mount = @ \ {id}, !.errors = @ + 1]
      BY <1>10 DEF RestoreOld
    <3>2. CASE tx' = [tx EXCEPT !.mount = @ \ {id}, !.candidate = tx'.candidate]
      <4>1. tx' = [phase |-> tx.phase, retire |-> tx.retire, mount |-> tx.mount \ {id},
                   plugins |-> tx.plugins, candidate |-> tx'.candidate,
                   fresh |-> tx.fresh, retired |-> tx.retired,
                   awaited |-> tx.awaited, errors |-> tx.errors]
        BY <2>1, <3>2 DEF Transactions
      <4> QED
        BY <2>1, <4>1, TxFields, TxShape DEF Result
    <3>3. CASE tx' = [tx EXCEPT !.mount = @ \ {id}, !.errors = @ + 1]
      <4>1. tx' = [phase |-> tx.phase, retire |-> tx.retire, mount |-> tx.mount \ {id},
                   plugins |-> tx.plugins, candidate |-> tx.candidate,
                   fresh |-> tx.fresh, retired |-> tx.retired,
                   awaited |-> tx.awaited, errors |-> tx.errors + 1]
        BY <2>1, <3>3 DEF Transactions
      <4>2. tx.errors + 1 \in Nat /\ tx.mount \ {id} \in SUBSET Ids
        BY <2>1, TxFields
      <4> QED
        BY <2>1, <4>1, <4>2, TxFields, TxShape DEF Result
    <3> QED
      BY <3>1, <3>2, <3>3
<1>11. ASSUME NEW f \in DOMAIN fibers, AwaitOne(f) PROVE Result
  <2>1. tx \in Transactions /\ f \in Nat
    BY <1>11 DEF AwaitOne, TypeInv, Idle
  <2>2. tx' = [phase |-> tx.phase, retire |-> tx.retire, mount |-> tx.mount,
               plugins |-> tx.plugins, candidate |-> tx.candidate, fresh |-> tx.fresh,
               retired |-> tx.retired, awaited |-> tx.awaited \cup {f},
               errors |-> tx.errors]
    BY <1>11, <2>1 DEF AwaitOne, Transactions
  <2>3. tx.awaited \cup {f} \in SUBSET Nat
    BY <2>1, TxFields
  <2> QED
    BY <2>1, <2>2, <2>3, TxFields, TxShape DEF Result
<1> QED
  <2>1. CASE tx' = tx \/ tx' = Idle
    BY <1>1, <1>2, <2>1
  <2>2. [Next]_vars /\ tx' # tx /\ tx' # Idle =>
          \/ BeginApply \/ LoadPlugins \/ AllDisposed \/ AwaitCandidateFails \/ UndoNew
          \/ StartRestore \/ \E id \in Ids : DisposeOld(id) \/ MountNew(id) \/ RestoreOld(id)
          \/ \E f \in DOMAIN fibers : AwaitOne(f)
    BY DEF Next, vars, Transaction, Reconcile, Commit, EndRollback, Settle,
         FiberStep, FiberStarts, FiberSettles, FiberStops
  <2> QED
    BY <1>3, <1>4, <1>5, <1>6, <1>7, <1>8, <1>9, <1>10, <1>11, <2>1, <2>2

LEMMA TypeStep ==
  ASSUME TypeInv, HandleInv, TxInv, TeardownInv, MountInv, RestoreInv, [Next]_vars
  PROVE  TypeInv'
<1>1. /\ submitted' \in Seq(Manifests)
      /\ outcome' \in Seq({"committed", "rejected", "aggregate"})
      /\ Len(outcome') <= Len(submitted')
  <2>1. CASE \E how \in {"committed", "rejected", "aggregate"} :
               Settle(how) /\ Len(outcome) < Len(submitted) /\ submitted' = submitted
    BY <2>1 DEF TypeInv, Settle
  <2>2. CASE outcome' = outcome /\ submitted' = submitted
    BY <2>2 DEF TypeInv
  <2>3. CASE \E m \in Manifests : Reconcile(m)
    BY <2>3 DEF TypeInv, Reconcile
  <2> QED
    <3>1. tx.phase \in Phases => Len(outcome) < Len(submitted)
      BY DEF TxInv, Idle, Phases
    <3>2. [Next]_vars =>
            \/ \E how \in {"committed", "rejected", "aggregate"} :
                 Settle(how) /\ Len(outcome) < Len(submitted) /\ submitted' = submitted
            \/ outcome' = outcome /\ submitted' = submitted
            \/ \E m \in Manifests : Reconcile(m)
      BY <3>1 DEF Next, vars, Transaction, Phases, BeginApply, LoadPlugins, AllDisposed,
      Commit,
           EndRollback, AwaitCandidateFails, UndoNew, StartRestore, DisposeOld, MountNew,
           RestoreOld, FiberStep, FiberStarts, FiberSettles, FiberStops, AwaitOne
    <3> QED
      BY <2>1, <2>2, <2>3, <3>2
<1> QED
  BY <1>1, HandlesTyped, FibersKeep, TxTyped DEF TypeInv

-----------------------------------------------------------------------------
(* Handles *)

LEMMA QuietSteps ==
  ASSUME [Next]_vars, ~Commit, ~EndRollback
  PROVE  handles' = handles /\ configured' = configured
BY DEF Next, vars, Transaction, Reconcile, BeginApply, LoadPlugins, AllDisposed,
     AwaitCandidateFails, UndoNew, StartRestore, DisposeOld, MountNew, RestoreOld,
     FiberStep, FiberStarts, FiberSettles, FiberStops, AwaitOne

LEMMA CommittedFields ==
  ASSUME NEW m, NEW id
  PROVE  /\ CommittedHandle(m, id).parent = EntryOf(m, id).parent
         /\ CommittedHandle(m, id).revision = EntryOf(m, id).revision
         /\ CommittedHandle(m, id).enabled = EntryOf(m, id).enabled
         /\ CommittedHandle(m, id).context = EntryOf(m, id).context
         /\ id \in Active(m) =>
              /\ CommittedHandle(m, id).plugin = fibers[tx.candidate[id]].plugin
              /\ CommittedHandle(m, id).fiber = tx.candidate[id]
         /\ id \notin Active(m) => CommittedHandle(m, id).fiber = NoFiber
BY DEF CommittedHandle

(* The handles a commit leaves: those of the manifest's entries, those of  *)
(* the entries it no longer lists, and the others as they were.            *)
LEMMA CommitHandles ==
  ASSUME TypeInv, TxInv, MountInv, Commit
  PROVE  /\ fibers' = fibers /\ configured' = EntryIds(Current)
         /\ Mounted' = Target
         /\ DOMAIN tx.candidate = Target
         /\ Len(outcome) < Len(submitted)
         /\ \A id \in EntryIds(Current) :
              id \in Ids /\ handles'[id] = CommittedHandle(Current, id)
         /\ \A id \in Ids \ EntryIds(Current) :
              handles'[id] = IF id \in configured THEN Forget(handles[id]) ELSE handles[id]
<1>1. tx # Idle /\ Len(outcome) < Len(submitted)
  BY DEF Commit, TxInv, Idle
<1>2. DOMAIN tx.candidate = Target
  BY DEF Commit, MountInv
<1>3. \A id \in EntryIds(Current) : id \in Ids /\ handles'[id] = CommittedHandle(Current, id)
  BY <1>1, CurrentSubmitted DEF Commit
<1>4. \A id \in Target : tx.candidate[id] \in Nat \ {0}
  BY <1>2 DEF Commit, MountInv, Runs, TypeInv
<1>5. \A id \in EntryIds(Current) :
        handles'[id].fiber = IF id \in Target THEN tx.candidate[id] ELSE NoFiber
  BY <1>3, CommittedFields DEF Target
<1>6. Mounted' = Target
  <2>1. configured' = EntryIds(Current) /\ Target \subseteq EntryIds(Current)
    BY <1>1, CurrentSubmitted DEF Commit
  <2> QED
    BY <1>4, <1>5, <2>1 DEF Mounted, NoFiber
<1> QED
  BY <1>1, <1>2, <1>3, <1>6 DEF Commit

LEMMA HandleStep ==
  ASSUME TypeInv, HandleInv, TxInv, TeardownInv, MountInv, RestoreInv, [Next]_vars
  PROVE  HandleInv'
<1>1. ASSUME NEW f, NEW plugin, NEW context, Runs(f, plugin, context)
      PROVE  /\ f \in DOMAIN fibers' /\ fibers'[f].id = plugin.id
             /\ fibers'[f].plugin = plugin /\ fibers'[f].context = context
  BY <1>1, FibersKeep DEF Runs
<1>2. CASE handles' = handles /\ configured' = configured
  <2>1. Mounted' = Mounted /\ Handles' = Handles
    BY <1>2 DEF Mounted, Handles
  <2>2. ASSUME NEW id \in Handles
        PROVE  handles'[id].plugin \in {NoPlugin, Bundled(id)'}
    BY <1>2, <2>2 DEF HandleInv, Bundled
  <2>3. ASSUME NEW id \in Mounted
        PROVE  /\ handles'[id].plugin = Bundled(id)'
               /\ Runs(handles[id].fiber, Bundled(id), handles[id].context)'
    <3>1. /\ handles[id].plugin = Bundled(id)
          /\ Runs(handles[id].fiber, Bundled(id), handles[id].context)
      BY DEF HandleInv
    <3>2. Bundled(id)' = Bundled(id)
      BY <1>2 DEF Bundled
    <3> QED
      BY <1>1, <1>2, <3>1, <3>2 DEF Runs
  <2> QED
    BY <2>1, <2>2, <2>3 DEF HandleInv
<1>3. CASE Commit
  <2>1. ASSUME NEW id \in Handles' PROVE handles'[id].plugin \in {NoPlugin, Bundled(id)'}
    <3>1. id \in Ids
      BY DEF Handles
    <3>2. CASE id \in Target
      <4>1. handles'[id].plugin = Wanted(id)
        BY <1>3, <3>2, CommitHandles, CurrentSubmitted
           DEF CommittedHandle, Target, Commit, MountInv, Runs
      <4>2. Bundled(id)' = Wanted(id)
        BY <1>3, <3>2, CommitHandles, CurrentSubmitted, CommittedFields
           DEF Bundled, Wanted, WantedContext
      <4> QED
        BY <4>1, <4>2
    <3>3. CASE id \in EntryIds(Current) \ Target
      <4>1. handles'[id] = CommittedHandle(Current, id) /\ id \notin Active(Current)
        BY <1>3, <3>3, CommitHandles DEF Target
      <4>2. CASE handles[id] # NoHandle /\ SameAs(id, EntryOf(Current, id))
        <5>1. handles[id].plugin \in {NoPlugin, Bundled(id)}
          BY <3>1, <4>2 DEF Handles, HandleInv
        <5>2. handles'[id].plugin = handles[id].plugin
          BY <4>1, <4>2 DEF CommittedHandle
        <5>3. Bundled(id)' = Bundled(id)
          BY <4>1, <4>2 DEF CommittedHandle, Bundled, SameAs
        <5> QED
          BY <5>1, <5>2, <5>3
      <4>3. CASE ~(handles[id] # NoHandle /\ SameAs(id, EntryOf(Current, id)))
        BY <4>1, <4>3 DEF CommittedHandle
      <4> QED
        BY <4>2, <4>3
    <3>4. CASE id \notin EntryIds(Current)
      <4>1. handles'[id] = IF id \in configured THEN Forget(handles[id]) ELSE handles[id]
        BY <1>3, <3>1, <3>4, CommitHandles
      <4>2. id \in configured => handles[id] \in Handle /\ handles[id] # NoHandle
        BY BundledIsPlugin DEF TypeInv, Handles
      <4>3. handles[id] # NoHandle
        BY <4>1, <4>2 DEF Handles
      <4>4. /\ handles'[id].plugin = handles[id].plugin
            /\ handles'[id].revision = handles[id].revision
            /\ handles'[id].context = handles[id].context
        BY <4>1, <4>2 DEF Forget, Handle
      <4> QED
        BY <3>1, <4>3, <4>4 DEF HandleInv, Handles, Bundled
    <3> QED
      BY <1>3, <3>2, <3>3, <3>4
  <2>2. ASSUME NEW id \in Mounted'
        PROVE  /\ handles'[id].plugin = Bundled(id)'
               /\ Runs(handles[id].fiber, Bundled(id), handles[id].context)'
    <3>1. id \in Target /\ id \in EntryIds(Current)
      BY <1>3, <2>2, CommitHandles, CurrentSubmitted
    <3>2. Runs(tx.candidate[id], Wanted(id), WantedContext(id))
      BY <1>3, <3>1, CommitHandles DEF MountInv, Commit
    <3>3. /\ handles'[id].plugin = fibers[tx.candidate[id]].plugin
          /\ handles'[id].fiber = tx.candidate[id]
          /\ handles'[id].context = WantedContext(id)
          /\ Bundled(id)' = Wanted(id)
      BY <1>3, <3>1, CommitHandles, CommittedFields
         DEF Target, Bundled, Wanted, WantedContext
    <3> QED
      BY <1>1, <3>2, <3>3 DEF Runs
  <2> QED
    BY <2>1, <2>2 DEF HandleInv
<1>4. CASE EndRollback
  <2>1. tx # Idle
    BY <1>4 DEF EndRollback, Idle
  <2>2. DOMAIN tx.candidate \subseteq Mounted /\ Mounted \subseteq Handles
    BY <1>4, <2>1, SetsOfIds DEF EndRollback, RestoreInv, TxInv
  <2>3. \A id \in Ids : handles'[id] =
          IF id \in DOMAIN tx.candidate
            THEN [handles[id] EXCEPT !.fiber = tx.candidate[id]] ELSE handles[id]
    BY <1>4 DEF EndRollback
  <2>4. ASSUME NEW id \in Handles
        PROVE  /\ handles'[id].plugin = handles[id].plugin
               /\ handles'[id].context = handles[id].context
               /\ Bundled(id)' = Bundled(id)
               /\ handles'[id].fiber = IF id \in DOMAIN tx.candidate
                                         THEN tx.candidate[id] ELSE handles[id].fiber
    BY <2>3, BundledIsPlugin DEF Bundled, Handle, Handles
  <2>5. Handles' \subseteq Handles
    BY <2>2, <2>3 DEF Handles
  <2>6. Mounted' \subseteq Mounted
    <3>1. configured' = configured /\ configured \subseteq Handles
      BY <1>4 DEF EndRollback, TypeInv, Handles
    <3> QED
      BY <2>2, <2>4, <3>1 DEF Mounted
  <2>7. ASSUME NEW id \in Mounted
        PROVE  /\ handles'[id].plugin = Bundled(id)'
               /\ Runs(handles[id].fiber, Bundled(id), handles[id].context)'
    <3>1. id \in Handles /\ handles[id].plugin = Bundled(id)
      BY <2>2, <2>7 DEF HandleInv
    <3>2. Runs(handles'[id].fiber, Bundled(id), handles[id].context)
      BY <1>4, <2>4, <2>7, <3>1 DEF EndRollback, RestoreInv, HandleInv
    <3> QED
      BY <1>1, <2>4, <3>1, <3>2 DEF Runs
  <2> QED
    BY <2>4, <2>5, <2>6, <2>7 DEF HandleInv
<1> QED
  BY <1>2, <1>3, <1>4, QuietSteps

-----------------------------------------------------------------------------
(* The states of fibers *)

(* Who changes the state of a fiber, and to what. *)
LEMMA StateMoves ==
  ASSUME TypeInv, HandleInv, TxInv, TeardownInv, MountInv, RestoreInv, [Next]_vars,
         NEW f \in DOMAIN fibers
  PROVE  \/ fibers'[f].state = fibers[f].state
         \/ fibers[f].state = "pending" /\ fibers'[f].state = "loading" /\ tx' = tx
         \/ fibers[f].state = "loading" /\ fibers'[f].state \in {"active", "failed"} /\ tx' = tx
         \/ /\ fibers[f].state \in {"loading", "active", "failed"} /\ tx' = tx
            /\ fibers'[f].state = "pending" /\ Needs[fibers[f].id] # {}
         \/ \E id \in tx.retire : /\ DisposeOld(id) /\ id \in Mounted
                                  /\ f = handles[id].fiber
                                  /\ fibers' = SetState(f, fibers'[f].state)
                                  /\ fibers'[f].state \in {"disposed", "broken"}
         \/ UndoNew /\ f \in Fresh /\ fibers'[f].state \in {"disposed", "broken"}
<1> DEFINE Moves ==
      \/ fibers'[f].state = fibers[f].state
      \/ fibers[f].state = "pending" /\ fibers'[f].state = "loading" /\ tx' = tx
      \/ fibers[f].state = "loading" /\ fibers'[f].state \in {"active", "failed"} /\ tx' = tx
      \/ /\ fibers[f].state \in {"loading", "active", "failed"} /\ tx' = tx
         /\ fibers'[f].state = "pending" /\ Needs[fibers[f].id] # {}
      \/ \E id \in tx.retire : /\ DisposeOld(id) /\ id \in Mounted
                               /\ f = handles[id].fiber
                               /\ fibers' = SetState(f, fibers'[f].state)
                               /\ fibers'[f].state \in {"disposed", "broken"}
      \/ UndoNew /\ f \in Fresh /\ fibers'[f].state \in {"disposed", "broken"}
<1> SUFFICES Moves
  OBVIOUS
<1>0. fibers \in Seq(Fiber)
  BY DEF TypeInv
<1>1. ASSUME NEW g \in DOMAIN fibers, FiberSettles(g) PROVE Moves
  <2>1. \A s \in States : fibers' = SetState(g, s) =>
          /\ fibers'[g].state = s
          /\ f # g => fibers'[f] = fibers[f]
    BY StateSet
  <2> QED
    BY <1>1, <2>1 DEF FiberSettles, States
<1>2. ASSUME NEW g \in DOMAIN fibers, FiberStarts(g) \/ FiberStops(g) PROVE Moves
  <2>1. PICK s \in {"pending", "loading"} :
          /\ fibers' = SetState(g, s) /\ tx' = tx
          /\ \/ fibers[g].state = "pending" /\ s = "loading"
             \/ /\ fibers[g].state \in {"loading", "active", "failed"}
                /\ s = "pending" /\ ~Runnable(fibers[g].id)
    BY <1>2 DEF FiberStarts, FiberStops
  <2>2. fibers'[g].state = s /\ (f # g => fibers'[f] = fibers[f])
    BY <2>1, StateSet DEF States
  <2> QED
    BY <2>1, <2>2 DEF Runnable
<1>3. ASSUME NEW id \in Ids, DisposeOld(id) PROVE Moves
  <2> DEFINE g == handles[id].fiber
  <2>1. id \in tx.retire /\ id \in Mounted
    BY <1>3, SetsOfIds DEF DisposeOld, NextToRetire, TeardownInv
  <2>2. g \in DOMAIN fibers
    BY <2>1 DEF HandleInv, Runs
  <2>3. PICK s \in {"disposed", "broken"} : fibers' = SetState(g, s)
    BY <1>3 DEF DisposeOld
  <2>4. fibers'[g].state = s /\ (f # g => fibers'[f] = fibers[f])
    BY <2>2, <2>3, StateSet DEF States
  <2> HIDE DEF g
  <2> QED
    BY <1>3, <2>1, <2>3, <2>4 DEF g
<1>4. CASE UndoNew
  <2> DEFINE g == tx.fresh[Len(tx.fresh)]
  <2>1. tx \in Transactions /\ tx # Idle
    BY <1>4 DEF TypeInv, UndoNew, Idle
  <2>2. Len(tx.fresh) \in DOMAIN tx.fresh
    BY <1>4, <2>1 DEF UndoNew, Transactions
  <2>3. g \in DOMAIN fibers /\ g \in Fresh
    BY <2>1, <2>2 DEF TxInv, Fresh
  <2>4. PICK s \in {"disposed", "broken"} : fibers' = SetState(g, s)
    BY <1>4 DEF UndoNew
  <2>5. fibers'[g].state = s /\ (f # g => fibers'[f] = fibers[f])
    BY <2>3, <2>4, StateSet DEF States
  <2> HIDE DEF g
  <2> QED
    BY <1>4, <2>3, <2>5
<1>5. CASE \E id \in Ids : MountNew(id) \/ RestoreOld(id)
  <2>1. fibers' = fibers \/ \E x : fibers' = Append(fibers, x)
    BY <1>5 DEF MountNew, RestoreOld
  <2> QED
    BY <1>0, <2>1, FibersKeep
<1>6. ASSUME fibers' = fibers PROVE Moves
  BY <1>6
<1> HIDE DEF Moves
<1> QED
  <2>1. [Next]_vars =>
          \/ \E g \in DOMAIN fibers : FiberStarts(g) \/ FiberSettles(g) \/ FiberStops(g)
          \/ \E id \in Ids : DisposeOld(id) \/ MountNew(id) \/ RestoreOld(id)
          \/ UndoNew \/ fibers' = fibers
    BY DEF Next, vars, Transaction, Reconcile, BeginApply, LoadPlugins, AllDisposed, Commit,
         EndRollback, AwaitCandidateFails, StartRestore, FiberStep, AwaitOne
  <2> QED
    BY <1>1, <1>2, <1>3, <1>4, <1>5, <1>6, <2>1

(* Two mounted entries never share a fiber. *)
LEMMA FibersDiffer ==
  ASSUME HandleInv, NEW a \in Mounted, NEW b \in Mounted, handles[a].fiber = handles[b].fiber
  PROVE  a = b
BY DEF HandleInv, Runs, Bundled

-----------------------------------------------------------------------------
(* The transaction *)

LEMMA Begins ==
  ASSUME TypeInv, tx = Idle, tx' # Idle, [Next]_vars
  PROVE  /\ BeginApply /\ Valid(Current) /\ Len(outcome) < Len(submitted)
         /\ handles' = handles /\ configured' = configured /\ fibers' = fibers
         /\ outcome' = outcome /\ submitted' = submitted /\ Current' = Current
         /\ tx' = [phase |-> "load", retire |-> Gone, mount |-> Come,
                   plugins |-> [id \in Come |-> PluginFor(Current, id)],
                   candidate |-> [id \in Mounted |-> handles[id].fiber],
                   fresh |-> <<>>, retired |-> {}, awaited |-> {}, errors |-> 0]
<1>1. BeginApply
  BY DEF Next, vars, Idle, Transaction, Reconcile, LoadPlugins, AllDisposed, Commit,
       EndRollback, AwaitCandidateFails, UndoNew, StartRestore, DisposeOld, MountNew,
       RestoreOld, FiberStep, FiberStarts, FiberSettles, FiberStops, AwaitOne
<1>2. Valid(Current)
  BY <1>1 DEF BeginApply, Settle
<1> QED
  BY <1>1, <1>2 DEF BeginApply, Gone, Come, Current

(* What is retired stays so until the transaction ends. *)
LEMMA RetiredGrows ==
  ASSUME tx \in Transactions, tx # Idle, tx' # Idle, [Next]_vars
  PROVE  \/ tx'.retired = tx.retired
         \/ \E id \in Ids : DisposeOld(id) /\ tx'.retired = tx.retired \cup {id}
                            /\ fibers' = SetState(handles[id].fiber, "disposed")
BY DEF Transactions, Next, vars, Transaction, Reconcile, BeginApply, LoadPlugins,
AllDisposed,
   Commit, EndRollback, AwaitCandidateFails, UndoNew, StartRestore, DisposeOld,
   MountNew, RestoreOld, FiberStep, FiberStarts, FiberSettles, FiberStops, AwaitOne, Settle

(* The phases a transaction goes through. *)
LEMMA PhaseMoves ==
  ASSUME tx \in Transactions, [Next]_vars
  PROVE  \/ tx'.phase = tx.phase
         \/ tx.phase = "load" /\ tx'.phase \in {"dispose", "idle"}
         \/ tx.phase = "dispose" /\ tx'.phase = "undo"
         \/ tx.phase = "dispose" /\ AllDisposed /\ tx'.phase = "mount"
         \/ tx.phase = "mount" /\ tx'.phase = "undo"
         \/ tx.phase = "undo" /\ StartRestore /\ tx'.phase = "restore"
         \/ Commit \/ EndRollback
<1>1. tx # Idle
  BY DEF Transactions, Phases, Idle
<1>2. CASE tx' = tx
  BY <1>2
<1>3. CASE LoadPlugins
  BY <1>3 DEF LoadPlugins, Settle, Idle, Transactions
<1>4. CASE AllDisposed \/ AwaitCandidateFails \/ StartRestore
  BY <1>4 DEF AllDisposed, AwaitCandidateFails, StartRestore, Transactions
<1>5. CASE UndoNew
  BY <1>5 DEF UndoNew, Transactions
<1>6. ASSUME NEW id \in Ids, DisposeOld(id) \/ MountNew(id) \/ RestoreOld(id)
      PROVE  \/ tx'.phase = tx.phase
             \/ tx.phase = "dispose" /\ tx'.phase = "undo"
             \/ tx.phase = "mount" /\ tx'.phase = "undo"
  BY <1>6 DEF DisposeOld, MountNew, RestoreOld, Transactions
<1>7. ~BeginApply
  BY <1>1 DEF BeginApply
<1>8. ASSUME NEW f \in DOMAIN fibers, AwaitOne(f) PROVE tx'.phase = tx.phase
  BY <1>8 DEF AwaitOne, Transactions
<1> QED
  BY <1>2, <1>3, <1>4, <1>5, <1>6, <1>7, <1>8
     DEF Next, vars, Transaction, Reconcile, FiberStep, FiberStarts, FiberSettles,
     FiberStops, AwaitOne

LEMMA TxStep ==
  ASSUME TypeInv, HandleInv, TxInv, TeardownInv, MountInv, RestoreInv, [Next]_vars
  PROVE  TxInv'
<1> SUFFICES ASSUME tx' # Idle PROVE TxInv'
  BY DEF TxInv
<1>1. CASE tx = Idle
  BY <1>1, Begins DEF TxInv
<1>2. CASE tx # Idle
  <2> USE <1>2
  <2>1. /\ Len(outcome) < Len(submitted) /\ Valid(Current)
        /\ tx \in Transactions
    BY DEF TxInv, TypeInv
  <2>2. /\ handles' = handles /\ configured' = configured /\ Current' = Current
        /\ Len(outcome') < Len(submitted')
        /\ Mounted' = Mounted /\ Gone' = Gone
    BY <2>1, CurrentKept, Frame
  <2>3. Valid(Current)'
    BY <2>1, <2>2 DEF Valid
  <2>4. \/ tx'.retired = tx.retired
        \/ \E id \in Ids : DisposeOld(id) /\ tx'.retired = tx.retired \cup {id}
                           /\ fibers' = SetState(handles[id].fiber, "disposed")
    BY <2>1, RetiredGrows
  <2>5. tx'.retired \subseteq Gone
    <3>1. tx.retired \subseteq Gone
      BY DEF TxInv
    <3>2. ASSUME NEW o \in Ids, DisposeOld(o) PROVE o \in Gone
      <4>1. tx.phase = "dispose" /\ o \in tx.retire
        BY <3>2 DEF DisposeOld, NextToRetire
      <4>2. tx.retire \cup tx.retired = Gone
        BY <4>1 DEF TeardownInv
      <4> QED
        BY <4>1, <4>2
    <3> QED
      BY <2>4, <3>1, <3>2
  <2>6. ASSUME NEW id \in tx'.retired PROVE fibers'[handles[id].fiber].state = "disposed"
    <3>1. id \in Mounted /\ handles[id].fiber \in DOMAIN fibers
      BY <2>5, SetsOfIds DEF HandleInv, Runs
    <3>2. CASE id \in tx.retired
      <4>1. fibers[handles[id].fiber].state = "disposed"
        BY <3>2 DEF TxInv
      <4>2. handles[id].fiber \notin Fresh
        BY <3>1 DEF TxInv, Fresh
      <4>3. ASSUME NEW o \in tx.retire, DisposeOld(o), o \in Mounted,
                   handles[id].fiber = handles[o].fiber
            PROVE  FALSE
        BY <3>1, <3>2, <4>3, FibersDiffer DEF TeardownInv, DisposeOld
      <4> QED
        BY <3>1, <4>1, <4>2, <4>3, StateMoves
    <3>3. CASE id \notin tx.retired
      <4>1. fibers' = SetState(handles[id].fiber, "disposed")
        BY <2>4, <3>3
      <4> QED
        BY <3>1, <4>1, StateSet DEF States
    <3> QED
      BY <3>2, <3>3
  <2>7. ASSUME NEW i \in DOMAIN tx'.fresh
        PROVE  /\ tx'.fresh[i] \in DOMAIN fibers'
               /\ \A id \in Mounted : tx'.fresh[i] # handles[id].fiber
    <3>1. CASE \E j \in DOMAIN tx.fresh : tx'.fresh[i] = tx.fresh[j]
      BY <3>1, FibersKeep DEF TxInv
    <3>2. CASE \E id \in Ids : /\ MountNew(id) /\ tx'.fresh = Append(tx.fresh, Len(fibers) + 1)
                               /\ \E x : fibers' = Append(fibers, x)
      <4>1. tx.fresh \in Seq(Nat) /\ fibers \in Seq(Fiber)
        BY <2>1 DEF Transactions, TypeInv
      <4>2. CASE i = Len(tx.fresh) + 1
        BY <3>2, <4>1, <4>2 DEF HandleInv, Runs
      <4>3. CASE i # Len(tx.fresh) + 1
        BY <3>1, <3>2, <4>1, <4>3
      <4> QED
        BY <4>2, <4>3
    <3>3. CASE UndoNew
      <4>1. tx.fresh \in Seq(Nat) /\ tx.fresh # <<>>
        BY <2>1, <3>3 DEF UndoNew, Transactions
      <4>2. tx'.fresh = SubSeq(tx.fresh, 1, Len(tx.fresh) - 1)
        BY <2>1, <3>3 DEF UndoNew, Transactions
      <4>3. i \in DOMAIN tx.fresh /\ tx'.fresh[i] = tx.fresh[i]
        BY <2>7, <4>1, <4>2
      <4> QED
        BY <3>1, <4>3
    <3>4. CASE tx'.fresh = tx.fresh
      BY <2>7, <3>1, <3>4
    <3> QED
      <4>1. \/ tx'.fresh = tx.fresh
            \/ UndoNew
            \/ \E id \in Ids : /\ MountNew(id) /\ tx'.fresh = Append(tx.fresh, Len(fibers) + 1)
                               /\ \E x : fibers' = Append(fibers, x)
        BY <2>1
           DEF Transactions, Next, vars, Transaction, Reconcile, BeginApply, LoadPlugins,
           AllDisposed, Commit, EndRollback, AwaitCandidateFails, StartRestore, DisposeOld,
           MountNew, RestoreOld, FiberStep, FiberStarts, FiberSettles, FiberStops, AwaitOne,
           Settle
      <4> QED
        BY <3>2, <3>3, <3>4, <4>1
  <2> QED
    BY <2>2, <2>3, <2>5, <2>6, <2>7 DEF TxInv
<1> QED
  BY <1>1, <1>2

LEMMA TeardownStep ==
  ASSUME TypeInv, HandleInv, TxInv, TeardownInv, MountInv, RestoreInv, [Next]_vars
  PROVE  TeardownInv'
<1> SUFFICES ASSUME tx'.phase \in {"load", "dispose"} PROVE TeardownInv'
  BY DEF TeardownInv
<1>0. tx' # Idle
  BY DEF Idle
<1>1. CASE tx = Idle
  <2>1. /\ Gone' = Gone /\ Come' = Come /\ Mounted' = Mounted
        /\ \A id : Wanted(id)' = Wanted(id)
    BY <1>0, <1>1, Begins, Frame
  <2>2. ASSUME NEW id \in Come PROVE PluginFor(Current, id) = Wanted(id)
    BY DEF PluginFor, Wanted, WantedContext, Cached, SameAs, HandleInv, Bundled
  <2>3. tx'.plugins = [id \in Come |-> PluginFor(Current, id)]
    BY <1>0, <1>1, Begins
  <2>4. \A id \in Come : tx'.plugins[id] = Wanted(id)
    BY <2>2, <2>3
  <2>5. tx'.candidate = [id \in Mounted \ tx'.retired |-> handles'[id].fiber]
    BY <1>0, <1>1, Begins
  <2> QED
    BY <1>0, <1>1, <2>1, <2>4, <2>5, Begins DEF TeardownInv
<1>2. CASE tx # Idle
  <2>1. Len(outcome) < Len(submitted) /\ tx \in Transactions
    BY <1>2 DEF TxInv, TypeInv
  <2>2. /\ handles' = handles /\ configured' = configured /\ Current' = Current
        /\ Mounted' = Mounted /\ Gone' = Gone /\ Come' = Come
        /\ \A id : Wanted(id)' = Wanted(id)
    BY <1>0, <1>2, <2>1, CurrentKept, Frame
  <2>3. \/ tx' = tx
        \/ LoadPlugins /\ tx' = [tx EXCEPT !.phase = "dispose"]
        \/ \E id \in Ids :
             /\ DisposeOld(id)
             /\ tx' = [tx EXCEPT !.retire = @ \ {id}, !.retired = @ \cup {id},
                                 !.candidate = Without(@, id)]
    BY <1>0, <1>2, <2>1
       DEF Transactions, Phases, Next, vars, Transaction, Reconcile, BeginApply,
       LoadPlugins,
       AllDisposed, Commit, EndRollback, AwaitCandidateFails, UndoNew, StartRestore,
       DisposeOld, MountNew, RestoreOld, FiberStep, FiberStarts, FiberSettles,
       FiberStops, AwaitOne, Settle
  <2>4. CASE tx' = tx
    BY <2>2, <2>4 DEF TeardownInv
  <2>5. CASE LoadPlugins /\ tx' = [tx EXCEPT !.phase = "dispose"]
    BY <2>1, <2>2, <2>5 DEF TeardownInv, LoadPlugins, Transactions
  <2>6. ASSUME NEW id \in Ids, DisposeOld(id),
               tx' = [tx EXCEPT !.retire = @ \ {id}, !.retired = @ \cup {id},
                                !.candidate = Without(@, id)]
        PROVE  TeardownInv'
    <3>1. /\ tx'.phase = "dispose" /\ tx'.mount = tx.mount /\ tx'.plugins = tx.plugins
          /\ tx'.fresh = tx.fresh
          /\ tx'.retire = tx.retire \ {id} /\ tx'.retired = tx.retired \cup {id}
          /\ tx'.candidate = Without(tx.candidate, id)
      BY <2>1, <2>6 DEF Transactions, DisposeOld
    <3>2. id \in tx.retire /\ tx.phase = "dispose"
      BY <2>6 DEF DisposeOld, NextToRetire
    <3>3. tx.candidate = [o \in Mounted \ tx.retired |-> handles[o].fiber]
      BY <3>2 DEF TeardownInv
    <3>4. tx'.candidate = [o \in Mounted \ tx'.retired |-> handles[o].fiber]
      BY <3>1, <3>3 DEF Without
    <3> QED
      BY <2>2, <3>1, <3>2, <3>4 DEF TeardownInv
  <2> QED
    BY <2>3, <2>4, <2>5, <2>6
<1> QED
  BY <1>1, <1>2

(* A fiber that runs a plugin goes on running it. *)
LEMMA RunsOn ==
  ASSUME TypeInv, HandleInv, TxInv, TeardownInv, MountInv, RestoreInv, [Next]_vars,
         NEW f, NEW plugin, NEW context, Runs(f, plugin, context)
  PROVE  /\ f \in DOMAIN fibers' /\ fibers'[f].id = plugin.id
         /\ fibers'[f].plugin = plugin /\ fibers'[f].context = context
BY FibersKeep DEF Runs

(* The entries a manifest leaves alone are those it wants as they are. *)
LEMMA Preserved ==
  ASSUME TypeInv, HandleInv, NEW id \in Mounted \ Gone
  PROVE  /\ id \in Target \ Come
         /\ Wanted(id) = Bundled(id) /\ WantedContext(id) = handles[id].context
<1>1. id \in Target /\ id \notin UpdatedIds(Current)
  BY DEF Gone, RemovedIds, Target
<1>2. SameAs(id, EntryOf(Current, id))
  BY <1>1 DEF UpdatedIds, Target
<1> QED
  BY <1>1, <1>2 DEF Come, AddedIds, Target, SameAs, Wanted, WantedContext, Bundled

LEMMA MountStep ==
  ASSUME TypeInv, HandleInv, TxInv, TeardownInv, MountInv, RestoreInv, [Next]_vars
  PROVE  MountInv'
<1> SUFFICES ASSUME tx'.phase = "mount" PROVE MountInv'
  BY DEF MountInv
<1>1. tx # Idle /\ tx' # Idle
  BY Begins DEF Idle
<1>2. Len(outcome) < Len(submitted) /\ tx \in Transactions
  BY <1>1 DEF TxInv, TypeInv
<1>3. /\ handles' = handles /\ configured' = configured /\ Current' = Current
      /\ Mounted' = Mounted /\ Gone' = Gone /\ Come' = Come /\ Target' = Target
      /\ \A id : Wanted(id)' = Wanted(id) /\ WantedContext(id)' = WantedContext(id)
  BY <1>1, <1>2, CurrentKept, Frame
<1>4. \/ tx' = tx
      \/ \E f \in DOMAIN fibers : AwaitOne(f)
      \/ AllDisposed
      \/ \E id \in Ids :
           /\ MountNew(id)
           /\ fibers' = Append(fibers, NewFiber(tx.plugins[id], EntryOf(Current, id).context))
           /\ tx' = [tx EXCEPT !.mount = @ \ {id},
                               !.fresh = Append(@, Len(fibers) + 1),
                               !.candidate = [x \in DOMAIN @ \cup {id} |->
                                  IF x = id THEN Len(fibers) + 1 ELSE @[x]]]
  BY <1>1, <1>2
     DEF Transactions, Phases, Next, vars, Transaction, Reconcile, BeginApply, LoadPlugins,
     Commit, EndRollback, AwaitCandidateFails, UndoNew, StartRestore, DisposeOld,
     MountNew, RestoreOld, FiberStep, FiberStarts, FiberSettles, FiberStops, AwaitOne, Settle
<1>5. CASE tx' = tx \/ \E f \in DOMAIN fibers : AwaitOne(f)
  <2>0. /\ tx'.phase = tx.phase /\ tx'.mount = tx.mount /\ tx'.plugins = tx.plugins
        /\ tx'.candidate = tx.candidate /\ tx'.retired = tx.retired
    BY <1>5, AwaitKeeps
  <2>1. \A id \in DOMAIN tx.candidate : Runs(tx.candidate[id], Wanted(id), WantedContext(id))
    BY <2>0 DEF MountInv
  <2>2. \A id \in DOMAIN tx.candidate : Runs(tx.candidate[id], Wanted(id), WantedContext(id))'
    BY <1>3, <2>0, <2>1, RunsOn DEF Runs
  <2> QED
    BY <1>3, <2>0, <2>2 DEF MountInv
<1>6. CASE AllDisposed
  <2>1. /\ tx.phase = "dispose" /\ tx.retire = {} /\ fibers' = fibers
        /\ tx' = [tx EXCEPT !.phase = "mount"]
    BY <1>6 DEF AllDisposed
  <2>2. /\ tx'.retired = tx.retired /\ tx'.mount = tx.mount /\ tx'.plugins = tx.plugins
        /\ tx'.candidate = tx.candidate
    BY <1>2, <2>1 DEF Transactions
  <2>3. /\ tx.retired = Gone /\ tx.mount = Come
        /\ tx.candidate = [id \in Mounted \ Gone |-> handles[id].fiber]
    BY <2>1 DEF TeardownInv
  <2>4. Mounted \ Gone = Target \ Come
    <3>1. Mounted \ Gone \subseteq Target \ Come
      BY Preserved
    <3>2. Target \ Come \subseteq Mounted \ Gone
      BY DEF Gone, Come, RemovedIds, AddedIds, Target, UpdatedIds
    <3> QED
      BY <3>1, <3>2
  <2>5. ASSUME NEW id \in Mounted \ Gone
        PROVE  Runs(tx.candidate[id], Wanted(id), WantedContext(id))'
    <3>1. Runs(handles[id].fiber, Bundled(id), handles[id].context)
      BY DEF HandleInv
    <3>2. Runs(tx.candidate[id], Wanted(id), WantedContext(id))
      BY <2>3, <3>1, Preserved
    <3> QED
      BY <1>3, <2>1, <2>2, <3>2 DEF Runs
  <2> QED
    BY <1>3, <2>1, <2>2, <2>3, <2>4, <2>5 DEF MountInv, TeardownInv
<1>7. ASSUME NEW id \in Ids, MountNew(id),
             fibers' = Append(fibers, NewFiber(tx.plugins[id], EntryOf(Current, id).context)),
             tx' = [tx EXCEPT !.mount = @ \ {id},
                              !.fresh = Append(@, Len(fibers) + 1),
                              !.candidate = [x \in DOMAIN @ \cup {id} |->
                                 IF x = id THEN Len(fibers) + 1 ELSE @[x]]]
      PROVE  MountInv'
  <2>1. tx.phase = "mount" /\ id \in tx.mount
    BY <1>7 DEF MountNew, NextToMount
  <2>2. /\ DOMAIN tx'.candidate = DOMAIN tx.candidate \cup {id}
        /\ tx'.candidate[id] = Len(fibers) + 1
        /\ \A x \in DOMAIN tx.candidate : x # id => tx'.candidate[x] = tx.candidate[x]
        /\ tx'.mount = tx.mount \ {id}
        /\ tx'.retired = tx.retired /\ tx'.plugins = tx.plugins
    BY <1>2, <1>7 DEF Transactions
  <2>3. /\ id \in Come /\ id \in Target /\ id \notin DOMAIN tx.candidate
        /\ tx.plugins[id] = Wanted(id)
    BY <2>1, SetsOfIds DEF MountInv
  <2>4. ASSUME NEW x \in DOMAIN tx'.candidate
        PROVE  Runs(tx.candidate[x], Wanted(x), WantedContext(x))'
    <3>1. CASE x = id
      <4>1. Wanted(id) \in Plugin /\ WantedContext(id) \in Contexts
        BY <1>2, <2>3, CurrentSubmitted, WantedIsPlugin
      <4>2. /\ Len(fibers) + 1 \in DOMAIN fibers'
            /\ fibers'[Len(fibers) + 1] = NewFiber(Wanted(id), WantedContext(id))
        BY <1>7, <2>3, <4>1, FiberMade DEF WantedContext
      <4> QED
        BY <1>3, <2>2, <3>1, <4>2 DEF Runs, NewFiber
    <3>2. CASE x # id
      <4>1. Runs(tx.candidate[x], Wanted(x), WantedContext(x))
        BY <2>1, <2>2, <3>2 DEF MountInv
      <4> QED
        BY <1>3, <2>2, <3>2, <4>1, RunsOn DEF Runs
    <3> QED
      BY <3>1, <3>2
  <2>5. DOMAIN tx'.candidate = Target \ tx'.mount
    BY <2>1, <2>2, <2>3, SetsOfIds DEF MountInv
  <2>6. \A x \in Mounted \ Gone : tx'.candidate[x] = handles[x].fiber
    BY <2>1, <2>2, <2>3, Preserved DEF MountInv
  <2>7. /\ tx'.retired = Gone /\ tx'.mount \subseteq Come
        /\ \A x \in tx'.mount : tx'.plugins[x] = Wanted(x)
    BY <2>1, <2>2 DEF MountInv
  <2> QED
    BY <1>3, <2>4, <2>5, <2>6, <2>7 DEF MountInv
<1> QED
  BY <1>4, <1>5, <1>6, <1>7

LEMMA RestoreStep ==
  ASSUME TypeInv, HandleInv, TxInv, TeardownInv, MountInv, RestoreInv, [Next]_vars
  PROVE  RestoreInv'
<1> SUFFICES ASSUME tx'.phase = "restore" PROVE RestoreInv'
  BY DEF RestoreInv
<1>1. tx # Idle /\ tx' # Idle
  BY Begins DEF Idle
<1>2. Len(outcome) < Len(submitted) /\ tx \in Transactions
  BY <1>1 DEF TxInv, TypeInv
<1>3. /\ handles' = handles /\ Mounted' = Mounted
      /\ \A id : Bundled(id)' = Bundled(id)
  BY <1>1, <1>2, CurrentKept, Frame
<1>4. \/ tx' = tx
      \/ \E f \in DOMAIN fibers : AwaitOne(f)
      \/ StartRestore
      \/ \E id \in Ids : RestoreOld(id)
  BY <1>1, <1>2
     DEF Transactions, Phases, Next, vars, Transaction, Reconcile, BeginApply, LoadPlugins,
     Commit, EndRollback, AwaitCandidateFails, UndoNew, AllDisposed, DisposeOld,
     MountNew, FiberStep, FiberStarts, FiberSettles, FiberStops, AwaitOne, Settle
<1>5. ASSUME NEW id \in DOMAIN tx.candidate, tx.phase = "restore",
             tx'.candidate[id] = tx.candidate[id]
      PROVE  Runs(tx.candidate[id], Bundled(id), handles[id].context)'
  <2>1. Runs(tx.candidate[id], Bundled(id), handles[id].context)
    BY <1>5 DEF RestoreInv
  <2> QED
    BY <1>3, <1>5, <2>1, RunsOn DEF Runs
<1>6. CASE tx' = tx \/ \E f \in DOMAIN fibers : AwaitOne(f)
  <2>1. /\ tx'.phase = tx.phase /\ tx'.mount = tx.mount /\ tx'.fresh = tx.fresh
        /\ tx'.candidate = tx.candidate /\ tx'.retired = tx.retired
        /\ tx'.errors = tx.errors
    BY <1>6, AwaitKeeps
  <2> QED
    BY <1>5, <2>1 DEF RestoreInv
<1>7. CASE StartRestore
  <2>1. tx' = [tx EXCEPT !.phase = "restore", !.mount = tx.retired, !.candidate = NoEntry,
                         !.awaited = {}]
    BY <1>7 DEF StartRestore
  <2>2. /\ tx'.fresh = tx.fresh /\ tx'.mount = tx.retired /\ tx'.candidate = <<>>
        /\ tx'.retired = tx.retired
    BY <1>2, <2>1 DEF Transactions, NoEntry
  <2>3. DOMAIN tx'.candidate = {} /\ tx.fresh = <<>>
    BY <1>7, <2>2 DEF StartRestore
  <2> QED
    BY <2>2, <2>3 DEF RestoreInv
<1>8. ASSUME NEW id \in Ids, RestoreOld(id) PROVE RestoreInv'
  <2>1. tx.phase = "restore" /\ id \in tx.mount /\ id \in tx.retired
    BY <1>8 DEF RestoreOld, RestoreInv
  <2>2. CASE tx' = [tx EXCEPT !.mount = @ \ {id}, !.errors = @ + 1]
    <3>1. /\ tx'.mount = tx.mount \ {id} /\ tx'.errors = tx.errors + 1
          /\ tx'.candidate = tx.candidate /\ tx'.fresh = tx.fresh /\ tx'.retired = tx.retired
          /\ tx.errors \in Nat
      BY <1>2, <2>2 DEF Transactions
    <3>2. tx'.errors # 0
      BY <3>1
    <3>3. \A x \in DOMAIN tx'.candidate :
            Runs(tx.candidate[x], Bundled(x), handles[x].context)'
      BY <1>5, <2>1, <3>1
    <3> QED
      BY <2>1, <3>1, <3>2, <3>3 DEF RestoreInv
  <2>3. CASE /\ fibers' = Append(fibers, NewFiber(handles[id].plugin, handles[id].context))
             /\ tx' = [tx EXCEPT !.mount = @ \ {id},
                                 !.candidate = [x \in DOMAIN @ \cup {id} |->
                                    IF x = id THEN Len(fibers) + 1 ELSE @[x]]]
    <3>1. tx' = [tx EXCEPT !.mount = @ \ {id}, !.fresh = tx.fresh,
                           !.candidate = [x \in DOMAIN @ \cup {id} |->
                              IF x = id THEN Len(fibers) + 1 ELSE @[x]]]
      BY <1>2, <2>3 DEF Transactions
    <3>2. /\ DOMAIN tx'.candidate = DOMAIN tx.candidate \cup {id}
          /\ tx'.candidate[id] = Len(fibers) + 1
          /\ \A x \in DOMAIN tx.candidate : x # id => tx'.candidate[x] = tx.candidate[x]
          /\ tx'.mount = tx.mount \ {id} /\ tx'.fresh = tx.fresh
          /\ tx'.retired = tx.retired /\ tx'.errors = tx.errors
      BY <1>2, <3>1 DEF Transactions
    <3>3. ASSUME NEW x \in DOMAIN tx'.candidate
          PROVE  Runs(tx.candidate[x], Bundled(x), handles[x].context)'
      <4>1. CASE x = id
        <5>1. id \in Mounted
          BY <1>1, <2>1, SetsOfIds DEF TxInv
        <5>2. /\ handles[id].plugin = Bundled(id)
              /\ Bundled(id) \in Plugin /\ handles[id].context \in Contexts
          BY <5>1, SetsOfIds, BundledIsPlugin DEF HandleInv
        <5>3. /\ Len(fibers) + 1 \in DOMAIN fibers'
              /\ fibers'[Len(fibers) + 1] = NewFiber(Bundled(id), handles[id].context)
          BY <2>3, <5>2, FiberMade
        <5> QED
          BY <1>3, <3>2, <4>1, <5>3 DEF Runs, NewFiber
      <4>2. CASE x # id
        BY <1>5, <2>1, <3>2, <4>2
      <4> QED
        BY <4>1, <4>2
    <3> QED
      BY <2>1, <3>2, <3>3 DEF RestoreInv
  <2> QED
    BY <1>8, <2>2, <2>3 DEF RestoreOld
<1> QED
  BY <1>4, <1>6, <1>7, <1>8

-----------------------------------------------------------------------------
(* What lives *)

(* The handles a rollback leaves. *)
LEMMA RollbackHandles ==
  ASSUME TypeInv, TxInv, RestoreInv, EndRollback
  PROVE  /\ tx # Idle /\ tx.mount = {} /\ tx.phase = "restore"
         /\ fibers' = fibers /\ configured' = configured /\ Mounted' = Mounted
         /\ DOMAIN tx.candidate \subseteq Mounted
         /\ \A id \in Handles :
              /\ handles'[id].parent = handles[id].parent
              /\ handles'[id].revision = handles[id].revision
              /\ handles'[id].enabled = handles[id].enabled
              /\ handles'[id].context = handles[id].context
              /\ handles'[id].fiber = IF id \in DOMAIN tx.candidate
                                        THEN tx.candidate[id] ELSE handles[id].fiber
<1>1. tx # Idle /\ tx.mount = {} /\ tx.phase = "restore"
  BY DEF EndRollback, Idle
<1>2. DOMAIN tx.candidate \subseteq Mounted /\ Mounted \subseteq Handles
  BY <1>1, SetsOfIds DEF RestoreInv, TxInv
<1>3. fibers' = fibers /\ configured' = configured
  BY DEF EndRollback
<1>4. \A id \in Ids : handles'[id] =
        IF id \in DOMAIN tx.candidate
          THEN [handles[id] EXCEPT !.fiber = tx.candidate[id]] ELSE handles[id]
  BY DEF EndRollback
<1>5. ASSUME NEW id \in Handles
      PROVE  /\ handles'[id].parent = handles[id].parent
             /\ handles'[id].revision = handles[id].revision
             /\ handles'[id].enabled = handles[id].enabled
             /\ handles'[id].context = handles[id].context
             /\ handles'[id].fiber = IF id \in DOMAIN tx.candidate
                                       THEN tx.candidate[id] ELSE handles[id].fiber
  BY <1>4, BundledIsPlugin DEF Handle, Handles
<1>6. \A id \in DOMAIN tx.candidate : tx.candidate[id] # NoFiber
  BY <1>1 DEF RestoreInv, Runs, TypeInv, NoFiber
<1>7. Mounted' = Mounted
  <2>1. configured \subseteq Handles
    BY DEF TypeInv, Handles
  <2> QED
    BY <1>2, <1>3, <1>5, <1>6, <2>1 DEF Mounted, NoFiber
<1> QED
  BY <1>1, <1>2, <1>3, <1>5, <1>7

LEMMA OwnedStep ==
  ASSUME TypeInv, HandleInv, TxInv, TeardownInv, MountInv, RestoreInv, OwnedInv, [Next]_vars
  PROVE  OwnedInv'
<1> SUFFICES ASSUME NEW f \in Live'
             PROVE  \/ Owned(f)'
                    \/ tx'.phase = "mount" /\ f \in Fresh' /\ Chosen(f)'
                    \/ tx'.phase = "undo" /\ f \in Fresh'
                    \/ tx'.phase = "restore" /\ Chosen(f)'
  BY DEF OwnedInv
<1> DEFINE Goal == \/ Owned(f)'
                   \/ tx'.phase = "mount" /\ f \in Fresh' /\ Chosen(f)'
                   \/ tx'.phase = "undo" /\ f \in Fresh'
                   \/ tx'.phase = "restore" /\ Chosen(f)'
<1> SUFFICES Goal
  OBVIOUS
(* What lives now lived before, or has just been made. *)
<1>1. ASSUME f \in DOMAIN fibers
      PROVE  /\ f \in Live /\ fibers'[f].id = fibers[f].id
             /\ ~\E id \in tx.retired : tx # Idle /\ f = handles[id].fiber
  <2>1. fibers'[f].state \notin {"disposed", "broken"}
    BY DEF Live
  <2>2. fibers[f].state \notin {"disposed", "broken"}
    BY <1>1, <2>1, StateMoves
  <2> QED
    BY <1>1, <2>2, FibersKeep DEF Live, TxInv
<1>2. f \in DOMAIN fibers => \/ Owned(f)
                             \/ tx.phase = "mount" /\ f \in Fresh /\ Chosen(f)
                             \/ tx.phase = "undo" /\ f \in Fresh
                             \/ tx.phase = "restore" /\ Chosen(f)
  BY <1>1 DEF OwnedInv
<1>3. ASSUME f \in DOMAIN fibers, Owned(f), handles' = handles, configured' = configured
      PROVE  Owned(f)'
  BY <1>1, <1>3 DEF Owned, Mounted
<1>4. tx \in Transactions \cup {Idle}
  BY DEF TypeInv
<1>5. ASSUME tx' = tx, handles' = handles, configured' = configured, f \in DOMAIN fibers
      PROVE  Goal
  BY <1>1, <1>2, <1>3, <1>5 DEF Fresh, Chosen
<1>6. ASSUME BeginApply \/ LoadPlugins \/ AllDisposed \/ AwaitCandidateFails \/ StartRestore
      PROVE  Goal
  <2>1. fibers' = fibers /\ handles' = handles /\ configured' = configured /\ f \in DOMAIN fibers
    BY <1>6 DEF BeginApply, LoadPlugins, AllDisposed, AwaitCandidateFails, StartRestore,
    Live
  <2>2. CASE AwaitCandidateFails
    <3>1. tx'.phase = "undo" /\ tx'.fresh = tx.fresh /\ tx.phase = "mount"
      BY <1>4, <2>2 DEF AwaitCandidateFails, Transactions, Idle
    <3> QED
      BY <1>2, <1>3, <2>1, <3>1 DEF Fresh
  <2>3. CASE StartRestore
    BY <1>2, <1>3, <2>1, <2>3 DEF Fresh, StartRestore
  <2>4. CASE BeginApply \/ LoadPlugins \/ AllDisposed
    BY <1>2, <1>3, <2>1, <2>4 DEF BeginApply, LoadPlugins, AllDisposed, Idle
  <2> QED
    BY <1>6, <2>2, <2>3, <2>4
<1>7. ASSUME NEW id \in Ids, DisposeOld(id) PROVE Goal
  <2>1. handles' = handles /\ configured' = configured /\ tx.phase = "dispose"
    BY <1>7 DEF DisposeOld
  <2>2. f \in DOMAIN fibers
    BY <1>7 DEF DisposeOld, SetState, Live
  <2> QED
    BY <1>2, <1>3, <2>1, <2>2
<1>8. ASSUME NEW id \in Ids, MountNew(id) PROVE Goal
  <2>1. /\ handles' = handles /\ configured' = configured
        /\ tx.phase = "mount" /\ tx # Idle /\ id \in tx.mount /\ tx \in Transactions
    BY <1>4, <1>8 DEF MountNew, NextToMount, Idle
  <2>2. CASE fibers' = fibers /\ tx' = [tx EXCEPT !.phase = "undo"]
    <3>1. f \in DOMAIN fibers /\ tx'.phase = "undo" /\ tx'.fresh = tx.fresh
      BY <2>1, <2>2 DEF Transactions, Live
    <3> QED
      BY <1>2, <1>3, <2>1, <3>1 DEF Fresh
  <2>3. CASE /\ fibers' = Append(fibers, NewFiber(tx.plugins[id], EntryOf(Current, id).context))
             /\ tx' = [tx EXCEPT !.mount = @ \ {id},
                                 !.fresh = Append(@, Len(fibers) + 1),
                                 !.candidate = [x \in DOMAIN @ \cup {id} |->
                                    IF x = id THEN Len(fibers) + 1 ELSE @[x]]]
    <3>1. /\ DOMAIN tx'.candidate = DOMAIN tx.candidate \cup {id}
          /\ tx'.candidate[id] = Len(fibers) + 1
          /\ \A x \in DOMAIN tx.candidate : x # id => tx'.candidate[x] = tx.candidate[x]
          /\ tx'.fresh = Append(tx.fresh, Len(fibers) + 1)
          /\ tx'.phase = "mount" /\ tx.fresh \in Seq(Nat)
      BY <2>1, <2>3 DEF Transactions
    <3>2. Fresh \cup {Len(fibers) + 1} \subseteq Fresh'
      <4>1. Len(fibers) \in Nat
        BY DEF TypeInv
      <4>2. /\ Len(tx.fresh) + 1 \in DOMAIN tx'.fresh
            /\ tx'.fresh[Len(tx.fresh) + 1] = Len(fibers) + 1
        BY <3>1, <4>1
      <4>3. \A i \in DOMAIN tx.fresh : i \in DOMAIN tx'.fresh /\ tx'.fresh[i] = tx.fresh[i]
        BY <3>1, <4>1
      <4> QED
        BY <4>2, <4>3 DEF Fresh
    <3>3. /\ Wanted(id) \in Plugin /\ WantedContext(id) \in Contexts
          /\ tx.plugins[id] = Wanted(id) /\ id \notin DOMAIN tx.candidate
      BY <2>1, SetsOfIds, CurrentSubmitted, WantedIsPlugin DEF MountInv, TxInv
    <3>4. /\ DOMAIN fibers' = DOMAIN fibers \cup {Len(fibers) + 1}
          /\ fibers'[Len(fibers) + 1].id = id
      BY <2>3, <3>3, FiberMade DEF WantedContext, NewFiber, Wanted
    <3>5. CASE f = Len(fibers) + 1
      BY <3>1, <3>2, <3>4, <3>5 DEF Chosen
    <3>6. CASE f \in DOMAIN fibers
      BY <1>1, <1>2, <1>3, <2>1, <3>1, <3>2, <3>3, <3>6 DEF Chosen
    <3> QED
      BY <3>4, <3>5, <3>6 DEF Live
  <2> QED
    BY <1>8, <2>2, <2>3 DEF MountNew
<1>9. CASE Commit
  <2>1. f \in DOMAIN fibers /\ tx.phase = "mount"
    BY <1>9, CommitHandles DEF Live, Commit
  <2>2. fibers[f].id \in Target /\ tx.candidate[fibers[f].id] = f
    <3>1. tx.retired = Gone /\ tx # Idle
      BY <2>1 DEF MountInv, Idle
    <3>2. CASE Owned(f)
      <4>1. fibers[f].id \in Mounted \ Gone
        BY <1>1, <2>1, <3>1, <3>2 DEF Owned
      <4> QED
        BY <2>1, <3>2, <4>1, Preserved DEF MountInv, Owned
    <3>3. CASE Chosen(f)
      BY <1>9, <3>3, CommitHandles DEF Chosen
    <3> QED
      BY <1>2, <2>1, <3>2, <3>3
  <2>3. /\ fibers[f].id \in Mounted'
        /\ handles'[fibers[f].id].fiber = tx.candidate[fibers[f].id]
    BY <1>9, <2>2, CommitHandles, CommittedFields, CurrentSubmitted DEF Target
  <2> QED
    BY <1>1, <2>1, <2>2, <2>3 DEF Owned
<1>10. CASE UndoNew
  <2>1. /\ handles' = handles /\ configured' = configured /\ tx.phase = "undo"
        /\ tx \in Transactions /\ tx # Idle /\ tx.fresh # <<>>
    BY <1>4, <1>10 DEF UndoNew, Idle
  <2>2. tx.fresh \in Seq(Nat) /\ Len(tx.fresh) \in DOMAIN tx.fresh
    BY <2>1 DEF Transactions
  <2>3. PICK s \in {"disposed", "broken"} : fibers' = SetState(tx.fresh[Len(tx.fresh)], s)
    BY <1>10 DEF UndoNew
  <2>4. f \in DOMAIN fibers
    BY <2>3 DEF SetState, Live
  <2>5. f # tx.fresh[Len(tx.fresh)]
    <3>1. tx.fresh[Len(tx.fresh)] \in DOMAIN fibers
      BY <2>1, <2>2 DEF TxInv
    <3>2. fibers'[tx.fresh[Len(tx.fresh)]].state = s
      BY <2>3, <3>1, StateSet DEF States
    <3> QED
      BY <3>2 DEF Live
  <2>6. tx'.phase = "undo" /\ tx'.fresh = SubSeq(tx.fresh, 1, Len(tx.fresh) - 1)
    BY <1>10, <2>1 DEF UndoNew, Transactions
  <2>7. CASE f \in Fresh
    <3>1. PICK i \in DOMAIN tx.fresh : f = tx.fresh[i]
      BY <2>7 DEF Fresh
    <3>2. i \in DOMAIN tx'.fresh /\ tx'.fresh[i] = f
      BY <2>2, <2>5, <2>6, <3>1
    <3> QED
      BY <2>6, <3>2 DEF Fresh
  <2>8. CASE Owned(f)
    BY <1>3, <2>1, <2>4, <2>8
  <2> QED
    BY <1>2, <2>1, <2>4, <2>7, <2>8
<1>11. ASSUME NEW id \in Ids, RestoreOld(id) PROVE Goal
  <2>1. /\ handles' = handles /\ configured' = configured
        /\ tx.phase = "restore" /\ tx # Idle /\ id \in tx.mount /\ tx \in Transactions
    BY <1>4, <1>11 DEF RestoreOld, Idle
  <2>2. CASE fibers' = fibers /\ tx' = [tx EXCEPT !.mount = @ \ {id}, !.errors = @ + 1]
    <3>1. f \in DOMAIN fibers /\ tx'.phase = "restore" /\ tx'.candidate = tx.candidate
      BY <2>1, <2>2 DEF Transactions, Live
    <3> QED
      BY <1>1, <1>2, <1>3, <2>1, <3>1 DEF Chosen
  <2>3. CASE /\ fibers' = Append(fibers, NewFiber(handles[id].plugin, handles[id].context))
             /\ tx' = [tx EXCEPT !.mount = @ \ {id},
                                 !.candidate = [x \in DOMAIN @ \cup {id} |->
                                    IF x = id THEN Len(fibers) + 1 ELSE @[x]]]
    <3>1. /\ DOMAIN tx'.candidate = DOMAIN tx.candidate \cup {id}
          /\ tx'.candidate[id] = Len(fibers) + 1
          /\ \A x \in DOMAIN tx.candidate : x # id => tx'.candidate[x] = tx.candidate[x]
          /\ tx'.phase = "restore"
      BY <2>1, <2>3 DEF Transactions
    <3>2. id \in Mounted /\ id \notin DOMAIN tx.candidate
      BY <2>1, SetsOfIds DEF RestoreInv, TxInv
    <3>3. /\ handles[id].plugin = Bundled(id)
          /\ Bundled(id) \in Plugin /\ handles[id].context \in Contexts
      BY <3>2, SetsOfIds, BundledIsPlugin DEF HandleInv
    <3>4. /\ DOMAIN fibers' = DOMAIN fibers \cup {Len(fibers) + 1}
          /\ fibers'[Len(fibers) + 1].id = id
      BY <2>3, <3>3, FiberMade DEF NewFiber, Bundled
    <3>5. CASE f = Len(fibers) + 1
      BY <3>1, <3>4, <3>5 DEF Chosen
    <3>6. CASE f \in DOMAIN fibers
      BY <1>1, <1>2, <1>3, <2>1, <3>1, <3>2, <3>6 DEF Chosen
    <3> QED
      BY <3>4, <3>5, <3>6 DEF Live
  <2> QED
    BY <1>11, <2>2, <2>3 DEF RestoreOld
<1>12. CASE EndRollback
  <2>1. /\ f \in DOMAIN fibers /\ tx.phase = "restore" /\ tx # Idle
        /\ DOMAIN tx.candidate \subseteq tx.retired
    BY <1>12, RollbackHandles DEF Live, RestoreInv
  <2>2. CASE Owned(f)
    <3>1. fibers[f].id \in Mounted /\ fibers[f].id \notin DOMAIN tx.candidate
      BY <1>1, <2>1, <2>2 DEF Owned
    <3> QED
      BY <1>1, <1>12, <2>1, <2>2, <3>1, RollbackHandles, SetsOfIds DEF Owned
  <2>3. CASE Chosen(f)
    BY <1>1, <1>12, <2>1, <2>3, RollbackHandles, SetsOfIds DEF Chosen, Owned
  <2> QED
    BY <1>2, <2>1, <2>2, <2>3
<1>13. ASSUME NEW g \in DOMAIN fibers, AwaitOne(g) PROVE Goal
  <2>1. /\ fibers' = fibers /\ handles' = handles /\ configured' = configured
        /\ tx.phase \in {"mount", "restore"} /\ f \in DOMAIN fibers
    BY <1>13 DEF AwaitOne, Live
  <2>2. /\ tx'.phase = tx.phase /\ tx'.fresh = tx.fresh
        /\ tx'.candidate = tx.candidate
    BY <1>13, AwaitKeeps
  <2> QED
    BY <1>1, <1>2, <1>3, <2>1, <2>2 DEF Fresh, Chosen
<1> HIDE DEF Goal
<1> QED
  <2>1. CASE \E m \in Manifests : Reconcile(m)
    BY <1>5, <2>1 DEF Reconcile, Live
  <2>2. CASE FiberStep
    BY <1>5, <2>2 DEF FiberStep, FiberStarts, FiberSettles, FiberStops, SetState, Live
  <2>3. CASE UNCHANGED vars
    BY <1>5, <2>3 DEF vars, Live
  <2> QED
    BY <1>6, <1>7, <1>8, <1>9, <1>10, <1>11, <1>12, <1>13, <2>1, <2>2, <2>3
       DEF Next, Transaction

(* A settled manifest stays settled as it was. *)
LEMMA OutcomeGrows ==
  ASSUME TypeInv, [Next]_vars
  PROVE  Clean' => Clean
<1>1. CASE outcome' = outcome
  BY <1>1 DEF Clean
<1>2. ASSUME NEW how \in {"committed", "rejected", "aggregate"}, Settle(how)
      PROVE  Clean' => Clean
  <2>1. outcome' = Append(outcome, how)
    BY <1>2 DEF Settle
  <2>2. \A n \in DOMAIN outcome : n \in DOMAIN outcome' /\ outcome'[n] = outcome[n]
    BY <2>1 DEF TypeInv
  <2> QED
    BY <2>2 DEF Clean
<1> QED
  <2>1. \/ outcome' = outcome
        \/ \E how \in {"committed", "rejected", "aggregate"} : Settle(how)
    BY DEF Next, vars, Transaction, Reconcile, BeginApply, LoadPlugins, AllDisposed, Commit,
       EndRollback, AwaitCandidateFails, UndoNew, StartRestore, DisposeOld, MountNew,
       RestoreOld, FiberStep, FiberStarts, FiberSettles, FiberStops, AwaitOne
  <2> QED
    BY <1>1, <1>2, <2>1

(* A fiber that stands and is not disposed of goes on standing. *)
LEMMA StandsOn ==
  ASSUME TypeInv, HandleInv, TxInv, TeardownInv, MountInv, RestoreInv, [Next]_vars,
         NEW f \in DOMAIN fibers, AwaitInv, Standing(f)
  PROVE  fibers'[f].state = "disposed" \/ Standing(f)'
<1>1. fibers'[f].id = fibers[f].id
  BY FibersKeep
<1>2. fibers[f].state = "pending" => Needs[fibers[f].id] # {}
  BY DEF AwaitInv
<1>3. \/ fibers'[f].state = fibers[f].state
      \/ fibers[f].state \in {"pending", "loading"} /\ fibers'[f].state # "disposed"
      \/ fibers'[f].state = "pending" /\ Needs[fibers[f].id] # {}
      \/ fibers'[f].state \in {"disposed", "broken"}
  BY StateMoves
<1> QED
  BY <1>1, <1>2, <1>3 DEF Standing

(* The fibers a step makes. *)
LEMMA NewOnes ==
  ASSUME TypeInv, HandleInv, TxInv, TeardownInv, MountInv, RestoreInv, [Next]_vars,
         NEW f \in DOMAIN fibers', f \notin DOMAIN fibers
  PROVE  fibers'[f].state = "pending" => Needs[fibers'[f].id] # {}
<1>1. ASSUME NEW plugin, NEW context, fibers' = Append(fibers, NewFiber(plugin, context))
      PROVE  fibers'[f].state = "pending" => Needs[fibers'[f].id] # {}
  <2>1. f = Len(fibers) + 1 /\ fibers'[f] = NewFiber(plugin, context)
    BY <1>1 DEF TypeInv
  <2> QED
    BY <2>1 DEF NewFiber, Runnable
<1>2. fibers' # fibers /\ \A g, s : fibers' # SetState(g, s)
  BY DEF SetState
<1>3. \/ \E id \in Ids : MountNew(id) \/ RestoreOld(id)
      \/ fibers' = fibers
      \/ \E g, s : fibers' = SetState(g, s)
  BY DEF Next, vars, Transaction, Reconcile, BeginApply, LoadPlugins, AllDisposed, Commit,
     EndRollback, AwaitCandidateFails, UndoNew, StartRestore, DisposeOld, FiberStep,
     FiberStarts, FiberSettles, FiberStops, AwaitOne
<1> QED
  BY <1>1, <1>2, <1>3 DEF MountNew, RestoreOld

(* An await resolves of a fiber that stands, and in another transaction or *)
(* for the restored graph all is awaited anew.                             *)
LEMMA AwaitStep == ASSUME BootInv, [Next]_vars PROVE AwaitInv'
<1> USE DEF BootInv
<1>1. ASSUME NEW f \in DOMAIN fibers', fibers'[f].state = "pending"
      PROVE  Needs[fibers'[f].id] # {}
  <2>1. CASE f \notin DOMAIN fibers
    BY <1>1, <2>1, NewOnes
  <2>2. CASE f \in DOMAIN fibers
    <3>1. fibers'[f].id = fibers[f].id
      BY <2>2, FibersKeep
    <3>2. fibers[f].state = "pending" => Needs[fibers[f].id] # {}
      BY <2>2 DEF AwaitInv
    <3> QED
      BY <1>1, <2>2, <3>1, <3>2, StateMoves
  <2> QED
    BY <2>1, <2>2
<1>2. ASSUME NEW f \in DOMAIN fibers, fibers[f].state = "disposed" \/ Standing(f)
      PROVE  f \in DOMAIN fibers' /\ (fibers'[f].state = "disposed" \/ Standing(f)')
  <2>1. CASE Standing(f)
    BY <2>1, FibersKeep, StandsOn
  <2>2. CASE fibers[f].state = "disposed"
    BY <2>2, FibersKeep, StateMoves DEF Standing
  <2> QED
    BY <1>2, <2>1, <2>2
<1>3. ASSUME tx' # Idle, NEW f \in tx'.awaited
      PROVE  f \in DOMAIN fibers' /\ (fibers'[f].state = "disposed" \/ Standing(f)')
  <2>1. CASE tx = Idle
    BY <1>3, <2>1, Begins
  <2>2. CASE tx # Idle
    <3>1. tx \in Transactions
      BY <2>2 DEF TypeInv
    <3>2. CASE f \in tx.awaited
      BY <1>2, <2>2, <3>2 DEF AwaitInv
    <3>3. ASSUME NEW g \in DOMAIN fibers, AwaitOne(g), f = g
          PROVE  f \in DOMAIN fibers /\ (fibers[f].state = "disposed" \/ Standing(f))
      BY <3>3 DEF AwaitOne, AwaitResolves, AwaitInv, Standing
    <3>4. \/ tx'.awaited = tx.awaited
          \/ tx'.awaited = {}
          \/ \E g \in DOMAIN fibers : AwaitOne(g) /\ tx'.awaited = tx.awaited \cup {g}
      BY <1>3, <2>2, <3>1
         DEF Transactions, Next, vars, Transaction, Reconcile, BeginApply, LoadPlugins,
         AllDisposed, Commit, EndRollback, AwaitCandidateFails, UndoNew, StartRestore,
         DisposeOld, MountNew, RestoreOld, FiberStep, FiberStarts, FiberSettles, FiberStops,
         AwaitOne, Settle
    <3> QED
      BY <1>2, <1>3, <3>2, <3>3, <3>4
  <2> QED
    BY <2>1, <2>2
<1> HIDE DEF BootInv
<1> QED
  BY <1>1, <1>3 DEF AwaitInv

(* Between transactions. *)
LEMMA IdleIsHealthy ==
  ASSUME BootInv, [Next]_vars, Clean', tx'.phase \in {"idle", "load"}, NEW id \in Mounted'
  PROVE  Standing(handles[id].fiber)'
<1> USE DEF BootInv
<1>1. Clean
  BY OutcomeGrows
<1>2. CASE /\ handles' = handles /\ configured' = configured
           /\ tx.phase \in {"idle", "load"}
  <2>1. id \in Mounted
    BY <1>2 DEF Mounted
  <2>2. handles[id].fiber \in DOMAIN fibers
    BY <2>1 DEF HandleInv, Runs
  <2>3. Standing(handles[id].fiber)
    BY <1>1, <1>2, <2>1 DEF HealthInv
  <2>4. fibers[handles[id].fiber].state # "disposed"
    BY <2>3 DEF Standing
  <2>5. fibers'[handles[id].fiber].state # "disposed"
    BY <1>2, <2>2, <2>4, StateMoves DEF DisposeOld, UndoNew
  <2>6. \A f \in DOMAIN fibers : Standing(f) => fibers'[f].state = "disposed" \/ Standing(f)'
    BY StandsOn
  <2> QED
    BY <1>2, <2>2, <2>3, <2>5, <2>6 DEF Standing
<1>3. CASE Commit
  <2>1. /\ id \in Target /\ handles'[id].fiber = tx.candidate[id] /\ fibers' = fibers
        /\ tx.phase = "mount" /\ id \in DOMAIN tx.candidate /\ tx # Idle
    BY <1>3, CommitHandles, CommittedFields, CurrentSubmitted DEF Target, Commit, Idle
  <2>2. tx.candidate[id] \in tx.awaited
    BY <1>3, <2>1 DEF Commit, AwaitedGraph, CandidateFibers
  <2>3. fibers[tx.candidate[id]].state # "disposed"
    BY <1>1, <2>1 DEF HealthInv
  <2> QED
    BY <2>1, <2>2, <2>3 DEF AwaitInv, Standing
<1>4. CASE EndRollback
  <2>1. /\ tx # Idle /\ tx.mount = {} /\ tx.phase = "restore" /\ fibers' = fibers
        /\ id \in Mounted /\ id \in Handles
    BY <1>4, RollbackHandles, SetsOfIds
  <2>2. tx.errors \in Nat
    BY <2>1 DEF TypeInv, Transactions
  <2>3. PICK failed \in {0, 1} :
          /\ IF failed = 1 THEN AwaitFails ELSE AwaitedGraph \subseteq tx.awaited
          /\ Settle(IF tx.errors + failed = 0 THEN "rejected" ELSE "aggregate")
    BY <1>4 DEF EndRollback
  <2>4. tx.errors + failed = 0
    <3>1. SUFFICES ASSUME tx.errors + failed # 0 PROVE FALSE
      OBVIOUS
    <3>2. outcome' = Append(outcome, "aggregate")
      BY <2>3, <3>1 DEF Settle
    <3>3. /\ Len(outcome) + 1 \in DOMAIN outcome'
          /\ outcome'[Len(outcome) + 1] = "aggregate"
      BY <3>2 DEF TypeInv
    <3> QED
      BY <3>3 DEF Clean
  <2>5. RestoredGraph \subseteq tx.awaited /\ tx.retired = DOMAIN tx.candidate
    BY <2>1, <2>2, <2>3, <2>4 DEF RestoreInv, AwaitedGraph
  <2>6. CASE id \in DOMAIN tx.candidate
    <3>1. handles'[id].fiber = tx.candidate[id]
      BY <1>4, <2>1, <2>6, RollbackHandles
    <3>2. tx.candidate[id] \in tx.awaited
      BY <2>5, <2>6 DEF RestoredGraph, CandidateFibers
    <3>3. fibers[tx.candidate[id]].state # "disposed"
      BY <1>1, <2>1, <2>6 DEF HealthInv
    <3> QED
      BY <2>1, <3>1, <3>2, <3>3 DEF AwaitInv, Standing
  <2>7. CASE id \notin DOMAIN tx.candidate
    <3>1. handles'[id].fiber = handles[id].fiber
      BY <1>4, <2>1, <2>7, RollbackHandles
    <3>2. handles[id].fiber \in tx.awaited
      BY <2>1, <2>5, <2>7 DEF RestoredGraph
    <3>3. fibers[handles[id].fiber].state # "disposed"
      BY <1>1, <2>1, <2>5, <2>7 DEF HealthInv
    <3> QED
      BY <2>1, <3>1, <3>2, <3>3 DEF AwaitInv, Standing
  <2> QED
    BY <2>6, <2>7
<1> QED
  <2>1. \/ Commit \/ EndRollback \/ tx.phase \in {"idle", "load"}
    <3>1. CASE tx = Idle
      BY <3>1 DEF Idle
    <3>2. CASE tx \in Transactions
      BY <3>2, PhaseMoves DEF Phases
    <3> QED
      BY <3>1, <3>2 DEF TypeInv
  <2> QED
    BY <1>2, <1>3, <1>4, <2>1, QuietSteps

(* During a transaction what is not retired is not disposed of either. *)
LEMMA KeptStaysUp ==
  ASSUME BootInv, [Next]_vars, Clean', tx' # Idle, NEW id \in Mounted' \ tx'.retired
  PROVE  fibers'[handles'[id].fiber].state # "disposed"
<1> USE DEF BootInv
<1>1. Clean
  BY OutcomeGrows
<1>2. CASE tx = Idle
  <2>1. /\ handles' = handles /\ fibers' = fibers /\ Mounted' = Mounted
    BY <1>2, Begins, Frame
  <2> QED
    BY <1>1, <1>2, <2>1 DEF HealthInv, Standing, Idle
<1>3. CASE tx # Idle
  <2>1. Len(outcome) < Len(submitted) /\ tx \in Transactions
    BY <1>3 DEF TxInv, TypeInv
  <2>2. handles' = handles /\ Mounted' = Mounted
    BY <1>3, <2>1, CurrentKept, Frame
  <2>3. tx.retired \subseteq tx'.retired
    BY <1>3, <2>1, RetiredGrows
  <2>4. /\ handles[id].fiber \in DOMAIN fibers /\ handles[id].fiber \notin Fresh
        /\ fibers[handles[id].fiber].state # "disposed"
    BY <1>1, <1>3, <2>2, <2>3 DEF HandleInv, Runs, TxInv, Fresh, HealthInv
  <2>5. ASSUME NEW o \in tx.retire, DisposeOld(o), o \in Mounted,
               handles[id].fiber = handles[o].fiber
        PROVE  fibers'[handles[id].fiber].state # "disposed"
    <3>1. o = id
      BY <2>2, <2>5, FibersDiffer
    <3>2. id \notin tx.retired \cup {id} => FALSE
      OBVIOUS
    <3>3. fibers' = SetState(handles[id].fiber, "broken")
      <4>1. tx' = [tx EXCEPT !.retire = @ \ {o}, !.retired = @ \cup {o},
                             !.candidate = Without(@, o)] => id \in tx'.retired
        BY <2>1, <3>1 DEF Transactions
      <4> QED
        BY <2>5, <3>1, <4>1 DEF DisposeOld
    <3> QED
      BY <2>4, <3>3, StateSet DEF States
  <2> QED
    BY <2>2, <2>4, <2>5, StateMoves
<1> QED
  BY <1>2, <1>3

(* Nor is a fiber of the candidate graph. *)
LEMMA CandidateStaysUp ==
  ASSUME BootInv, [Next]_vars, Clean', tx'.phase \in {"mount", "restore"},
         NEW id \in DOMAIN tx'.candidate
  PROVE  fibers'[tx'.candidate[id]].state # "disposed"
<1> USE DEF BootInv
<1>1. Clean
  BY OutcomeGrows
<1>2. tx # Idle /\ tx \in Transactions /\ Len(outcome) < Len(submitted)
  BY Begins DEF Idle, TypeInv, TxInv
<1>3. CASE tx' = tx \/ \E f \in DOMAIN fibers : AwaitOne(f)
  <2>1. /\ tx'.candidate = tx.candidate /\ tx'.phase = tx.phase
        /\ tx' # tx => fibers' = fibers
    BY <1>3, AwaitKeeps
  <2>2. /\ tx.candidate[id] \in DOMAIN fibers
        /\ fibers[tx.candidate[id]].state # "disposed"
    BY <1>1, <2>1 DEF MountInv, RestoreInv, Runs, HealthInv
  <2> QED
    BY <1>3, <2>1, <2>2, StateMoves DEF DisposeOld, UndoNew
<1>4. CASE AllDisposed
  <2>1. tx'.candidate = tx.candidate /\ fibers' = fibers /\ tx.phase = "dispose"
    BY <1>2, <1>4 DEF AllDisposed, Transactions
  <2>2. id \in Mounted \ tx.retired /\ tx.candidate[id] = handles[id].fiber
    BY <2>1 DEF TeardownInv
  <2> QED
    BY <1>1, <1>2, <2>1, <2>2 DEF HealthInv
<1>5. CASE StartRestore
  <2>1. tx'.candidate = <<>>
    BY <1>2, <1>5 DEF StartRestore, Transactions, NoEntry
  <2> QED
    BY <2>1
<1>6. ASSUME NEW x \in Ids, NEW plugin \in Plugin, NEW context \in Contexts,
             fibers' = Append(fibers, NewFiber(plugin, context)),
             tx.phase \in {"mount", "restore"},
             tx'.candidate = [o \in DOMAIN tx.candidate \cup {x} |->
                                IF o = x THEN Len(fibers) + 1 ELSE tx.candidate[o]]
      PROVE  fibers'[tx'.candidate[id]].state # "disposed"
  <2>1. /\ fibers'[Len(fibers) + 1].state # "disposed"
        /\ \A g \in DOMAIN fibers : fibers'[g] = fibers[g]
    BY <1>6, FiberMade DEF NewFiber
  <2>2. id # x => /\ id \in DOMAIN tx.candidate
                  /\ tx.candidate[id] \in DOMAIN fibers
                  /\ fibers[tx.candidate[id]].state # "disposed"
    BY <1>1, <1>6 DEF MountInv, RestoreInv, Runs, HealthInv
  <2> QED
    BY <1>6, <2>1, <2>2
<1>7. ASSUME NEW x \in Ids, MountNew(x) PROVE fibers'[tx'.candidate[id]].state # "disposed"
  <2>1. /\ Wanted(x) \in Plugin /\ WantedContext(x) \in Contexts
        /\ tx.plugins[x] = Wanted(x) /\ tx.phase = "mount"
    BY <1>2, <1>7, SetsOfIds, CurrentSubmitted, WantedIsPlugin
       DEF MountInv, MountNew, NextToMount
  <2>2. /\ fibers' = Append(fibers, NewFiber(tx.plugins[x], EntryOf(Current, x).context))
        /\ tx'.candidate = [o \in DOMAIN tx.candidate \cup {x} |->
                              IF o = x THEN Len(fibers) + 1 ELSE tx.candidate[o]]
    BY <1>2, <1>7 DEF MountNew, Transactions
  <2> QED
    BY <1>6, <2>1, <2>2 DEF WantedContext
<1>8. ASSUME NEW x \in Ids, RestoreOld(x) PROVE fibers'[tx'.candidate[id]].state # "disposed"
  <2>1. x \in Mounted /\ tx.phase = "restore"
    BY <1>2, <1>8, SetsOfIds DEF RestoreOld, RestoreInv, TxInv
  <2>2. handles[x].plugin \in Plugin /\ handles[x].context \in Contexts
    BY <2>1, SetsOfIds, BundledIsPlugin DEF HandleInv
  <2>3. \/ /\ fibers' = Append(fibers, NewFiber(handles[x].plugin, handles[x].context))
           /\ tx'.candidate = [o \in DOMAIN tx.candidate \cup {x} |->
                                 IF o = x THEN Len(fibers) + 1 ELSE tx.candidate[o]]
        \/ fibers' = fibers /\ tx'.candidate = tx.candidate
    BY <1>2, <1>8 DEF RestoreOld, Transactions
  <2> QED
    BY <1>1, <1>6, <2>1, <2>2, <2>3 DEF HealthInv
<1> QED
  <2>1. \/ tx' = tx \/ (\E f \in DOMAIN fibers : AwaitOne(f)) \/ AllDisposed \/ StartRestore
        \/ \E x \in Ids : MountNew(x) \/ RestoreOld(x)
    <3>1. tx' # Idle
      BY DEF Idle
    <3>2. CASE tx.phase = "mount"
      BY <1>2, <3>1, <3>2
         DEF Transactions, Idle, Next, vars, Transaction, Reconcile, BeginApply,
         LoadPlugins, Commit, EndRollback, AwaitCandidateFails, UndoNew, DisposeOld,
         AllDisposed, StartRestore, FiberStep, FiberStarts, FiberSettles, FiberStops,
         AwaitOne, Settle
    <3>3. CASE tx.phase = "restore"
      BY <1>2, <3>1, <3>3
         DEF Transactions, Idle, Next, vars, Transaction, Reconcile, BeginApply,
         LoadPlugins, Commit, EndRollback, AwaitCandidateFails, UndoNew, DisposeOld,
         AllDisposed, StartRestore, FiberStep, FiberStarts, FiberSettles, FiberStops,
         AwaitOne, Settle
    <3>4. CASE tx.phase \notin {"mount", "restore"}
      <4>1. ~Commit /\ ~EndRollback
        BY <3>4 DEF Commit, EndRollback
      <4> QED
        BY <1>2, <3>4, <4>1, PhaseMoves
    <3> QED
      BY <3>2, <3>3, <3>4
  <2> QED
    BY <1>3, <1>4, <1>5, <1>7, <1>8, <2>1

LEMMA HealthStep == ASSUME BootInv, [Next]_vars PROVE HealthInv'
BY IdleIsHealthy, KeptStaysUp, CandidateStaysUp DEF HealthInv

-----------------------------------------------------------------------------
(* The forest of configured entries *)

LEMMA ForestStep ==
  ASSUME BootInv, [Next]_vars
  PROVE  ForestInv'
<1> USE DEF BootInv
<1>1. CASE OldParents' = OldParents /\ configured' = configured
  BY <1>1 DEF ForestInv, Ancestry
<1>2. CASE handles' = handles /\ configured' = configured
  BY <1>1, <1>2 DEF OldParents
<1>3. CASE EndRollback
  <2>1. \A id \in configured : handles'[id].parent = handles[id].parent
    BY <1>3, RollbackHandles DEF TypeInv, Handles
  <2> QED
    BY <1>1, <1>3, <2>1, RollbackHandles DEF OldParents
<1>4. CASE Commit
  <2> DEFINE m == Current
  <2>1. /\ configured' = EntryIds(m) /\ m \in Manifests
        /\ \A id \in EntryIds(m) : handles'[id].parent = EntryOf(m, id).parent
    BY <1>4, CommitHandles, CommittedFields, CurrentSubmitted
  <2>2. OldParents' = Parents(m)
    BY <2>1 DEF OldParents, Parents
  <2>3. Valid(m)
    BY <1>4 DEF Commit, TxInv, Idle
  <2> HIDE DEF m
  <2>4. IsFiniteSet(EntryIds(m))
    BY <2>1, ManifestAssumption
  <2>5. \A id \in EntryIds(m) : Parents(m)[id] \in EntryIds(m) \cup {Root}
    BY <2>3, EntryListed DEF Valid, Parents
  <2>6. \A id \in EntryIds(m) :
          Parents(m)[id] # Root => id \notin Ancestry(Parents(m), Parents(m)[id])
    BY <2>3 DEF Valid
  <2>7. \A b : Ancestry(OldParents, b)' = Ancestry(Parents(m), b)
    BY <2>2 DEF Ancestry
  <2> QED
    BY <2>1, <2>2, <2>4, <2>5, <2>6, <2>7 DEF ForestInv
<1> QED
  BY <1>2, <1>3, <1>4, QuietSteps

(* An entry below another has strictly more entries above it. *)
LEMMA ChildIsDeeper ==
  ASSUME TypeInv, ForestInv, NEW id \in configured, NEW child \in configured,
         handles[child].parent = id
  PROVE  /\ OldDepth(child) \in Int /\ OldDepth(id) \in Int
         /\ OldDepth(child) > OldDepth(id)
<1> DEFINE up(x) == Ancestry(OldParents, x)
<1>1. DOMAIN OldParents = configured /\ OldParents[child] = id
  BY DEF OldParents
<1>2. id # Root
  BY RootAssumption DEF TypeInv
<1>3. up(id) \subseteq up(child)
  BY <1>1, <1>2 DEF Ancestry
<1>4. child \in up(child)
  BY <1>1 DEF Ancestry
<1>5. child \notin up(id)
  BY <1>1, <1>2 DEF ForestInv
<1>6. up(child) \in SUBSET configured
  BY <1>1 DEF Ancestry
<1> HIDE DEF up
<1>7. IsFiniteSet(up(child))
  BY <1>6, FS_Subset DEF ForestInv
<1>8. IsFiniteSet(up(id)) /\ Cardinality(up(id)) <= Cardinality(up(child))
      /\ Cardinality(up(id)) # Cardinality(up(child))
  BY <1>3, <1>4, <1>5, <1>7, FS_Subset
<1>9. Cardinality(up(child)) \in Nat /\ Cardinality(up(id)) \in Nat
  BY <1>7, <1>8, FS_CardinalityType
<1> QED
  BY <1>8, <1>9 DEF OldDepth, Depth, up

-----------------------------------------------------------------------------
(* The invariant *)

LEMMA BootInit == ASSUME Init PROVE BootInv
<1>1. Handles = {} /\ Mounted = {} /\ Live = {}
  BY DEF Init, Handles, Mounted, Live
<1>2. TypeInv
  BY DEF Init, TypeInv
<1>3. HandleInv /\ OwnedInv /\ AwaitInv /\ HealthInv
  BY <1>1 DEF Init, HandleInv, OwnedInv, AwaitInv, HealthInv, Idle
<1>4. TxInv /\ TeardownInv /\ MountInv /\ RestoreInv
  BY DEF Init, TxInv, TeardownInv, MountInv, RestoreInv, Idle
<1>5. ForestInv
  BY FS_EmptySet DEF Init, ForestInv
<1> QED
  BY <1>2, <1>3, <1>4, <1>5 DEF BootInv

(* Whatever manifests are submitted, and wherever loads, disposals and      *)
(* rollbacks fail, the handles, the fibers and the transaction fit together *)
(* as each phase of #apply and #rollback needs them to.                    *)
THEOREM BootIsInvariant == Spec => []BootInv
<1>1. BootInv /\ [Next]_vars => BootInv'
  BY TypeStep, HandleStep, TxStep, TeardownStep, MountStep, RestoreStep, OwnedStep,
     AwaitStep, HealthStep, ForestStep DEF BootInv
<1> QED
  BY <1>1, BootInit, PTL DEF Spec

-----------------------------------------------------------------------------
(* Results *)

(* Whatever the manifests and the failures, and whatever services come and *)
(* go between two steps and after an await resolved: between transactions  *)
(* no fiber lives that no handle mounts, and as long as every rollback     *)
(* went through, each mounted entry has its fiber, up if it injects        *)
(* nothing and ready to start if it does.                                  *)
THEOREM LastKnownGoodKept == Spec => []LastKnownGood
<1>1. BootInv => LastKnownGood
  <2> SUFFICES ASSUME BootInv, tx = Idle PROVE LastKnownGood
    BY DEF LastKnownGood
  <2>1. \A f \in Live : Owned(f)
    BY DEF BootInv, OwnedInv, Idle
  <2>2. Clean => \A id \in Mounted : Standing(handles[id].fiber)
    BY DEF BootInv, HealthInv, Idle
  <2>3. \A id \in Mounted : /\ handles[id].fiber \in DOMAIN fibers
                            /\ fibers[handles[id].fiber].id = id
    BY DEF BootInv, HandleInv, Runs, Bundled
  <2>4. ASSUME Clean, NEW id \in Mounted
        PROVE  \/ fibers[handles[id].fiber].state \in {"active", "broken"}
               \/ Needs[id] # {} /\ handles[id].fiber \in Live
    BY <2>2, <2>3, <2>4 DEF Standing, Live
  <2> QED
    BY <2>1, <2>4 DEF LastKnownGood, Owned, Clean
<1> QED
  BY <1>1, BootIsInvariant, PTL

(* A plugin object is only used for the revision and context it was loaded *)
(* for, and a mounted fiber runs its handle's plugin in its context.       *)
THEOREM PluginsMatchTheirEntries == Spec => []CachedPlugin
<1>1. BootInv => CachedPlugin
  BY DEF BootInv, HandleInv, CachedPlugin, Bundled, Runs
<1> QED
  BY <1>1, BootIsInvariant, PTL

(* However ownership changed before, a removed entry is torn down after    *)
(* the removed entries below it.                                           *)
THEOREM TeardownFromTheLeaves == Spec => ChildrenFirst
<1> DEFINE Step ==
      \A id \in Mounted :
        (tx.phase = "dispose" /\ Dies(handles[id].fiber) /\ id \notin tx.mount) =>
          \A child \in configured :
            (handles[child].parent = id /\ child \notin Active(Current)) =>
              handles[child].fiber \notin Live
<1>1. ASSUME BootInv, [Next]_vars PROVE Step
  <2> USE <1>1 DEF BootInv
  <2> SUFFICES ASSUME NEW id \in Mounted, tx.phase = "dispose", Dies(handles[id].fiber),
                      id \notin tx.mount,
                      NEW child \in configured, handles[child].parent = id,
                      child \notin Active(Current), handles[child].fiber \in Live
               PROVE  FALSE
    OBVIOUS
  <2>1. handles[child].fiber \in DOMAIN fibers
    BY DEF Live
  <2>2. child \in Mounted \ Target
    BY <2>1 DEF Mounted, NoFiber, TypeInv, Target
  <2>3. child \in tx.retire \ tx.mount
    <3>1. child \in Gone /\ child \notin Come
      BY <2>2, SetsOfIds DEF Gone, RemovedIds, Target
    <3>2. child \notin tx.retired
      BY DEF TxInv, Live, Idle
    <3> QED
      BY <3>1, <3>2 DEF TeardownInv
  <2>4. NextToRetire(id)
    <3>1. /\ handles[id].fiber \in DOMAIN fibers
          /\ fibers[handles[id].fiber].state \notin {"disposed", "broken"}
          /\ fibers'[handles[id].fiber].state \in {"disposed", "broken"}
      BY DEF Dies, Live
    <3>2. PICK o \in tx.retire : /\ DisposeOld(o) /\ o \in Mounted
                                 /\ handles[id].fiber = handles[o].fiber
      BY <1>1, <3>1, StateMoves DEF UndoNew
    <3>3. o = id
      BY <3>2, FibersDiffer
    <3> QED
      BY <3>2, <3>3 DEF DisposeOld
  <2>5. OldDepth(child) <= OldDepth(id)
    BY <2>3, <2>4 DEF NextToRetire
  <2>6. id \in configured
    BY DEF Mounted
  <2> QED
    BY <2>5, <2>6, ChildIsDeeper
<1> QED
  BY <1>1, BootIsInvariant, PTL DEF Spec, ChildrenFirst

(* AppBoot takes the steps of ManifestHost and no others: manifests settle *)
(* one by one in the order they came, and each becomes the configuration   *)
(* as a whole or not at all.  That every manifest settles is left to TLC.  *)
THEOREM ImplementsHost == Spec => Host!Init /\ [][Host!Next]_(Host!hvars)
<1> DEFINE Seen == [n \in DOMAIN submitted |-> Listed(submitted[n])]
<1>1. Init => Host!Init
  <2> SUFFICES ASSUME Init PROVE Host!Init
    OBVIOUS
  <2>1. Seen = <<>> /\ Len(outcome) = 0
    BY DEF Init
  <2>2. Described = <<>>
    BY DEF Init, Described
  <2> QED
    BY <2>1, <2>2 DEF Host!Init
<1>2. ASSUME BootInv, [Next]_vars PROVE [Host!Next]_(Host!hvars)
  <2> USE <1>2 DEF BootInv
  <2>1. CASE Described' = Described /\ submitted' = submitted /\ outcome' = outcome
    BY <2>1 DEF Host!hvars
  <2>2. ASSUME NEW m \in Manifests, Reconcile(m) PROVE Host!Next
    <3>1. submitted' = Append(submitted, m) /\ submitted \in Seq(Manifests)
      BY <2>2 DEF Reconcile, TypeInv
    <3>2. Seen' = Append(Seen, Listed(m))
      BY <3>1
    <3>3. Len(Seen) = Len(submitted)
      BY <3>1
    <3>4. Described' = Described /\ outcome' = outcome /\ Len(submitted) < MaxManifests
      BY <2>2 DEF Reconcile, Described
    <3> QED
      BY <3>2, <3>3, <3>4 DEF Host!Next, Host!Submit
  <2>3. ASSUME NEW how \in {"committed", "rejected", "aggregate"}, Settle(how),
               submitted' = submitted, Len(outcome) < Len(submitted),
               Described' \in {Described, Listed(Current)}
        PROVE  Host!Next
    <3>1. Len(outcome') = Len(outcome) + 1
      BY <2>3 DEF Settle, TypeInv
    <3>2. Len(Seen) = Len(submitted) /\ Seen[Len(outcome) + 1] = Listed(Current)
      BY <2>3 DEF TypeInv, Current
    <3>3. Seen' = Seen
      BY <2>3
    <3> QED
      BY <2>3, <3>1, <3>2, <3>3 DEF Host!Next, Host!Commit, Host!Reject
  <2>4. CASE Commit
    <3>1. /\ configured' = EntryIds(Current)
          /\ \A id \in EntryIds(Current) :
               /\ handles'[id].parent = EntryOf(Current, id).parent
               /\ handles'[id].revision = EntryOf(Current, id).revision
               /\ handles'[id].enabled = EntryOf(Current, id).enabled
               /\ handles'[id].context = EntryOf(Current, id).context
      BY <2>4, CommitHandles, CommittedFields
    <3>2. Described' = Listed(Current)
      BY <3>1 DEF Described, Listed
    <3> QED
      BY <2>3, <2>4, <3>2, CommitHandles DEF Commit
  <2>5. CASE EndRollback
    <3>1. Described' = Described
      BY <2>5, RollbackHandles DEF Described, TypeInv, Handles
    <3>2. Len(outcome) < Len(submitted)
      BY <2>5, RollbackHandles DEF TxInv
    <3> QED
      BY <2>3, <2>5, <3>1, <3>2 DEF EndRollback
  <2>6. CASE BeginApply \/ LoadPlugins
    <3>1. Described' = Described /\ submitted' = submitted /\ Len(outcome) < Len(submitted)
      BY <2>6 DEF BeginApply, LoadPlugins, Described, TxInv, Idle
    <3> QED
      BY <2>1, <2>3, <2>6, <3>1 DEF BeginApply, LoadPlugins
  <2> QED
    <3>1. \/ Commit \/ EndRollback \/ BeginApply \/ LoadPlugins
          \/ \E m \in Manifests : Reconcile(m)
          \/ UNCHANGED <<handles, configured, submitted, outcome>>
      BY <1>2 DEF Next, vars, Transaction, AllDisposed, AwaitCandidateFails, UndoNew,
         StartRestore, DisposeOld, MountNew, RestoreOld, FiberStep, FiberStarts,
         FiberSettles, FiberStops, AwaitOne
    <3> QED
      BY <2>1, <2>2, <2>4, <2>5, <2>6, <3>1 DEF Described
<1> QED
  BY <1>1, <1>2, BootIsInvariant, PTL DEF Spec
=============================================================================
