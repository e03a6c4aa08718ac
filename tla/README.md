# A TLA+ development of the DeepSeek Cordis harness

The repository builds an agent harness in TypeScript: packages under
`src/harness/` that hold a session's event log, drive a model turn, run tools
behind approval and a sandbox, and persist every event to a file several
processes may share. This directory models the parts whose correctness depends
on order, failure and concurrency, checks them with TLC on small instances, and
proves the core of them for all instances with TLAPS.

## The system

| component | state it keeps | operations | talks to |
|---|---|---|---|
| session-file | session documents, lock and owner files; per process: copies of the events, the revision last seen, `releasedLocalLocks` | load and repair, create, append (lock, compare revision, rename, unlock), reclaim a dead lock | other processes through the file system only |
| session | the event log | append, `deriveSessionSurface` | read by everything below |
| agent-loop | `#running`, the local state of `run` | connect, run, dispose | policy, prompt, model, tools; appends to the session |
| tools, approval, sandbox | registered definitions, one lease per call | register, execute | audit appends to the session, approval and sandbox awaited |
| commands, command-session | registered commands, `#runningSessions` | register, execute | appends to the session, handlers |
| compaction | `#running` | compact | summarizer awaited, appends to the session |
| context-budget, token-meter | overflow attempts by turn | beforeStep, recoverModelError | compactor, session |
| model, model-openrouter | a request's attempts and partial stream | complete, stream, retry | network |
| system-prompt, workspace-instructions | ordered sections by scope | register, assemble | read per step |
| app-boot, runtime-cordis | mounted plugin handles, a transaction chain | boot, reconcile, rollback, dispose | plugin fibers |
| filesystem, filesystem-workspace, sandbox-workspace | observations by session, temporary files | versioned read, write, edit, move, delete | the operating system |
| process, process-workspace | a child, two timers, a one-shot lease | run, terminate | the operating system |
| configuration, cli | a profile | resolve, the interactive loop | all of the above |

What is hard in it:

* **Processes.** Two processes share nothing but files. Each system call of the
  write path can be overtaken by another process, and the caller can be killed
  between any two of them.
* **Awaits.** In one process everything runs in one JavaScript thread, but turns,
  commands, compactions and policies meet at awaits, and each acts on a log it
  read before its await.
* **Partial failure.** Every append can throw: a busy lock, a stale revision, a
  full document. It can throw in the code that cleans up after a failure.
* **Crash recovery.** The log of a dead process is all that is left. The next
  process must close what was open, and must not claim that a tool did not run
  when it did.
* **Cancellation.** The signal may abort during any await.

The properties that make each part correct are the comments above the property
definitions; `PROJECT.json` lists the hazards, each at its line, with the
properties that speak of it.

## The modules

| module | models | state |
|---|---|---|
| `DurableLog` | what a session file promises: a log with a compare-and-swap append | the log, each writer's view |
| `SessionFileLock` | the cross-process write path, one action per system call another process can observe | `document`, `lock`; per process the place in its call, `expected` (expectedRevision), `events`, `released`, `first` (the first reading of `reclaimDeadLocalLock`) |
| `SessionLog` | the events, `deriveSessionSurface` (`Surface`), `interruptedTurnClosers` (`Closers`), and what a load of the document accepts (`Loadable`) | none: scans of a log |
| `AgentTurn` | `AgentLoop.run`, `ToolRegistry.execute`, storage failure, process death and reload | `log`, `loop` (the locals of `run` and what it waits for), `running`, `effects`, `storage` |
| `HarnessSession` | extends it with commands, the compactor and the context budget policy on the same session | adds `command`, `compaction`, `policy`, `summaries` |
| `ManifestHost` | what `AppBoot` promises: manifests settle one at a time, in order, as a whole or not at all | manifests submitted, number settled, configuration committed |
| `AppBoot` | `reconcile`, `#apply`, `#rollback`, `dispose` against fibers that wait for services, load, fail, stop and are disposed | `handles`, `configured` (#configuredIds), `submitted` and `outcome` (the chain #transaction), `tx` (the locals of `#apply`), `fibers` (external) |
| `WorkspaceFiles` | reads, writes, edits, moves and deletes with their guards, the observation policy, the create-only sandbox | names, inodes and stamps on disk, `obs` (#observations), one `lease` per session, `busy` |
| `WorkspaceProcess` | the lease, the Node runner with its timers, signals and bounded output, the Docker runner | the child (`leader`), a descendant (`helper`), `tail` (BoundedTail), armed timers, `timedOut`, `cancelled`, the container |
| `ModelRequest` | `stream` with `#fetchResponse` and `#waitBeforeRetry`, `readSsePayloads`, the fragments of tool calls, `completeModelResult` | attempt, the signal, the body still to come, `buffer`, text and calls so far, deltas delivered |
| `HarnessProfile` | `validateHarnessProfile` section by section: what is accepted, and what it becomes | none: operators on documents |
| `ProfileReload` | the command line, interactive or for one turn, its manifest, `/reload`, `--init` | the file, the launch overlays, `current` (currentConfiguration), `plugins`, the reload in progress, `ManifestHost`'s variables |
| `*_proofs` | theorems about `SessionFileLock`, `AgentTurn`, `HarnessSession`, `AppBoot`, `WorkspaceFiles`, `WorkspaceProcess`, `ModelRequest`, `ProfileReload` | |
| `MC*` | instances | |

How they fit together:

* `SessionFileLock` implements `DurableLog`; `AppBoot` implements `ManifestHost`,
  liveness included. Both are checked as properties of a run; the first is proved,
  and of the second everything but the liveness.
* `HarnessSession` composes by extension: a step of the loop is a step of
  `AgentTurn` while the upkeep state stands still, except where the loop waits for
  the policy.
* `ProfileReload` composes the command line with `ManifestHost` in place of
  `AppBoot`: a reload submits a manifest and sees it committed or rejected.
* `SessionFileLock` and `AgentTurn` are two levels of one system. The lock model
  shows that an append either reaches file and memory or throws and reaches
  neither (`HonestReport`, `SettledMemory`); this is the only thing `AppendOr` in
  `AgentTurn`, and `AppendElse` in `HarnessSession`, assume of an append.
  `storage.broken` stands for the failures that stay (a stale writer, a full
  document), `storage.transient` for those that pass (a busy lock). A full document
  is approximated: the code measures the document at each append, and may still
  take a shorter event after it has refused a longer one.
* The files, the processes and the model requests of a turn are behind the labels
  `effect` and `model` of `AgentTurn`: it assumes of a tool only that it may act
  until it returns, of a model only that it answers, fails or aborts.

### How code becomes actions

In `SessionFileLock` the labels of `pc` are the points between system calls. In
`AgentTurn` they are the points between appends and awaits; only the labels in
`Awaiting` let another JavaScript task in, and death may come at any of them.
`AppBoot` has one action per await of a transaction, `WorkspaceFiles` one per
system call (another session runs only where the code awaits, another program
between any two), `WorkspaceProcess` one per callback, `ModelRequest` one per
await and one per event of the body. The guard of an action is the path that
reaches the call in the code. What the environment chooses (the model's answer,
an approval, the result of a tool, the failure of a call, a cancellation) is a
disjunct or an `\E`.

A document is the sequence of appends that produced it, so documents are equal
exactly when their revisions are. An event keeps the fields that the two scans
read. Texts, usage records and token counts are left out; a model error may be
an overflow at any time and a context may be too large before any step. A file is
an inode with a stamp for its size and times. A profile is a function from its
fields to their values, of which the validator's own bounds are kept. Output is
numbered bytes, a body is a sequence of halves of payloads and of line ends.

Fibers belong to the pinned Cordis package. `AppBoot` gives each plugin one service,
named like its entry, and lets it inject others (`Needs`); contexts share services,
isolated realms are left out. A fiber is pending until its services are there
(`FiberStarts`), returns to that state at any time once one of them is withdrawn
(`FiberStops`), and `await()` of a pending fiber resolves although the body has
not run. `Promise.all` is one action for each await (`AwaitOne`): a fiber that was
found active may have stopped again by the commit. That a disposal first drains the
fibers that depend on the provider is not imposed: they may stop before it, after
it, or be disposed first.

## What is checked

| run | instance | shows |
|---|---|---|
| `lock_serial` | 3 processes of one host, document limit 2, at most 4 calls, 2 each, 1 death, process ids reused | types, mutual exclusion, no lost update, live locks kept, memory and reports honest, refinement of `DurableLog`, all under `SerialSpec` |
| `lock_yield` | 2 hosts | a lock left by a dead local process goes away |
| `lock_race` | the unrestricted `Spec` | **finding**: overlapping reclaims lose an update |
| `turn` | 2 turns of 1 step, a batch of two calls and a batch of one, 1 death, storage may break | recovery, balance with every call answered, honesty, approval of a recorded question, pairing, cancellation, termination |
| `turn_closers` | a closing append that throws once | **finding**: an open turn is left behind and the next one nests in it |
| `harness` | a session with two closed turns, a third of up to 3 steps that may call a tool, 1 command, 2 summaries, 1 death, any one append fails once, storage may break | summaries, retention, retries, coverage of the history, pairing; the log stops being loadable only where something starts inside what a failed append left open |
| `boot` | a provider and a consumer below it, 7 manifests that mount, disable, replace, move, remove and misdeclare them, 3 submitted, 2 failures | the last good graph, cached plugins, the order of disposal, refinement of `ManifestHost` |
| `files` | 2 sessions, 2 names, every operation, 2 calls, 2 steps of other programs, 1 failed call or death | observations, guards, moves, all or nothing, cancellation |
| `process` | a tail of 2 bytes, 5 bytes of output, both runners | signals, output, containers, termination |
| `model` | 2 retries, delays from 2 up to 5, headers of 0, 3 and 9, 8 bodies | retries, answers, cancellation |
| `profile` | 16 profile files, 4 launches (one of them for a single turn), 4 edits, 2 reloads, 2 edits each | what is mounted, what `/reload` reports, profiles written back |
| `profile_steps` | the same | **finding**: the step limit of a turn is that of the first profile |

**Bounds.** Every constant whose comment says `bound` limits the instance and not
the code; the others are parameters of the code with small values.

* *Lock.* Three processes are needed for the race (two that reclaim, one that gets
  in) and are therefore enough to show it absent elsewhere; four calls let one of
  them be repeated. A document of two entries reaches the size limit.
* *Turn.* Two turns let the second meet what the first left behind. `MaxBatches`
  is counted over the log: in `turn` it allows a batch in either turn, in
  `harness`, whose first turn has one, one more.
* *Harness.* It starts from two closed turns, so a compaction that retains one of
  them is possible at once, and three steps allow one retry more than the policy
  grants. Within one turn a second retry is refused twice over: by the count, and
  because only closed turns can be compacted and a lone summary offers nothing
  more to remove; what the mutant of `RetriesMakeProgress` breaks is therefore
  its progress part. Two summaries are one of the host and one of
  the policy, or two of the policy. Any one append may fail and succeed later;
  the turn then meets the command it left open, or the command the turn. What a
  second turn does inside an open one is `turn_closers`.
* *Boot.* Three manifests are a mount, a change and a change of the change; two
  failures are one in the transaction and one in its rollback. Two entries of
  which either may own the other give the orders of disposal; one injects the
  service of the other, so that it waits, stops and starts again at each of the
  steps that replace, retire and restore the provider.
* *Files.* Two calls are a read of one session and whatever another does between
  its guard and its effect; two foreign steps replace and remove; one failure hits
  any system call, the one in a rollback included.
* *Process.* A tail of two takes chunks shorter, equal and longer than itself.
* *Model.* Two retries, a header below, between and above the delays. The bodies
  have text, interleaved fragments of two calls, both, no choice, an error, and
  events after `[DONE]`; each is cut into chunks in every way and cut short at
  every place.
* *Profile.* Each document changes one part, is refused for one reason, or passes
  the validator and not the constructors; two edits and two reloads give a change
  and its reversal.

Deadlock is not checked: an instance stops when its bounds are used up, and a
component that has no more work stops in the code as well.

**Fairness.** `FairSpec` of `SessionFileLock` is weak fairness of the steps inside
a call: the calls are synchronous code, a process that lives runs them to the
end. Opening, starting a call, dying and being relaunched are not fair.
`FairSpec` of `AgentTurn` is weak fairness of `LoopStep`: whatever the loop
awaits returns. Nothing makes a tool act, a caller cancel or a new turn start.
`TurnEnds` relies on models, approvals and tools returning; a provider that never
settles is out of the loop's hands. `FairSpec` of `AppBoot` is weak fairness of
the transaction, and of the steps of fibers, so that a load and a disposal end:
`reconcile` has no timeout and promises nothing otherwise. `FairSpec` of `WorkspaceProcess` is weak fairness
of the runner's callbacks (armed timers fire, the event loop hands out what is
pending); of the command, its descendants and the Docker daemon nothing is
assumed. The other modules are checked for safety only.

Each property has a mutant: a plausible bug in one mapped definition under
which TLC refutes it. The mutated operators stand next to the originals.

## What the runs found

1. `reclaimDeadLocalLock` compares and unlinks in two system calls. A process
   overtaken between them removes a lock that is by then somebody else's
   (`lock_race`).
2. The `catch` block of `run` closes the turn with appends that may fail
   themselves; after one transient failure the session accepts the next turn, which
   nests in the open one, and cannot be loaded while that one is open
   (`turn_closers`).
3. `runInteractiveCli` takes `maxSteps` from the configuration it was started
   with; a turn after an applied `/reload` has the new policy in everything but
   its step limit (`profile_steps`).

Finding 1 is the reason for `SerialSpec`: the protocol in which a process enters
the label `unlink` only while no other is there. Everything else about the lock
is checked and proved under this one restriction, and `SerialBehaviours` and
`NoDeathNoOverlap` say what it costs.

Some consequences of the code are in the models, are known, and have no run of
their own. They are the exceptions the properties name:

* `AgentLoop.run` takes its run lock and makes two appends before the `try` whose
  `finally` releases it (agent-loop/src/index.ts:141-143). If one throws, the
  session refuses every later turn, although agent-loop/README.md:31-32 says the
  lock is released after failure. In `AgentTurn`, `running` stays TRUE.
* Commands look for open turns, turns do not look for running commands, although
  commands/README.md:15-16 excludes both. This needs no failure, but a host that
  starts a turn while a command runs. The command line awaits each in turn and
  is not affected; this is the constant `HostSerialises`, and with FALSE a command
  and a turn overlap and the log is refused.
* `CommandRegistry.execute` appends `command/done` in a `try` whose `finally` frees
  the session (commands/src/index.ts:210, :219). After one transient failure there
  the next command, or the next turn, starts inside the open command, and no
  process can load the log any more, although commands/README.md:15-16 says that
  the registry cannot create overlapping lifecycles. This is the second half of
  `Orphaned` in `BrokenOnlyByOrphans`, and `harness` reaches it. It takes a host
  that keeps the session after the call rejected: the interactive command line
  does not catch the rejection (cli/src/index.ts:1062), so it ends, and the next
  process closes the command.
* `#rollback` waits for what it kept and what it restored with `Promise.all`
  (app-boot/src/index.ts:289), which rejects with the first failure. `reconcile`
  then rejects, and the next transaction begins, while other restored fibers are
  still loading; app-boot/src/README.md:22-24 has it wait for them. `EndRollback`
  models it: such a transaction ends in an AggregateError, after which
  `LastKnownGood` promises only that no fiber is left that no handle owns.
* A disposal that throws in the middle of a reconciliation leaves a fiber that is
  neither retired nor mounted again: "broken" in `LastKnownGood`.
* A manifest is committed when each await has resolved, once. A consumer may then be
  pending, or starting again: `LastKnownGood` says of an entry that injects nothing
  that it is up, and of a consumer that its fiber is there and can run. If its body
  throws after the commit, no reconciliation is told; the next one that keeps it
  fails on its await, and so does the rollback of that one, which ends in an
  AggregateError until a manifest replaces or removes the entry.
* A program that acts between the last comparison of a version and the rename or
  unlink can lose an update; the package documents its enforcement as partial. In
  a move, a foreign removal of the source followed by the rollback loses the file.
* A failed `lstat` or clean-up after the publication is reported as an error
  although the file was published (`done` in `AllOrNothing`). The version reported
  for a created file is read before its temporary name is removed, which touches
  its ctime: the next edit may be refused as stale. A preview records that the
  content was observed although only a difference was shown.
* `terminate()` returns early once the leader has exited. A descendant that keeps
  the pipes then holds the call past its timeout (`Held`), although
  process-workspace/README.md:5 says the group is terminated.
* A `docker create` still under way when `docker rm` is handled leaves a container
  (`late` in `ContainerGone`).
* A body that ends cleanly without `[DONE]` is taken for complete.
* After a rollback that failed itself, `currentConfiguration` is still the old one:
  writing the old profile back and reloading says "unchanged" over a graph that is
  neither.
* Profiles: an omitted `routing` gives `requireParameters` FALSE and an empty one
  TRUE; a program with space around it passes the profile and not the runner; a
  profile that only lowers `maxTimeoutMs` below 120000 is refused for the default
  of `timeoutMs`.

## What is proved

**`SessionFileLock_proofs`**, for every set of processes and hosts and every value
of the bounds, from the assumptions `ProcAssumption`, `BoundAssumption` and
`PidAssumption` of the module:

* `TypeCorrect`: `Spec => []TypeOK`.
* `Exclusion` and `ActiveLocksKept`. Mutual exclusion is not inductive: nothing
  in it keeps a process at `unlink` from removing a live lock. The invariant
  `LockInv` adds that a process in the critical section owns the lock file, that
  a process about to unlink has read a record whose call has ended (its owner is
  dead or past it), that this record cannot be live again because tokens are
  never reused, and that at most one process is about to unlink.
* `LostUpdateFree` and `Refinement`. `LogInv` adds what a process at `write`
  knows: its revision is the document, and the events it will write extend it.
  A commit is then one append, and every other step maps to an open, a forget or
  a stutter of `DurableLog`.
* `MemoryIsSettled`. `MemoryInv` adds that the document begins with what any
  process expects: it only grows, and a process sets its revision to the document
  as it reads or writes it. Between calls the events are that revision, by
  `LogInv`.
* `ReportsAreHonest`. `ReportInv` adds that no entry carries a token that has not
  been drawn, so a call that starts is not in the document, and that a call short
  of its commit point is not either; whatever fails in the release changes neither
  the document nor the outcome.
* `SerialBehaviours`: a behaviour of `Spec` in which no two processes are ever
  both at `unlink` is a behaviour of `SerialSpec`. `NoDeathNoOverlap`: with
  `MaxCrashes = 0` every behaviour of `Spec` is one; a process that reclaims
  without a death is the one whose own token it is.

**`AgentTurn_proofs`**, for every set of batches, every set of logs a session may
start with and every value of the bounds, from `LogAssumption`, `BatchAssumption`,
`BoundAssumption` and `StorageAssumption`. `LogAssumption` says of an initial log
what the code leaves behind when no append failed just for a while: it loads, has
nothing open, is balanced, pairs its requests with their answers and numbers its
turns in order; the empty log is one.

* The scans of `SessionLog` come first. `SurfaceAppend`, `CommandAppend` and
  `TurnAppend` say what one more event does to a scan; they are proved by
  induction over the length of the log, as `LeastNatural` (a set of naturals has
  a least element, from the well-foundedness of finite sets) instead of the
  library's rule, which takes an operator. Everything later reasons by one event.
* `TurnIsInvariant`: `TurnInv` holds of every behaviour. Besides the types and
  what the locals of `run` may be at each label (`LoopInv`, `CancelInv`), it says
  that the scan of the log finds open just what the loop has open, call by call
  and stage by stage (`OpenInv`): this ties what a later process will conclude to
  what this one has done. A tool that acts has the request, the approval and the
  sandbox on record, in this order (`ApprovalInv`); turns are numbered as they
  start (`NumberInv`); no call with an effect or an answer is still ahead
  (`PastInv`); what is open in the log is what is unbalanced in it (`CleanInv`);
  no scan refuses the log (`CommandInv`, `SurfaceInv`); each batch the model is
  shown is followed by its results, and after them by the calls still pending
  (`PairedInv`).
* A step of the loop is many actions but appends one of few events. `NextIs`
  splits `Next` by that event once, and there is one lemma `...Step` for each
  part of the invariant. A reload appends several events at once: `Recovered`
  goes through the closers of any log, one by one, and says what the scans find
  in the result.
* `ResultsAreHonest`, `EffectsAreApproved`, `LogIsSettled` and `CancelStops` are
  the properties the runs check, for any number of turns, crashes, cancellations
  and failing appends. `CancelStops` speaks of the append that ends the turn too: a
  cancelled turn never ends as completed or failed.
* `LogIsRecoverable` and `RequestsArePaired` hold while
  `storage.transient = 0`: until an append fails that would have succeeded if
  tried again. Finding 2 is what happens after one; `turn`, which
  checks the two properties, has `MaxTransient = 0`.

**`HarnessSession_proofs`**, for every set of initial logs and of batches, every limit
of the policy and every bound, with or without `HostSerialises`, from the assumptions
of `AgentTurn`, `UpkeepAssumption` and `HistoryAssumption`: earlier runs of a session
closed its turns once, kept its messages in order and made the summaries and the
retries that this one would have made.

* The log is now appended to by four actors, so the invariant of `AgentTurn` does not
  carry over: `TurnInv` knows no summary and no command. What each event does to the
  log is proved once more, for logs with any event: turns are numbered and closed
  once, only the last one is open, a summary is behind the retained turns.
* `UpkeepIsInvariant`: `UpkeepInv` holds of every behaviour. `Sound` is what is true
  of any log of a session, the closers of a reload included (`ClosingSound`).
  `LiveInv` says that the turn of the loop is the last one and still open.
  `CompactionInv` is about the await in `SessionCompactor.compact`: what was selected
  before it is still a prefix of the surface, closed and behind the retained turns,
  whatever was appended meanwhile: only another summary could replace it, and one
  compaction runs at a time (`Busy`). `PolicyInv` and `StepsInv`
  tie the locals of the policy to the log: a step that the loop is about to try again
  has cost an attempt and a summary, and each retry on record has cost an attempt.
* TLC checked `UpkeepInv` before it was proved, on the instance of the run and on one
  with `HostSerialises = FALSE` and failing appends.
* `LoopMoves` splits the steps of the loop, as `NextIs` does for `AgentTurn`, by where
  they leave the loop and what they append; commands, the compactor and the policy
  have a lemma per action.
* `SummaryIsAccepted` (an append of the compactor is never refused by the surface),
  `RecentTurnsRetained` and `RetriesProgress` follow. `HistoryIsCovered` needs one
  more fact, `SurfaceMirrors`: by induction over the log, the surface has each
  message of the log, or a summary that stands for it, in the order of the log.

**`AppBoot_proofs`**, for every set of manifests, any ownership among entries and any
relation of services, any number of failures and services that come and go between
any two steps, from `ManifestAssumption`, `RootAssumption` and `NeedsAssumption`:

* `BootIsInvariant`: `BootInv` says for each phase of a transaction which fibers
  it has made, kept and given up (`TeardownInv`, `MountInv`, `RestoreInv`), that
  every live fiber is a handle's or the transaction's own (`OwnedInv`), and that no
  mounted fiber is disposed behind the transaction's back unless a rollback failed
  (`HealthInv`). `AwaitInv` says what an await that resolved is worth later: a
  fiber goes back from active only by losing a service, so one that injects nothing
  is still up, and one that is down is a consumer (`Standing`). None of it is
  inductive alone: what a rollback restores is what the teardown has recorded.
* `LastKnownGoodKept` and `PluginsMatchTheirEntries` follow from it.
* `TeardownFromTheLeaves` rests on `ForestInv`: the configured entries form a
  forest, whatever order of ownership earlier manifests had. The ancestors of an
  entry are a least closed set, so the proof compares closed sets and does not
  follow chains.
* `ImplementsHost`: initial states map to initial states of `ManifestHost` and each
  step to a step of it or a stutter. Its liveness stays with TLC.

**`WorkspaceFiles_proofs`**, for every set of sessions, of names and of operations, from
`SessionAssumption`, `PathAssumption` and `OpAssumption`:

* `FilesAreInvariant`: `FilesInv` has, for each point between two system calls of
  each operation, what the names look like compared with the guard and with the
  names the call began from (`CallInv`). It relies on `ThreadInv` (a call past its
  last await has the thread) and on `ObservationInv` (a version a session knows
  is one some file has or had). Stamps are never used twice, so a name that
  another program touched never has a version that was seen before.
* `ObservationsAreHonest` follows. `OnlyObservedFilesGo`, `MovesLoseNothing`,
  `CallsDoAllOrNothing` and `CancelledCallsPublishNothing` are action properties:
  only the steps that publish, link, unlink and roll back change a name, and each
  has its part of `CallInv` at its label.

**`ProfileReload_proofs`**, for every set of profile files, launches and edits:

* `AnswersAreHonest`. `AnswerInv` says for each phase of a reload how the
  configuration in force compares with the one read and the one before.
* `GraphIsAsConfigured`. `MountInv` relates the configuration to what
  `ManifestHost` has committed, the reloads still being settled included.
* `ProfilesAreCanonical`, from `PaddedAssumption` (a trimmed text has nothing to trim),
  `DefaultsAssumption` (the defaults that no check looks at have the right form) and
  `ObjectsAssumption` (an object that was filled in is not a value of a wrong type).
  It needs of the behaviour only that the file is one of `Files`. `ProfileAgain` is
  the rest, one lemma per section of `HarnessProfile`: what the validator fills in it
  accepts, and fills in to itself. The delicate ones are `ModelAgain` (an omitted
  routing section is not an empty one), `ProcessAgain` (the fields of Docker exist for
  Docker only) and `ToolsAgain`: `InOrder` filters the thirteen tools one by one
  (`InOrderIs`), so it keeps exactly the selected ones (`InOrderKeeps`) and depends on
  nothing else (`InOrderReads`).

**`WorkspaceProcess_proofs`**, for every limit and every amount of output, from
`LimitAssumption`:

* `SignalsAreAccounted`. `SignalInv`: an armed escalation means that SIGTERM was
  sent and that there is a child; a flag is set whenever something was sent; a
  child that was reaped is sent nothing.
* `ContainerIsGone`. `ContainerInv`: the client asks for nothing once the call no
  longer runs, so what the removal finds, with at most one creation under way,
  decides what is left.
* `TailIsExact`. `OutputInv`: the buffer is the last bytes taken out of the pipe.
  The lemmas before it say what pushing a chunk onto a tail keeps.

**`ModelRequest_proofs`**, for every retry policy, header and body, from
`RetryAssumption` and `BodyAssumption` (a body is a finite sequence, and one payload
is `[DONE]`):

* `NothingIsReplayed`. `RetryInv`: before a body is accepted there is one request
  for each attempt and nothing has been shown; a request sleeps only after a
  failure that may pass, with an attempt left and a delay below the ceiling.
* `CancellationIsReported`: every step that ends a request goes through the catch
  block, or looks at the signal itself.
* `AnswersAreFaithful`, for bodies of any length, cut anywhere into any number of
  chunks. Nothing bounds the number of tokens in the buffer, so the invariant gives it
  in closed form: `Left(ps, m, p, crlf)` is what is in the buffer when `p` tokens have
  arrived, their line ends are made one, and `m` events are gone. `BodyInv`, which TLC
  checked first on the instance of the run, says that the buffer is that (`Buffered`,
  at the end of the body too), that the body still holds the other tokens
  (`Received`), and that the text and the calls so far are what the first `m` payloads
  say (`Told`).
* The lemmas under it: `PositionsCRLF` and `StreamIs`, where a token of an event is
  before and after the returns are dropped; `JoinedIs`, that joining a chunk to the
  buffer gives `Left` again, also when the cut is between a return and its line feed;
  `EventLeft` and `EventLast`, what the first event of the buffer says and leaves;
  `TextsAppend` and `CallsAppend`, what one payload more adds to an answer, from
  `PickAppend` about selecting positions of a sequence. The cases in which the code
  reports an invalid body are then those the property allows.

Model-checked only:

* `RequestPaired` in `HarnessSession`, and `BrokenOnlyByOrphans`: its log has
  summaries and commands that `TurnInv` excludes.
* `DeadOwnerYields`, `TurnEnds`, `EndsUnlessHeld` and the liveness in
  `SettlesInOrder`: liveness under fairness, and `ENABLED`, are beyond the prover.

No module uses a `RECURSIVE` operator: `Scan` is a recursive function, of which the
proofs use the one equation that defines it.

## What is not modelled

* Decoding and validating session documents, schema migration, field shapes.
* The shapes of requests and answers on the wire, `complete` without a consumer of
  deltas, the cache of `resolveInfo`, token estimates, prompts.
* Registration and connection (`register`, `connect` and their disposers).
* Usage anchors: the surface an answer cites is checked again at its append.
* Repeated call ids in one batch. Ids are unique in `AgentTurn`; `Loadable` refuses
  an open turn with a repeated one, as the code does.
* Confinement of paths, listing and finding, the planning of edits and patches
  (the search for an ambiguous match does not see matches that overlap themselves),
  limits of sizes; validation of programs, arguments and working directories.
* The command line's arguments, its approval prompts and its session list.
* `command-session` (its one effect is the compaction of `HarnessSession`),
  `token-meter` (a pure estimate, chosen freely in the model), `system-prompt` and
  `workspace-instructions` (ordered texts, bounded reads), and the experiments
  under `src/spike/`.

## Plan

1. Proofs of `BrokenOnlyByOrphans` and `RequestPaired` for the log of
   `HarnessSession`: `OpenInv` and `PairedInv` have to be stated for the appends of
   the others as well.
2. A reference definition of `Surface` compared over bounded logs; `AgentTurn` with
   repeated call ids; the registries and their disposers.
3. Planning of edits and patches, listing and finding; the runtime experiments.
