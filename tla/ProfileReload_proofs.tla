------------------------- MODULE ProfileReload_proofs -------------------------
(***************************************************************************)
(* What the runtime of the command line guarantees for every profile,      *)
(* every edit of it and every launch.                                      *)
(*                                                                         *)
(* The answer of /reload: from its admission to its report no other step   *)
(* changes the configuration, so what was decided about it stays true.     *)
(* The mounted graph: a plugin that AppBoot keeps was built from a         *)
(* configuration with the same digest, or for an entry that reads nothing  *)
(* a reload can change; the session directory, which the one exception     *)
(* reads, is compared before anything is submitted.  The documents: the    *)
(* validator accepts what it filled in, section by section, and fills it   *)
(* in to itself.                                                           *)
(***************************************************************************)
EXTENDS ProfileReload, TLAPS

(* Every file, configuration and manifest there can be.                     *)
Files     == Documents \cup Edits \cup {InitialDocument}
Resolved  ==
  UNION {{Resolve(l, doc) : doc \in {d \in Files : Loads(l, d)}} : l \in Launches}
Schedule  == {Manifest(c) : c \in Resolved} \cup {NoEntries}

Configured == {"mounting", "prompt", "once", "turn", "reload"}

InputInv ==
  /\ file \in Files /\ launch \in Launches
  /\ pc \in Configured => current \in Resolved
  /\ reload.phase = "reconciling" => reload.next \in Resolved

(* What is true of the reload in each of its phases.                       *)
Applied == current = reload.next /\ current # reload.before
Same    == current = reload.next /\ current = reload.before
Kept    == current = reload.before

Fields == {"phase", "arguments", "next", "before", "outcome"}

ReloadInv ==
  /\ pc = "off" => reload = NoReload
  /\ \/ reload = NoReload
     \/ /\ DOMAIN reload = Fields
        /\ \/ reload.phase = "started" /\ Kept
           \/ reload.phase = "reconciling" /\ Kept /\ reload.next # current
           \/ /\ reload.phase = "answered"
              /\ \/ reload.outcome = "applied" /\ Applied
                 \/ reload.outcome = "unchanged" /\ Same
                 \/ reload.outcome = "error" /\ Kept
           \/ /\ reload.phase = "reported"
              /\ \/ reload.outcome = "applied" /\ Applied
                 \/ reload.outcome = "unchanged" /\ Same
                 \/ reload.outcome \in {"error", "cancelled"} /\ Kept

AnswerInv == InputInv /\ ReloadInv

(* AppBoot describes the manifest of c, and every plugin it holds, mounted  *)
(* or not, is the one c asks for.                                           *)
Describes(c) ==
  /\ committed = Manifest(c)
  /\ \A id \in EntryIds :
       /\ plugins[id] \in {NoPlugin, Needs(id, c)}
       /\ id \in committed.enabled => plugins[id] = Needs(id, c)

Nothing == committed = NoEntries /\ plugins = [id \in EntryIds |-> NoPlugin]

Reconciling == pc = "reload" /\ reload.phase = "reconciling"
Up == {"prompt", "once", "turn", "reload"}

MountInv ==
  /\ submitted \in Seq(Schedule) /\ settled \in Nat
  /\ pc = "off" => submitted = <<>> /\ settled = 0 /\ Nothing
  /\ pc = "mounting" =>
       /\ submitted = <<Manifest(current)>> /\ settled = 0 /\ Nothing
       /\ initial = current
  /\ pc \in Up =>
       /\ current.sessionDirectory = initial.sessionDirectory
       /\ Describes(current)
       /\ ~Reconciling => settled = Len(submitted)
  /\ Reconciling =>
       /\ reload.next.sessionDirectory = current.sessionDirectory
       /\ Len(submitted) = settled + 1
       /\ submitted[settled + 1] = Manifest(reload.next)
-------------------------------------------------------------------------------
(* A digest taken of a configuration is that configuration.                *)
LEMMA FingerprintIsFaithful ==
  ASSUME NEW c \in Resolved
  PROVE  Fingerprint(c) = c
<1>1. PICK l \in Launches, doc \in Files : c = Resolve(l, doc)
  BY DEF Resolved
<1> QED  BY <1>1 DEF Resolve, Fingerprint

(* Hence two configurations have one digest only if they are one.          *)
LEMMA FingerprintIsInjective ==
  ASSUME NEW c \in Resolved, NEW d \in Resolved, Fingerprint(c) = Fingerprint(d)
  PROVE  c = d
BY FingerprintIsFaithful

(* The first file is what it was, and edits stay among the files.          *)
LEMMA AnswerInit == Init => AnswerInv
BY DEF Init, AnswerInv, InputInv, ReloadInv, Files, NoReload, Configured

(* No file outside of Files is ever there, and a configuration is resolved  *)
(* from one of them.                                                        *)
LEMMA InputStep == AnswerInv /\ [Next]_vars => InputInv'
<1> SUFFICES ASSUME AnswerInv, [Next]_vars PROVE InputInv'
  OBVIOUS
<1> USE DEF AnswerInv, InputInv, Configured
<1>0. Loads(launch, file) => Resolve(launch, file) \in Resolved
  BY DEF Resolved
<1>1. ASSUME NEW doc \in Edits, EditProfile(doc) PROVE InputInv'
  BY <1>1 DEF EditProfile, Files
<1>2. CASE initializeCliProfile
  BY <1>2 DEF initializeCliProfile, Files
<1>3. ASSUME NEW docker \in BOOLEAN, Start(docker) PROVE InputInv'
  BY <1>0, <1>3 DEF Start, Goto, input
<1>4. CASE MountCommits
  BY <1>4 DEF MountCommits, Goto, input
<1>5. ASSUME NEW docker \in BOOLEAN, Prepare(docker) PROVE InputInv'
  <2>1. UNCHANGED <<input, pc, current>>
    BY <1>5 DEF Prepare
  <2>2. reload'.phase = "reconciling" =>
          reload'.next = Resolve(launch, file) /\ Loads(launch, file)
    <3>1. DOMAIN reload = Fields
      BY <1>5 DEF Prepare, ReloadInv, NoReload
    <3>2. ASSUME NEW o, NEW next, Answer(o, next) PROVE reload'.phase = "answered"
      BY <3>1, <3>2 DEF Answer, Fields
    <3>3. \/ \E o, next : Answer(o, next)
          \/ /\ reload' = [reload EXCEPT !.phase = "reconciling", !.next = Resolve(launch, file)]
             /\ Loads(launch, file)
      BY <1>5 DEF Prepare
    <3> QED  BY <3>1, <3>2, <3>3 DEF Fields
  <2> QED  BY <1>0, <2>1, <2>2 DEF input
<1>6. CASE Reconciled
  <2>1. reload'.phase # "reconciling"
    BY <1>6 DEF Reconciled, ReloadInv, NoReload, Fields
  <2> QED  BY <1>6, <2>1 DEF Reconciled, input
<1>7. CASE Rejected
  <2>1. reload'.phase # "reconciling"
    BY <1>7 DEF Rejected, ReloadInv, NoReload, Fields
  <2> QED  BY <1>7, <2>1 DEF Rejected, input
<1>8. CASE Report
  <2>1. DOMAIN reload = Fields
    BY <1>8 DEF Report, ReloadInv, NoReload
  <2>2. reload'.phase # "reconciling"
    BY <1>8, <2>1 DEF Report, Fields
  <2> QED  BY <1>8, <2>2 DEF Report, input, NextLine, Goto
<1>9. ASSUME NEW arguments \in BOOLEAN, Admit(arguments) PROVE InputInv'
  BY <1>9 DEF Admit, input, Goto
<1>10. CASE Abort \/ MountFails \/ Close \/ Closed \/ Exit \/ BeginTurn \/ RunOnce \/ EndTurn
  BY <1>10 DEF Abort, MountFails, Close, Closed, Exit, BeginTurn, RunOnce, EndTurn,
     NextLine, Goto, input
<1>11. CASE UNCHANGED vars
  BY <1>11 DEF vars, input
<1> QED
  BY <1>1, <1>2, <1>3, <1>4, <1>5, <1>6, <1>7, <1>8, <1>9, <1>10, <1>11 DEF Next, Command
-------------------------------------------------------------------------------
(* Whatever the handler decides before it submits a manifest is true then:  *)
(* equal digests mean equal configurations.                                 *)
LEMMA PrepareIsHonest ==
  ASSUME AnswerInv, NEW docker \in BOOLEAN, Prepare(docker)
  PROVE  ReloadInv'
<1> DEFINE next == Resolve(launch, file)
<1>1. DOMAIN reload = Fields /\ Kept /\ UNCHANGED <<pc, current>> /\ pc = "reload"
  BY DEF Prepare, AnswerInv, ReloadInv, NoReload
<1>2. (Loads(launch, file) => next \in Resolved) /\ current \in Resolved
  BY <1>1 DEF AnswerInv, InputInv, Resolved, Configured
<1>3. CASE Answer("error", NoConfiguration)
  BY <1>1, <1>3 DEF Answer, ReloadInv, Fields, Kept
<1>4. CASE /\ Answer("unchanged", next) /\ Fingerprint(next) = Fingerprint(current)
           /\ Loads(launch, file)
  <2>1. next = current
    BY <1>2, <1>4, FingerprintIsInjective
  <2> QED  BY <1>1, <1>4, <2>1 DEF Answer, ReloadInv, Fields, Kept, Same
<1>5. CASE /\ reload' = [reload EXCEPT !.phase = "reconciling", !.next = next]
           /\ Fingerprint(next) # Fingerprint(current)
  <2>1. next # current
    BY <1>5
  <2> HIDE DEF next
  <2> QED  BY <1>1, <1>5, <2>1 DEF ReloadInv, Fields, Kept
<1> QED  BY <1>3, <1>4, <1>5 DEF Prepare

(* No step makes what a reload found or did untrue.                         *)
LEMMA ReloadStep == AnswerInv /\ [Next]_vars => ReloadInv'
<1> SUFFICES ASSUME AnswerInv, [Next]_vars PROVE ReloadInv'
  OBVIOUS
<1> USE DEF AnswerInv, ReloadInv, Applied, Same, Kept
<1>1. ASSUME NEW doc \in Edits, EditProfile(doc) PROVE ReloadInv'
  BY <1>1 DEF EditProfile
<1>2. CASE initializeCliProfile
  BY <1>2 DEF initializeCliProfile
<1>3. ASSUME NEW docker \in BOOLEAN, Start(docker) PROVE ReloadInv'
  BY <1>3 DEF Start, Goto, NoReload
<1>4. CASE MountCommits
  BY <1>4 DEF MountCommits, Goto
<1>5. ASSUME NEW docker \in BOOLEAN, Prepare(docker) PROVE ReloadInv'
  BY <1>5, PrepareIsHonest
<1>6. CASE Reconciled
  BY <1>6 DEF Reconciled, NoReload, Fields
<1>7. CASE Rejected
  BY <1>7 DEF Rejected, NoReload, Fields
<1>8. CASE Report
  <2>1. DOMAIN reload = Fields /\ reload.phase = "answered" /\ UNCHANGED current /\ pc = "reload"
    BY <1>8 DEF Report, NoReload
  <2>2. pc' # "off"
    BY <1>8 DEF Report, NextLine, Goto
  <2>3. CASE reload' = [reload EXCEPT !.phase = "reported", !.outcome = SettledResult]
    <3>1. SettledResult = reload.outcome \/ (SettledResult = "cancelled" /\ reload.outcome = "error")
      BY DEF SettledResult
    <3>2. /\ DOMAIN reload' = Fields /\ reload'.phase = "reported"
          /\ reload'.outcome = SettledResult
          /\ reload'.next = reload.next /\ reload'.before = reload.before
      BY <2>1, <2>3 DEF Fields
    <3> QED  BY <2>1, <2>2, <3>1, <3>2 DEF NoReload, Fields
  <2>4. CASE UNCHANGED reload
    BY <2>1, <2>2, <2>4
  <2> QED  BY <1>8, <2>3, <2>4 DEF Report
<1>9. ASSUME NEW arguments \in BOOLEAN, Admit(arguments) PROVE ReloadInv'
  BY <1>9 DEF Admit, Goto, Fields
<1>10. CASE Abort \/ MountFails \/ Close \/ Closed \/ Exit \/ BeginTurn \/ RunOnce \/ EndTurn
  BY <1>10 DEF Abort, MountFails, Close, Closed, Exit, BeginTurn, RunOnce, EndTurn,
     NextLine, Goto
<1>11. CASE UNCHANGED vars
  BY <1>11 DEF vars
<1> QED
  BY <1>1, <1>2, <1>3, <1>4, <1>5, <1>6, <1>7, <1>8, <1>9, <1>10, <1>11 DEF Next, Command

LEMMA AnswerIsInvariant == Spec => []AnswerInv
<1>1. AnswerInv /\ [Next]_vars => AnswerInv'
  BY InputStep, ReloadStep DEF AnswerInv
<1> QED  BY AnswerInit, <1>1, PTL DEF Spec

(* The durable answer of /reload is true of the configuration, whatever is  *)
(* edited and whenever the signal aborts.                                   *)
THEOREM AnswersAreHonest == Spec => []HonestReload
<1>1. AnswerInv => HonestReload
  BY DEF AnswerInv, ReloadInv, NoReload, HonestReload, Applied, Same, Kept
<1> QED  BY AnswerIsInvariant, <1>1, PTL
-------------------------------------------------------------------------------
(* The entries whose revision never changes read at most the session        *)
(* directory.                                                               *)
LEMMA StaticNeeds ==
  ASSUME NEW c, NEW d, c.sessionDirectory = d.sessionDirectory,
         NEW id, id \notin Revised
  PROVE  Needs(id, c) = Needs(id, d)
BY DEF Needs, Revised, Providers

(* The store built at the start is the one a configuration with the same    *)
(* session directory would build.                                           *)
LEMMA BuiltAsNeeded ==
  ASSUME NEW c, c.sessionDirectory = initial.sessionDirectory, NEW id
  PROVE  Built(id, c) = Needs(id, c)
BY DEF Built, Needs

(* The plugins after a manifest was committed are those its configuration   *)
(* asks for, if those before it were asked for by another configuration, or *)
(* there were none.                                                         *)
LEMMA PluginsFollow ==
  ASSUME NEW c \in Resolved, c.sessionDirectory = initial.sessionDirectory,
         \/ Nothing
         \/ \E d \in Resolved : /\ Describes(d) /\ d # c
                                 /\ d.sessionDirectory = c.sessionDirectory,
         committed' = Manifest(c), plugins' = PluginsAfter(c)
  PROVE  Describes(c)'
<1> SUFFICES ASSUME NEW id \in EntryIds
             PROVE  /\ plugins'[id] \in {NoPlugin, Needs(id, c)}
                    /\ id \in committed'.enabled => plugins'[id] = Needs(id, c)
  BY DEF Describes
<1> DEFINE kept == /\ plugins[id] # NoPlugin
                   /\ Revision(id, committed) = Revision(id, Manifest(c))
<1>1. plugins'[id] = IF kept THEN plugins[id]
                     ELSE IF id \in Manifest(c).enabled THEN Needs(id, c) ELSE NoPlugin
  BY BuiltAsNeeded DEF PluginsAfter
<1>2. kept => plugins[id] = Needs(id, c)
  <2>1. CASE Nothing
    BY <2>1 DEF Nothing
  <2>2. ASSUME NEW d \in Resolved, Describes(d), d # c, kept,
               d.sessionDirectory = c.sessionDirectory
        PROVE  plugins[id] = Needs(id, c)
    <3>1. plugins[id] = Needs(id, d)
      BY <2>2 DEF Describes
    <3>2. id \notin Revised
      <4>1. ASSUME id \in Revised PROVE Fingerprint(d) = Fingerprint(c)
        BY <2>2, <4>1 DEF Describes, Revision, Manifest
      <4> QED  BY <2>2, <4>1, FingerprintIsInjective
    <3> QED  BY <2>2, <3>1, <3>2, StaticNeeds
  <2> QED  BY <2>1, <2>2
<1> QED  BY <1>1, <1>2

(* A manifest is submitted behind the others.                               *)
LEMMA SubmitAppends ==
  ASSUME submitted \in Seq(Schedule), NEW m \in Schedule, Boot!Submit(m)
  PROVE  /\ submitted' \in Seq(Schedule) /\ Len(submitted') = Len(submitted) + 1
         /\ submitted'[Len(submitted) + 1] = m
         /\ UNCHANGED <<settled, committed>>
BY DEF Boot!Submit

LEMMA ManifestIsScheduled ==
  ASSUME NEW c \in Resolved
  PROVE  Manifest(c) \in Schedule
BY DEF Schedule

LEMMA MountInit == Init => MountInv
BY DEF Init, MountInv, Nothing, Boot!Init, Up, Reconciling, NoReload

(* Every step keeps the correspondence of configuration and graph.          *)
LEMMA MountStep == AnswerInv /\ MountInv /\ [Next]_vars => MountInv'
<1> SUFFICES ASSUME AnswerInv, MountInv, [Next]_vars PROVE MountInv'
  OBVIOUS
<1>0. NoEntries \in Schedule
  BY DEF Schedule
<1>1. CASE UNCHANGED vars
  BY <1>1 DEF vars, boot, MountInv, Nothing, Describes, Reconciling
<1>2. CASE (\E doc \in Edits : EditProfile(doc)) \/ Abort \/ initializeCliProfile
  BY <1>2 DEF EditProfile, Abort, initializeCliProfile, boot, MountInv, Nothing, Describes,
     Reconciling
<1>3. ASSUME NEW docker \in BOOLEAN, Start(docker) PROVE MountInv'
  <2>1. CASE pc' = "exited" /\ UNCHANGED boot
    BY <2>1 DEF MountInv, boot, Up, Reconciling
  <2>2. CASE /\ Loads(launch, file)
             /\ initial' = Resolve(launch, file) /\ current' = Resolve(launch, file)
             /\ Boot!Submit(Manifest(Resolve(launch, file))) /\ pc' = "mounting"
    <3>1. Resolve(launch, file) \in Resolved
      BY <2>2 DEF AnswerInv, InputInv, Resolved
    <3>2. submitted = <<>> /\ settled = 0 /\ Nothing /\ UNCHANGED plugins
      BY <1>3 DEF Start, MountInv
    <3>3. submitted' = <<Manifest(current')>> /\ UNCHANGED <<settled, committed>>
      BY <2>2, <3>2 DEF Boot!Submit
    <3>4. submitted' \in Seq(Schedule)
      BY <3>1, <2>2, <3>3, ManifestIsScheduled
    <3> QED  BY <2>2, <3>2, <3>3, <3>4 DEF MountInv, Nothing, Up, Reconciling
  <2> QED  BY <1>3, <2>1, <2>2 DEF Start, Goto
<1>4. CASE MountCommits
  <2>1. /\ submitted = <<Manifest(current)>> /\ settled = 0 /\ Nothing /\ initial = current
        /\ current \in Resolved
    BY <1>4 DEF MountCommits, MountInv, AnswerInv, InputInv, Configured
  <2>2. /\ committed' = Manifest(current) /\ settled' = 1 /\ UNCHANGED submitted
        /\ plugins' = PluginsAfter(current) /\ UNCHANGED <<initial, current, reload>>
    BY <1>4, <2>1 DEF MountCommits, Boot!Commit
  <2>3. Describes(current)'
    BY <2>1, <2>2, PluginsFollow
  <2>4. pc' \in {"prompt", "once", "closing"}
    BY <1>4 DEF MountCommits, Goto
  <2> QED  BY <2>1, <2>2, <2>3, <2>4 DEF MountInv, Up, Reconciling
<1>5. CASE MountFails \/ Close \/ Closed
  <2>1. pc' \in {"closing", "disposing", "exited"}
    BY <1>5 DEF MountFails, Close, Closed, Goto
  <2>2. submitted' \in Seq(Schedule) /\ settled' \in Nat
    BY <1>0, <1>5, SubmitAppends
    DEF MountFails, Close, Closed, Boot!Reject, Boot!Commit, MountInv
  <2> QED  BY <2>1, <2>2 DEF MountInv, Up, Reconciling
<1>6. CASE Exit \/ BeginTurn \/ RunOnce \/ EndTurn
  <2>1. /\ pc \in Up /\ ~Reconciling /\ ~Reconciling'
        /\ pc' \in Up \cup {"closing"} /\ UNCHANGED <<boot, plugins, initial, current>>
    BY <1>6 DEF Exit, BeginTurn, RunOnce, EndTurn, NextLine, Goto, Up, Reconciling
  <2> QED  BY <2>1 DEF MountInv, Up, Describes, boot
<1>7. ASSUME NEW arguments \in BOOLEAN, Admit(arguments) PROVE MountInv'
  <2>1. /\ pc \in Up /\ ~Reconciling /\ ~Reconciling'
        /\ pc' \in Up \cup {"closing"} /\ UNCHANGED <<boot, plugins, initial, current>>
    BY <1>7 DEF Admit, Goto, Up, Reconciling
  <2> QED  BY <2>1 DEF MountInv, Up, Describes, boot
<1>8. ASSUME NEW docker \in BOOLEAN, Prepare(docker) PROVE MountInv'
  <2> DEFINE next == Resolve(launch, file)
  <2>1. /\ pc = "reload" /\ UNCHANGED <<plugins, pc, initial, current>> /\ ~Reconciling
        /\ DOMAIN reload = Fields
    BY <1>8 DEF Prepare, Reconciling, AnswerInv, ReloadInv, NoReload
  <2>2. CASE \E o, n : Answer(o, n)
    <3>1. ~Reconciling' /\ UNCHANGED boot
      BY <2>1, <2>2 DEF Answer, Reconciling, Fields
    <3> QED  BY <2>1, <3>1 DEF MountInv, Up, Describes, boot
  <2>3. CASE /\ Loads(launch, file)
             /\ next.sessionDirectory = current.sessionDirectory
             /\ Boot!Submit(Manifest(next))
             /\ reload' = [reload EXCEPT !.phase = "reconciling", !.next = next]
    <3>1. next \in Resolved
      BY <2>3 DEF AnswerInv, InputInv, Resolved
    <3>2. /\ submitted' \in Seq(Schedule) /\ Len(submitted') = settled + 1
          /\ submitted'[settled + 1] = Manifest(next) /\ UNCHANGED <<settled, committed>>
      BY <2>1, <2>3, <3>1, SubmitAppends, ManifestIsScheduled DEF MountInv, Up
    <3>3. Reconciling' /\ reload'.next = next
      BY <2>1, <2>3 DEF Reconciling, Fields
    <3> HIDE DEF next
    <3> QED  BY <2>1, <2>3, <3>2, <3>3 DEF MountInv, Up, Describes
  <2> QED  BY <1>8, <2>2, <2>3 DEF Prepare
<1>9. CASE Reconciled
  <2>1. /\ pc = "reload" /\ Reconciling /\ UNCHANGED <<pc, initial, submitted>>
        /\ settled' = settled + 1 /\ committed' = Manifest(reload.next)
        /\ plugins' = PluginsAfter(reload.next) /\ current' = reload.next
    BY <1>9 DEF Reconciled, Reconciling, Boot!Commit, MountInv
  <2>2. ~Reconciling'
    BY <1>9 DEF Reconciled, Reconciling, AnswerInv, ReloadInv, NoReload, Fields
  <2>3. /\ reload.next \in Resolved /\ current \in Resolved /\ reload.next # current
        /\ current.sessionDirectory = initial.sessionDirectory /\ Describes(current)
        /\ reload.next.sessionDirectory = current.sessionDirectory
        /\ Len(submitted) = settled + 1
    BY <2>1 DEF AnswerInv, InputInv, ReloadInv, NoReload, MountInv, Reconciling, Up, Configured
  <2>4. PICK c \in Resolved : c = reload.next
    BY <2>3
  <2>5. Describes(c)'
    BY <2>1, <2>3, <2>4, PluginsFollow
  <2> QED  BY <2>1, <2>2, <2>3, <2>4, <2>5 DEF MountInv, Up, Describes
<1>10. CASE Rejected
  <2>1. /\ pc = "reload" /\ Reconciling /\ settled' = settled + 1
        /\ UNCHANGED <<pc, plugins, initial, current, submitted, committed>>
    BY <1>10 DEF Rejected, Reconciling, Boot!Reject
  <2>2. ~Reconciling'
    BY <1>10 DEF Rejected, Reconciling, AnswerInv, ReloadInv, NoReload, Fields
  <2> QED  BY <2>1, <2>2 DEF MountInv, Up, Describes
<1>11. CASE Report
  <2>1. /\ pc \in Up /\ ~Reconciling
        /\ pc' \in {"prompt", "closing"} /\ UNCHANGED <<boot, plugins, initial, current>>
    BY <1>11 DEF Report, NextLine, Goto, Up, Reconciling
  <2> QED  BY <2>1 DEF MountInv, Up, Describes, boot, Reconciling
<1> QED
  BY <1>1, <1>2, <1>3, <1>4, <1>5, <1>6, <1>7, <1>8, <1>9, <1>10, <1>11 DEF Next, Command

(* Between reconciliations the graph is exactly the one the current         *)
(* configuration asks for, kept plugins included: no profile, however often *)
(* it changes and changes back, leaves a stale plugin mounted.              *)
THEOREM GraphIsAsConfigured == Spec => []MountedAsConfigured
<1>1. AnswerInv /\ MountInv => MountedAsConfigured
  <2> SUFFICES ASSUME AnswerInv, MountInv, Running, settled = Len(submitted)
               PROVE  /\ committed = Manifest(current)
                      /\ \A id \in committed.enabled : plugins[id] = Needs(id, current)
    BY DEF MountedAsConfigured
  <2>1. Describes(current)
    BY DEF Running, MountInv, Up
  <2>2. committed.enabled \subseteq EntryIds
    BY <2>1 DEF Describes, Manifest
  <2> QED  BY <2>1, <2>2 DEF Describes
<1> QED  BY AnswerIsInvariant, MountInit, MountStep, <1>1, PTL DEF Spec
-------------------------------------------------------------------------------
(* A profile that was filled in is accepted and filled in to itself.        *)

(* A text that was trimmed is left as it is.                                *)
LEMMA TrimTwice ==
  ASSUME NEW t, IsText(t)
  PROVE  IsText(Trim(t)) /\ Trim(Trim(t)) = Trim(t)
BY PaddedAssumption DEF IsText, Trim, Sound

(* Section by section: what is filled in is accepted, and filled in again   *)
(* to itself.  Here every field has its value after the first time.         *)
LEMMA RetryAgain ==
  ASSUME NEW c, RetryAccepted(c), Sound(Retry(c))
  PROVE  RetryAccepted(Retry(c)) /\ Retry(Retry(c)) = Retry(c)
<1>1. Retry(Retry(c)) = Retry(c)
  BY DEF Retry, Default
<1> QED  BY <1>1 DEF RetryAccepted, HasOnly, Retry

LEMMA WorkspaceAgain ==
  ASSUME NEW c, WorkspaceAccepted(c), Sound(Workspace(c))
  PROVE  WorkspaceAccepted(Workspace(c)) /\ Workspace(Workspace(c)) = Workspace(c)
<1>1. Workspace(Workspace(c)) = Workspace(c)
  BY DEF Workspace, Default
<1> QED  BY <1>1 DEF WorkspaceAccepted, HasOnly, Workspace

LEMMA InstructionsAgain ==
  ASSUME NEW c, InstructionsAccepted(c), Sound(Instructions(c))
  PROVE  InstructionsAccepted(Instructions(c)) /\ Instructions(Instructions(c)) = Instructions(c)
<1>1. Instructions(Instructions(c)) = Instructions(c)
  BY DEF Instructions, Default
<1>2. DOMAIN Instructions(c) = DOMAIN Instructions(<<>>)
  BY DEF Instructions
<1>3. HasOnly(Instructions(c), DOMAIN Instructions(<<>>))
  BY <1>2 DEF HasOnly
<1> QED  BY <1>1, <1>3 DEF InstructionsAccepted

(* A ratio that was null is a number after the first time.                  *)
LEMMA ContextAgain ==
  ASSUME NEW c, ContextAccepted(c), Sound(Context(c))
  PROVE  ContextAccepted(Context(c)) /\ Context(Context(c)) = Context(c)
<1>1. Context(Context(c)) = Context(c)
  BY DEF Context, Default, Nullish, ContextAccepted, AtLeast, Sound
<1> QED  BY <1>1 DEF ContextAccepted, HasOnly, Context

LEMMA AgentAgain ==
  ASSUME NEW c, AgentAccepted(c), Sound(Agent(c))
  PROVE  AgentAccepted(Agent(c)) /\ Agent(Agent(c)) = Agent(c)
<1>1. Agent(Agent(c)) = Agent(c)
  BY DEF Agent, Default
<1> QED  BY <1>1 DEF AgentAccepted, HasOnly, Agent

LEMMA RoutingAgain ==
  ASSUME NEW c, RoutingAccepted(c), Sound(Routing(c))
  PROVE  RoutingAccepted(Routing(c)) /\ Routing(Routing(c)) = Routing(c)
<1>1. Routing(Routing(c)) = Routing(c)
  BY DEF Routing, Default, Nullish
<1> QED  BY <1>1 DEF RoutingAccepted, HasOnly, Routing, OmittedRouting

(* The routing of a model that has no routing section is complete, so that  *)
(* it is not mistaken for a section that was there and empty.               *)
LEMMA OmittedRoutingAgain ==
  ASSUME RoutingAccepted(<<>>), Sound(OmittedRouting)
  PROVE  RoutingAccepted(OmittedRouting) /\ Routing(OmittedRouting) = OmittedRouting
<1>1. OmittedRouting = [allowFallbacks    |-> TRUE,
                        requireParameters |-> FALSE,
                        dataCollection    |-> "allow",
                        sort              |-> "throughput"]
  <2>1. DOMAIN <<>> = {}
    OBVIOUS
  <2>2. /\ Default(<<>>, "allowFallbacks", TRUE) = TRUE
        /\ Nullish(<<>>, "dataCollection", "allow") = "allow"
        /\ Nullish(<<>>, "sort", "throughput") = "throughput"
    BY <2>1 DEF Default, Nullish
  <2>3. /\ Default(<<>>, "requireParameters", TRUE) = TRUE
    BY <2>1 DEF Default
  <2>4. Routing(<<>>) = [allowFallbacks    |-> TRUE,
                         requireParameters |-> TRUE,
                         dataCollection    |-> "allow",
                         sort              |-> "throughput"]
    BY <2>2, <2>3, Zenon DEF Routing
  <2>5. \A a, b, d, s, x :
          [[allowFallbacks |-> a, requireParameters |-> b, dataCollection |-> d, sort |-> s]
             EXCEPT !.requireParameters = x] =
          [allowFallbacks |-> a, requireParameters |-> x, dataCollection |-> d, sort |-> s]
    OBVIOUS
  <2>6. OmittedRouting =
          [[allowFallbacks |-> TRUE, requireParameters |-> TRUE, dataCollection |-> "allow",
            sort |-> "throughput"] EXCEPT !.requireParameters = FALSE]
    BY <2>4, Zenon DEF OmittedRouting
  <2> QED  BY ONLY <2>5, <2>6, Zenon
<1>2. Routing(OmittedRouting) = OmittedRouting
  BY <1>1 DEF Routing, Default, Nullish
<1>3. RoutingAccepted(OmittedRouting)
  <2>1. DOMAIN <<>> = {}
    OBVIOUS
  <2>2. Sound(Routing(<<>>).allowFallbacks) /\ Routing(<<>>).allowFallbacks = TRUE
    BY <2>1 DEF RoutingAccepted, Routing, Default
  <2>3. HasOnly(OmittedRouting, DOMAIN OmittedRouting)
    BY DEF HasOnly
  <2>4. /\ Sound(OmittedRouting.allowFallbacks) /\ Sound(OmittedRouting.requireParameters)
        /\ OmittedRouting.dataCollection = "allow" /\ OmittedRouting.sort = "throughput"
    BY <1>1, <2>2, DefaultsAssumption
  <2> QED  BY <1>2, <2>3, <2>4 DEF RoutingAccepted
<1> QED  BY <1>2, <1>3

(* The persona is trimmed once.                                             *)
LEMMA PromptAgain ==
  ASSUME NEW c, PromptAccepted(c), Sound(Prompt(c))
  PROVE  PromptAccepted(Prompt(c)) /\ Prompt(Prompt(c)) = Prompt(c)
<1> DEFINE p == Prompt(c)
<1>1. /\ DOMAIN p = {"identity", "workspaceGuidance"} \cup ({"persona"} \cap DOMAIN c)
      /\ p.identity = Default(c, "identity", TRUE)
      /\ p.workspaceGuidance = Default(c, "workspaceGuidance", TRUE)
      /\ "persona" \in DOMAIN c => p.persona = Trim(c.persona)
  BY DEF Prompt, Joined
<1>2. "persona" \in DOMAIN p => IsText(p.persona) /\ Trim(p.persona) = p.persona
  BY <1>1, TrimTwice DEF PromptAccepted
<1>3. Prompt(p) = p
  BY <1>1, <1>2 DEF Prompt, Joined, Default
<1> QED  BY <1>1, <1>2, <1>3 DEF PromptAccepted, HasOnly

(* A replayed model has no id, retry and routing to begin with and gets     *)
(* none; the other has all three after the first time.                      *)
LEMMA ModelAgain ==
  ASSUME NEW c, ModelAccepted(c), Sound(Model(c)),
         Model(c).provider = "openrouter" =>
           Sound(Model(c).retry) /\ Sound(Model(c).routing)
  PROVE  ModelAccepted(Model(c)) /\ Model(Model(c)) = Model(c)
<1> DEFINE m == Model(c)
           window == {"contextWindow"} \cap DOMAIN c
<1>1. CASE c.provider = "replay"
  <2>1. /\ DOMAIN m = {"provider"} \cup window
        /\ m.provider = "replay"
        /\ "contextWindow" \in DOMAIN c => m.contextWindow = c.contextWindow
    BY <1>1 DEF Model, Joined, Optional
  <2>2. m = Joined([provider |-> "replay"], Optional(c, "contextWindow"))
    BY <1>1 DEF Model
  <2>3. Optional(m, "contextWindow") = Optional(c, "contextWindow")
    BY <2>1 DEF Optional
  <2>4. Model(m) = m
    BY <2>1, <2>2, <2>3 DEF Model
  <2> QED  BY <2>1, <2>4 DEF ModelAccepted, HasOnly
<1>2. CASE c.provider = "openrouter"
  <2> DEFINE own == [provider |-> "openrouter",
                     id       |-> Trim(Default(c, "id", "openrouter/free")),
                     retry    |-> Retry(Section(c, "retry")),
                     routing  |-> IF "routing" \in DOMAIN c THEN Routing(c.routing)
                                  ELSE OmittedRouting]
  <2>1. m = Joined(own, Optional(c, "contextWindow"))
    BY <1>2 DEF Model
  <2>2. /\ DOMAIN m = {"provider", "id", "retry", "routing"} \cup window
        /\ m.provider = "openrouter"
        /\ m.id = own.id /\ m.retry = own.retry /\ m.routing = own.routing
        /\ "contextWindow" \in DOMAIN c => m.contextWindow = c.contextWindow
    BY <2>1 DEF Joined, Optional
  <2>3. IsText(m.id) /\ Trim(m.id) = m.id
    <3>1. IsText(Default(c, "id", "openrouter/free"))
      BY <1>2, DefaultsAssumption DEF ModelAccepted, Default
    <3> QED  BY <2>2, <3>1, TrimTwice
  <2>4. RetryAccepted(m.retry) /\ Retry(m.retry) = m.retry
    BY <1>2, <2>2, RetryAgain DEF ModelAccepted
  <2>5. RoutingAccepted(m.routing) /\ Routing(m.routing) = m.routing
    BY <1>2, <2>2, RoutingAgain, OmittedRoutingAgain DEF ModelAccepted, Section
  <2>6. Section(m, "retry") = m.retry /\ Section(m, "routing") = m.routing
    BY <2>2 DEF Section
  <2>7. ModelAccepted(m)
    BY <1>2, <2>2, <2>3, <2>4, <2>5, <2>6 DEF ModelAccepted, HasOnly
  <2>8. Optional(m, "contextWindow") = Optional(c, "contextWindow")
    BY <2>2 DEF Optional
  <2>9. Model(m) = Joined([provider |-> "openrouter", id |-> m.id,
                           retry |-> m.retry, routing |-> m.routing],
                          Optional(c, "contextWindow"))
    BY <2>2, <2>3, <2>4, <2>5, <2>6, <2>8 DEF Model, Default
  <2> QED  BY <2>1, <2>2, <2>7, <2>9
<1> QED  BY <1>1, <1>2 DEF ModelAccepted

(* The common fields of a process section that has them all.                *)
LEMMA CommonAgain ==
  ASSUME NEW c, NEW p, DOMAIN Common(c) \subseteq DOMAIN p,
         \A f \in DOMAIN Common(c) : p[f] = Common(c)[f]
  PROVE  Common(p) = Common(c)
<1>1. /\ DOMAIN Common(c) = {"backend", "allowedPrograms", "timeoutMs", "maxTimeoutMs",
                              "maxOutputBytes", "killGraceMs"}
      /\ Common(c).backend = Backend(c)
  BY DEF Common
<1>2. Backend(p) = Backend(c)
  BY <1>1 DEF Backend, Nullish
<1> QED  BY <1>1, <1>2 DEF Common, Default

(* The fields of Docker likewise.                                           *)
LEMMA DockerAgain ==
  ASSUME NEW c, NEW p, DockerFields \subseteq DOMAIN p,
         \A f \in DockerFields : p[f] = Docker(c)[f]
  PROVE  Docker(p) = Docker(c)
<1> DEFINE i == Trim(Default(c, "image", ""))
           m == Default(c, "memoryBytes", 1024)
           l == Default(c, "pidsLimit", 256)
           t == Default(c, "tmpfsBytes", 256)
<1>1. Trim(i) = i
  BY PaddedAssumption DEF Trim
<1> HIDE DEF i
<1>2. Docker(c) = [image |-> i, memoryBytes |-> m, pidsLimit |-> l, tmpfsBytes |-> t]
  BY Zenon DEF Docker, i
<1> HIDE DEF m, l, t
<1>3. /\ Default(p, "image", "") = i /\ Default(p, "memoryBytes", 1024) = m
      /\ Default(p, "pidsLimit", 256) = l /\ Default(p, "tmpfsBytes", 256) = t
  BY <1>2 DEF Default, DockerFields
<1>4. Trim(Default(p, "image", "")) = i
  BY <1>1, <1>3
<1>5. Docker(p) = [image |-> i, memoryBytes |-> m, pidsLimit |-> l, tmpfsBytes |-> t]
  BY ONLY <1>3, <1>4 DEF Docker
<1> QED  BY ONLY <1>2, <1>5

(* The fields of Docker are filled in for Docker only, which is what keeps  *)
(* the other backend acceptable.                                            *)
LEMMA ProcessAgain ==
  ASSUME NEW c, ProcessAccepted(c), Sound(Process(c))
  PROVE  ProcessAccepted(Process(c)) /\ Process(Process(c)) = Process(c)
<1> DEFINE p == Process(c)
           shared == {"backend", "allowedPrograms", "timeoutMs", "maxTimeoutMs",
                      "maxOutputBytes", "killGraceMs"}
<1>1. /\ DOMAIN Common(c) = shared /\ DOMAIN Common(<<>>) = shared
      /\ DOMAIN Docker(c) = DockerFields
      /\ shared \cap DockerFields = {}
  BY DEF Common, Docker, DockerFields
<1>2. /\ shared \subseteq DOMAIN p /\ DOMAIN p \subseteq shared \cup DockerFields
      /\ \A f \in shared : p[f] = Common(c)[f]
      /\ Backend(c) = "docker" => /\ DockerFields \subseteq DOMAIN p
                                  /\ \A f \in DockerFields : p[f] = Docker(c)[f]
      /\ Backend(c) # "docker" => DOMAIN p = shared
  BY <1>1 DEF Process, Joined
<1>3. Common(p) = Common(c)
  BY <1>1, <1>2, CommonAgain
<1>4. Backend(p) = Backend(c)
  BY <1>3 DEF Common
<1>5. Backend(c) = "docker" => Docker(p) = Docker(c)
  BY <1>2, DockerAgain DEF ProcessAccepted
<1>6. Process(p) = p
  BY <1>3, <1>4, <1>5 DEF Process
<1>7. HasOnly(p, DOMAIN Common(<<>>) \cup DockerFields)
  BY <1>1, <1>2 DEF HasOnly
<1>8. \/ Backend(p) = "local" /\ DockerFields \cap DOMAIN p = {}
      \/ Backend(p) = "docker" /\ DockerAccepted(Docker(p))
  BY <1>1, <1>2, <1>4, <1>5 DEF ProcessAccepted
<1> QED  BY <1>3, <1>6, <1>7, <1>8 DEF ProcessAccepted

(* The tools have thirteen different names.                                 *)
LEMMA ToolIds ==
  /\ Len(HARNESS_TOOL_IDS) = 13 /\ DOMAIN HARNESS_TOOL_IDS = 1 .. 13
  /\ IsInjective(HARNESS_TOOL_IDS)
<1>1. Len(HARNESS_TOOL_IDS) = 13
  BY DEF HARNESS_TOOL_IDS
<1>2. DOMAIN HARNESS_TOOL_IDS = 1 .. 13
  BY DEF HARNESS_TOOL_IDS
<1>3. ASSUME NEW a \in 1 .. 13, NEW b \in 1 .. 13, a # b
      PROVE  HARNESS_TOOL_IDS[a] # HARNESS_TOOL_IDS[b]
  BY <1>3 DEF HARNESS_TOOL_IDS
<1> QED  BY <1>1, <1>2, <1>3 DEF IsInjective

(* What is true before the first tool and kept by each is true of all.      *)
LEMMA EachStep ==
  ASSUME NEW Q, 0 \in Q, \A k \in 0 .. 12 : k \in Q => k + 1 \in Q
  PROVE  \A k \in 0 .. 13 : k \in Q
<1>1. 0 \in Q /\ 1 \in Q /\ 2 \in Q /\ 3 \in Q /\ 4 \in Q
  OBVIOUS
<1>2. 5 \in Q /\ 6 \in Q /\ 7 \in Q /\ 8 \in Q /\ 9 \in Q
  BY <1>1
<1>3. 10 \in Q /\ 11 \in Q /\ 12 \in Q /\ 13 \in Q
  BY <1>2
<1> QED  BY <1>1, <1>2, <1>3

(* g[n] is what the filter made of the first n tools.                       *)
Filters(g, S) ==
  /\ g[0] = <<>>
  /\ \A n \in 1 .. 13 :
       g[n] = IF HARNESS_TOOL_IDS[n] \in S THEN Append(g[n - 1], HARNESS_TOOL_IDS[n])
              ELSE g[n - 1]

(* The filter of HARNESS_TOOL_IDS exists and is the one InOrder takes.      *)
LEMMA InOrderIs == \A S : \E g : Filters(g, S) /\ InOrder(S) = g[13]
<1> SUFFICES ASSUME NEW S PROVE \E g : Filters(g, S) /\ InOrder(S) = g[13]
  OBVIOUS
<1> DEFINE ids == HARNESS_TOOL_IDS
           Body(g, n) == IF n = 0 THEN <<>>
                         ELSE IF ids[n] \in S THEN Append(g[n - 1], ids[n])
                         ELSE g[n - 1]
           Q == {k \in 0 .. 13 : \E g : g = [n \in 0 .. k |-> Body(g, n)]}
<1>1. 0 \in Q
  <2> DEFINE g == [n \in 0 .. 0 |-> <<>>]
  <2>1. \A n \in 0 .. 0 : Body(g, n) = <<>>
    OBVIOUS
  <2> HIDE DEF Body
  <2>2. g = [n \in 0 .. 0 |-> Body(g, n)]
    BY <2>1
  <2>3. \E x : x = [n \in 0 .. 0 |-> Body(x, n)]
    BY <2>2, Zenon
  <2> QED  BY <2>3
<1>2. ASSUME NEW k \in 0 .. 12, k \in Q PROVE k + 1 \in Q
  <2>1. PICK g : g = [n \in 0 .. k |-> Body(g, n)]
    BY <1>2
  <2> DEFINE h == [n \in 0 .. k + 1 |-> IF n <= k THEN g[n] ELSE Body(g, n)]
  <2>2. \A n \in 0 .. k : h[n] = g[n]
    OBVIOUS
  <2>3. \A n \in 0 .. k + 1 : Body(h, n) = Body(g, n)
    <3>1. \A n \in 0 .. k + 1 : n # 0 => n - 1 \in 0 .. k
      OBVIOUS
    <3> QED  BY <2>2, <3>1
  <2>4. \A n \in 0 .. k : g[n] = Body(g, n)
    BY <2>1, Zenon
  <2>5. \A n \in 0 .. k + 1 : h[n] = Body(g, n)
    BY <2>4
  <2> HIDE DEF Body
  <2>6. h = [n \in 0 .. k + 1 |-> Body(h, n)]
    BY <2>3, <2>5
  <2>7. \E x : x = [n \in 0 .. k + 1 |-> Body(x, n)]
    BY <2>6, Zenon
  <2> QED  BY <2>7
<1>3. 13 \in Q
  <2> HIDE DEF Q
  <2>1. \A k \in 0 .. 13 : k \in Q
    BY <1>1, <1>2, EachStep
  <2> QED  BY <2>1
<1> DEFINE f == CHOOSE g : g = [n \in 0 .. 13 |-> Body(g, n)]
<1>4. f = [n \in 0 .. 13 |-> Body(f, n)]
  BY <1>3
<1>5. InOrder(S) = f[13]
  BY ToolIds, Zenon DEF InOrder
<1>6. \A n \in 0 .. 13 : f[n] = Body(f, n)
  BY <1>4, Zenon
<1> HIDE DEF f
<1>7. Filters(f, S)
  BY <1>6 DEF Filters
<1> QED  BY <1>5, <1>7

(* It keeps the tools of S, each once.                                      *)
LEMMA InOrderKeeps ==
  ASSUME NEW S
  PROVE  /\ InOrder(S) \in Seq(Range(HARNESS_TOOL_IDS))
         /\ Range(InOrder(S)) = S \cap Range(HARNESS_TOOL_IDS)
         /\ IsInjective(InOrder(S))
<1> DEFINE ids == HARNESS_TOOL_IDS
           Taken(k) == {ids[j] : j \in {i \in 1 .. k : ids[i] \in S}}
<1>1. PICK g : Filters(g, S) /\ InOrder(S) = g[13]
  BY InOrderIs
<1> DEFINE Good(s, k) == s \in Seq(Range(HARNESS_TOOL_IDS)) /\ Range(s) = Taken(k) /\ IsInjective(s)
           Q == {k \in 0 .. 13 : Good(g[k], k)}
<1>2. 0 \in Q
  <2>1. g[0] = <<>>
    BY <1>1 DEF Filters
  <2>2. DOMAIN <<>> = {} /\ Taken(0) = {}
    OBVIOUS
  <2>3. Range(<<>>) = {} /\ IsInjective(<<>>)
    BY <2>2 DEF Range, IsInjective
  <2>4. <<>> \in Seq(Range(HARNESS_TOOL_IDS))
    OBVIOUS
  <2> HIDE DEF Kept
  <2>5. Good(g[0], 0)
    BY <2>1, <2>2, <2>3, <2>4, Zenon
  <2> HIDE DEF Good
  <2> QED  BY <2>5
<1>3. ASSUME NEW k \in 0 .. 12, k \in Q PROVE k + 1 \in Q
  <2>1. Good(g[k], k)
    BY <1>3
  <2>2. g[k + 1] = IF ids[k + 1] \in S THEN Append(g[k], ids[k + 1]) ELSE g[k]
    <3>1. k + 1 \in 1 .. 13 /\ (k + 1) - 1 = k
      OBVIOUS
    <3> QED  BY <1>1, <3>1, Zenon DEF Filters
  <2>3. ids[k + 1] \in Range(ids) /\ \A j \in 1 .. k : ids[j] # ids[k + 1]
    <3>1. k + 1 \in 1 .. 13 /\ \A j \in 1 .. k : j \in 1 .. 13 /\ j # k + 1
      OBVIOUS
    <3> HIDE DEF ids
    <3>2. DOMAIN ids = 1 .. 13 /\ \A a, b \in 1 .. 13 : ids[a] = ids[b] => a = b
      BY ToolIds DEF ids, IsInjective
    <3> QED  BY <3>1, <3>2 DEF Range
  <2>4. CASE ids[k + 1] \in S
    <3> DEFINE s == g[k]
               t == Append(s, ids[k + 1])
    <3>1. /\ t \in Seq(Range(HARNESS_TOOL_IDS)) /\ DOMAIN t = DOMAIN s \cup {Len(s) + 1}
          /\ t[Len(s) + 1] = ids[k + 1]
          /\ \A i \in DOMAIN s : t[i] = s[i] /\ i # Len(s) + 1
      BY <2>1, <2>3
    <3>2. Range(t) = Range(s) \cup {ids[k + 1]}
      BY <3>1, Zenon DEF Range
    <3>3. Taken(k + 1) = Taken(k) \cup {ids[k + 1]}
      BY <2>4
    <3>4. ids[k + 1] \notin Range(s)
      BY <2>1, <2>3
    <3>5. IsInjective(t)
      BY <2>1, <3>1, <3>4 DEF IsInjective, Range
    <3>6. g[k + 1] = t /\ Range(s) = Taken(k)
      BY <2>1, <2>2, <2>4
    <3> HIDE DEF s, t, Kept
    <3>7. Good(g[k + 1], k + 1)
      BY <3>1, <3>2, <3>3, <3>5, <3>6
    <3> HIDE DEF Good
    <3> QED  BY <3>7
  <2>5. CASE ids[k + 1] \notin S
    <3>1. Taken(k + 1) = Taken(k)
      BY <2>5
    <3> QED  BY <2>1, <2>2, <2>5, <3>1
  <2> QED  BY <2>4, <2>5
<1>4. Good(g[13], 13)
  <2> HIDE DEF Q
  <2>1. \A k \in 0 .. 13 : k \in Q
    BY <1>2, <1>3, EachStep
  <2>2. 13 \in Q
    BY <2>1
  <2> QED  BY <2>2 DEF Q
<1>5. Taken(13) = S \cap Range(ids)
  BY ToolIds DEF Range
<1> QED  BY <1>1, <1>4, <1>5

(* It reads of a set which tools are in it, and nothing else.               *)
LEMMA InOrderReads ==
  ASSUME NEW S, NEW R, S \cap Range(HARNESS_TOOL_IDS) = R \cap Range(HARNESS_TOOL_IDS)
  PROVE  InOrder(S) = InOrder(R)
<1>1. PICK g : Filters(g, S) /\ InOrder(S) = g[13]
  BY InOrderIs
<1>2. PICK h : Filters(h, R) /\ InOrder(R) = h[13]
  BY InOrderIs
<1>3. \A n \in 1 .. 13 : HARNESS_TOOL_IDS[n] \in S <=> HARNESS_TOOL_IDS[n] \in R
  BY ToolIds DEF Range
<1> DEFINE Q == {k \in 0 .. 13 : g[k] = h[k]}
<1>4. 0 \in Q
  BY <1>1, <1>2 DEF Filters
<1>5. ASSUME NEW k \in 0 .. 12, k \in Q PROVE k + 1 \in Q
  <2>1. k + 1 \in 1 .. 13 /\ (k + 1) - 1 = k
    OBVIOUS
  <2>2. /\ g[k + 1] = IF HARNESS_TOOL_IDS[k + 1] \in S
                      THEN Append(g[k], HARNESS_TOOL_IDS[k + 1]) ELSE g[k]
        /\ h[k + 1] = IF HARNESS_TOOL_IDS[k + 1] \in R
                      THEN Append(h[k], HARNESS_TOOL_IDS[k + 1]) ELSE h[k]
    BY <1>1, <1>2, <2>1, Zenon DEF Filters
  <2>3. g[k] = h[k]
    BY <1>5
  <2>4. g[k + 1] = h[k + 1]
    BY <1>3, <2>1, <2>2, <2>3, Zenon
  <2> QED  BY <2>4
<1>6. \A k \in 0 .. 13 : k \in Q
  <2> HIDE DEF Q
  <2> QED  BY <1>4, <1>5, EachStep
<1> QED  BY <1>1, <1>2, <1>6

(* Tools that are in their order are selected in it again.                  *)
LEMMA ToolsAgain ==
  ASSUME NEW c, ToolsAccepted(c), Sound(Tools(c)), Sound(Tools(c).enabled)
  PROVE  ToolsAccepted(Tools(c)) /\ Tools(Tools(c)) = Tools(c)
<1> DEFINE e == InOrder(Range(c.enabled))
<1>1. Tools(c) = [enabled |-> e] /\ Tools(Tools(c)) = [enabled |-> InOrder(Range(e))]
  BY DEF Tools
<1>2. /\ Range(e) = Range(c.enabled) \cap Range(HARNESS_TOOL_IDS)
      /\ IsInjective(e)
  BY InOrderKeeps
<1> HIDE DEF e
<1>3. InOrder(Range(e)) = e
  BY <1>2, InOrderReads DEF e
<1>4. ToolsAccepted(Tools(c))
  BY <1>1, <1>2 DEF ToolsAccepted, HasOnly
<1> QED  BY <1>1, <1>3, <1>4

LEMMA ProfileAgain ==
  ASSUME NEW doc, Accepted(doc), Filled(doc)
  PROVE  Accepted(Profile(doc)) /\ Profile(Profile(doc)) = Profile(doc)
<1> DEFINE p == Profile(doc)
<1>1. /\ DOMAIN p = {"schemaVersion", "name"} \cup SectionNames
      /\ p.schemaVersion = 1
      /\ p.name = Trim(Default(doc, "name", "default"))
      /\ p.model = Model(Default(doc, "model", OmittedModel))
      /\ p.workspace = Workspace(Section(doc, "workspace"))
      /\ p.process = Process(Section(doc, "process"))
      /\ p.persistence = Default(doc, "persistence", OmittedPersistence)
      /\ p.tools = Tools(Default(doc, "tools", OmittedTools))
      /\ p.prompt = Prompt(Section(doc, "prompt"))
      /\ p.instructions = Instructions(Section(doc, "instructions"))
      /\ p.approval = Default(doc, "approval", OmittedApproval)
      /\ p.context = Context(Section(doc, "context"))
      /\ p.agent = Agent(Section(doc, "agent"))
  BY DEF Profile, SectionNames
<1>2. /\ Sound(p) /\ \A f \in SectionNames : Sound(p[f])
      /\ p.model.provider = "openrouter" => Sound(p.model.retry) /\ Sound(p.model.routing)
      /\ Sound(p.tools.enabled)
  BY DEF Filled
<1>3. /\ Sound(p.model) /\ Sound(p.workspace) /\ Sound(p.process) /\ Sound(p.tools)
      /\ Sound(p.prompt) /\ Sound(p.instructions) /\ Sound(p.context) /\ Sound(p.agent)
  BY <1>2 DEF SectionNames
<1> HIDE DEF p
<1>4. IsText(p.name) /\ Trim(p.name) = p.name
  <2>1. IsText(Default(doc, "name", "default"))
    BY DefaultsAssumption DEF Accepted, Default
  <2> QED  BY <1>1, <2>1, TrimTwice
<1>5. ModelAccepted(p.model) /\ Model(p.model) = p.model
  BY <1>1, <1>2, <1>3, ModelAgain DEF Accepted
<1>6. WorkspaceAccepted(p.workspace) /\ Workspace(p.workspace) = p.workspace
  BY <1>1, <1>3, WorkspaceAgain DEF Accepted
<1>7. ProcessAccepted(p.process) /\ Process(p.process) = p.process
  BY <1>1, <1>3, ProcessAgain DEF Accepted
<1>8. ToolsAccepted(p.tools) /\ Tools(p.tools) = p.tools
  BY <1>1, <1>2, <1>3, ToolsAgain DEF Accepted
<1>9. PromptAccepted(p.prompt) /\ Prompt(p.prompt) = p.prompt
  BY <1>1, <1>3, PromptAgain DEF Accepted
<1>10. InstructionsAccepted(p.instructions) /\ Instructions(p.instructions) = p.instructions
  BY <1>1, <1>3, InstructionsAgain DEF Accepted
<1>11. ContextAccepted(p.context) /\ Context(p.context) = p.context
  BY <1>1, <1>3, ContextAgain DEF Accepted
<1>12. AgentAccepted(p.agent) /\ Agent(p.agent) = p.agent
  BY <1>1, <1>3, AgentAgain DEF Accepted
<1>13. PersistenceAccepted(p.persistence) /\ ApprovalAccepted(p.approval)
  BY <1>1 DEF Accepted
<1>14. /\ \A f \in SectionNames : f \in DOMAIN p
       /\ "schemaVersion" \in DOMAIN p /\ "name" \in DOMAIN p
  BY <1>1
<1>15. /\ Default(p, "name", "default") = p.name
       /\ Default(p, "model", OmittedModel) = p.model
       /\ Section(p, "workspace") = p.workspace /\ Section(p, "process") = p.process
       /\ Default(p, "persistence", OmittedPersistence) = p.persistence
       /\ Default(p, "tools", OmittedTools) = p.tools
       /\ Section(p, "prompt") = p.prompt
       /\ Section(p, "instructions") = p.instructions
       /\ Default(p, "approval", OmittedApproval) = p.approval
       /\ Section(p, "context") = p.context /\ Section(p, "agent") = p.agent
  BY <1>14 DEF Default, Section, SectionNames
<1>16. Accepted(p)
  <2>1. HasOnly(p, {"schemaVersion", "name"} \cup SectionNames)
    BY <1>1, <1>2 DEF HasOnly
  <2>2. "schemaVersion" \in DOMAIN p /\ p.schemaVersion = 1
    BY <1>1, <1>14
  <2> QED
    BY <1>4, <1>5, <1>6, <1>7, <1>8, <1>9, <1>10, <1>11, <1>12, <1>13, <1>15, <2>1, <2>2,
       Zenon DEF Accepted
<1>17. Profile(p) =
         [schemaVersion |-> 1, name |-> p.name, model |-> p.model,
          workspace |-> p.workspace, process |-> p.process,
          persistence |-> p.persistence, tools |-> p.tools, prompt |-> p.prompt,
          instructions |-> p.instructions, approval |-> p.approval,
          context |-> p.context, agent |-> p.agent]
  BY <1>4, <1>5, <1>6, <1>7, <1>8, <1>9, <1>10, <1>11, <1>12, <1>15, Zenon DEF Profile
<1>18. p = [f \in DOMAIN p |-> p[f]]
  BY DEF p, Profile
<1>19. Profile(p) = p
  BY <1>1, <1>17, <1>18 DEF SectionNames
<1> QED  BY <1>16, <1>19 DEF p

(* For every document the file may hold at any time: the profile written    *)
(* back as it was understood is accepted and means the same.  The file is   *)
(* one of Files, and the objects filled in for it are objects.              *)
THEOREM ProfilesAreCanonical == Spec => []Canonical
<1>1. AnswerInv => Canonical
  BY ObjectsAssumption, ProfileAgain DEF AnswerInv, InputInv, Files, Canonical
<1> QED  BY AnswerIsInvariant, <1>1, PTL
===============================================================================
