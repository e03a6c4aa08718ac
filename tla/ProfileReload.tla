---------------------------- MODULE ProfileReload ----------------------------
(***************************************************************************)
(* The runtime of the command line, interactive with its /reload command   *)
(* or for one turn (src/harness/cli/src/index.ts, with the profiles of     *)
(* HarnessProfile).                                                        *)
(*                                                                         *)
(* A profile file is resolved under the launch overlays, turned into a     *)
(* manifest and reconciled by AppBoot, which is its contract ManifestHost  *)
(* here.  The file is edited by somebody else at any time, the signal      *)
(* aborts at any time a trace callback or an await lets it.  The contents  *)
(* of a plugin are abstracted to the parts of the configuration its load   *)
(* closure reads.                                                          *)
(***************************************************************************)
EXTENDS HarnessProfile

CONSTANTS Documents,        \* what the profile file may hold at the start
          Edits,            \* what an edit may make of it
          Unreadable,       \* a file that is missing or is not JSON
          Launches,         \* launch overlays: arguments and environment
          Missing,          \* workspace roots that do not exist
          MaxCommands,      \* bound: reload commands
          MaxEdits          \* bound: edits of the profile file

VARIABLES file, launch, aborted,
          submitted, settled, committed,    \* AppBoot
          plugins,          \* the plugin each AppBoot handle holds
          pc,               \* where runCli or runInteractiveCli is
          initial,          \* its local configuration
          current,          \* currentConfiguration of the reload handler
          reload,           \* the last reload: its phase, outcome and locals
          turn,             \* what the last turn was run with
          commands, edits   \* counters

boot  == <<submitted, settled, committed>>
input == <<file, launch, aborted, edits>>
vars  == <<input, boot, plugins, pc, initial, current, reload, turn, commands>>

NoConfiguration == <<>>
NoPlugin == <<>>
NoReload == [phase |-> "none"]
NoTurn   == [maxSteps |-> 0]

-----------------------------------------------------------------------------
(* Resolving a profile below the launch overlays *)

Loads(l, doc) ==
  /\ l.profile => doc # Unreadable /\ Accepted(doc)
  /\ "contextWindow" \in DOMAIN l => AtLeast(1, l.contextWindow)

Resolve(l, doc) ==
  LET profile == IF l.profile THEN Profile(doc) ELSE DEFAULT_HARNESS_PROFILE
      base    == IF l.profile THEN "profile" ELSE "cwd"
      replay  == l.replay \/ profile.model.provider = "replay"
  IN [interactive |-> l.interactive,
      mode  |-> IF replay THEN "replay" ELSE "openrouter",
      model |-> IF replay THEN "replay/calculator"
                ELSE Default(l, "model", profile.model.id),
      contextWindow    |-> Default(l, "contextWindow",
                                   Default(profile.model, "contextWindow", 0)),
      workspaceRoot    |-> IF "root" \in DOMAIN l THEN <<"cwd", l.root>>
                           ELSE <<base, profile.workspace.root>>,
      sessionDirectory |-> IF "sessions" \in DOMAIN l THEN <<"cwd", l.sessions>>
                           ELSE IF profile.persistence.kind = "file"
                             THEN <<base, profile.persistence.directory>> ELSE <<>>,
      profile          |-> profile]

(* The digest is taken to be free of collisions. *)
Fingerprint(c) == [f \in DOMAIN c |-> c[f]]

Selected(c) == Range(c.profile.tools.enabled)
UsesFiles(c) == Selected(c) \ {"add", "workspace.command"} # {}
UsesCommands(c) == "workspace.command" \in Selected(c)

(* What the constructors called by createParts and runtimeManifest refuse   *)
(* although the profile was accepted.  docker: the daemon answers and has   *)
(* the image.  A program with spaces around it passes the profile and is    *)
(* refused by both runners.                                                 *)
ModelConstructible(c) == c.mode = "openrouter" => launch.key

FilesConstructible(c) == UsesFiles(c) => c.workspaceRoot \notin Missing

ProgramsAccepted(c) ==
  Range(c.profile.process.allowedPrograms) \cap DOMAIN Padded = {}

RunnerConstructible(c) == c.workspaceRoot \notin Missing /\ ProgramsAccepted(c)

DockerConstructible(c, docker) == RunnerConstructible(c) /\ docker

Constructible(c, docker) ==
  /\ ModelConstructible(c)
  /\ FilesConstructible(c)
  /\ UsesCommands(c) => IF c.profile.process.backend = "docker"
                          THEN DockerConstructible(c, docker)
                          ELSE RunnerConstructible(c)

-----------------------------------------------------------------------------
(* The manifest of a configuration *)

Registries ==
  {"sessions", "tools", "system-prompt", "token-meter", "commands", "command-inspect",
   "command-reload", "command-help", "command-exit"}

Prompts ==
  {"prompt-identity", "prompt-persona", "prompt-workspace-filesystem",
   "prompt-workspace-instructions", "prompt-workspace-command"}

Providers == {"loop", "model", "approval", "sandbox", "compaction", "command-compact"}

EntryIds == Range(HARNESS_TOOL_IDS) \cup Registries \cup Prompts \cup Providers

(* The entries whose revision is profileRevision; the others have 'v1'. *)
Revised ==
  Providers \cup {"workspace.command", "prompt-persona", "prompt-workspace-instructions"}

(* Mutant: the sandbox keeps its first revision. *)
RevisionNotOfSandbox(id, m) == IF id \in Revised \ {"sandbox"} THEN m.revision ELSE {}

Revision(id, m) == IF id \in Revised THEN m.revision ELSE {}

Enabled(id, c) ==
  CASE id \in Range(HARNESS_TOOL_IDS) -> id \in Selected(c)
    [] id = "prompt-identity" -> c.profile.prompt.identity
    [] id = "prompt-persona" -> "persona" \in DOMAIN c.profile.prompt
    [] id \in {"prompt-workspace-filesystem", "prompt-workspace-command"} ->
         c.profile.prompt.workspaceGuidance
    [] id = "prompt-workspace-instructions" -> c.profile.instructions.enabled
    [] id = "command-reload" -> c.interactive
    [] OTHER -> TRUE

(* Every manifest lists the same entries: it is the revision its revised    *)
(* entries share, as a set so that 'v1' is the empty one, and which of the  *)
(* entries are enabled.                                                     *)
Manifest(c) ==
  [revision |-> {Fingerprint(c)}, enabled |-> {id \in EntryIds : Enabled(id, c)}]

NoEntries == [revision |-> {}, enabled |-> {}]

(* What the plugin of an entry is built from. *)
Needs(id, c) ==
  LET model == <<c.mode, c.model, c.contextWindow, c.profile.model>>
  IN CASE id \in {"model", "compaction", "command-compact"} -> model
       [] id = "loop" -> <<model, c.profile.context>>
       [] id = "approval" -> <<c.profile.approval>>
       [] id = "sandbox" -> <<c.workspaceRoot, UsesFiles(c), UsesCommands(c),
                              c.profile.workspace.maxFileBytes, c.profile.process>>
       [] id = "workspace.command" -> <<c.profile.process.backend>>
       [] id = "prompt-persona" -> <<Default(c.profile.prompt, "persona", "")>>
       [] id = "prompt-workspace-instructions" -> <<c.workspaceRoot, c.profile.instructions>>
       [] id = "sessions" -> <<c.sessionDirectory>>
       [] OTHER -> <<"static">>

(* The session store is constructed once, before the first manifest. *)
Built(id, c) == IF id = "sessions" THEN Needs(id, initial) ELSE Needs(id, c)

(* AppBoot keeps the plugin of an entry, enabled or not, as long as the     *)
(* entry keeps its revision.                                                *)
PluginsAfter(c) ==
  LET next == Manifest(c)
  IN [id \in EntryIds |->
        IF plugins[id] # NoPlugin /\ Revision(id, committed) = Revision(id, next)
          THEN plugins[id]
        ELSE IF id \in next.enabled THEN Built(id, c) ELSE NoPlugin]

Configurations ==
  UNION {{Resolve(l, doc) : doc \in {d \in Documents \cup Edits : Loads(l, d)}} : l \in Launches}

Boot == INSTANCE ManifestHost WITH
  Manifests    <- {Manifest(c) : c \in Configurations} \cup {NoEntries},
  NoManifest   <- NoEntries,
  MaxManifests <- MaxCommands + 2

-----------------------------------------------------------------------------
(* Around the runtime *)

EditProfile(doc) ==
  /\ edits < MaxEdits
  /\ doc # file
  /\ file' = doc
  /\ edits' = edits + 1
  /\ UNCHANGED <<launch, aborted, boot, plugins, pc, initial, current, reload, turn, commands>>

Abort ==
  /\ ~aborted
  /\ pc # "exited"
  /\ aborted' = TRUE
  /\ UNCHANGED <<file, launch, edits, boot, plugins, pc, initial, current, reload, turn,
                 commands>>

(* --init writes the default coding profile where there is no file. *)
InitialDocument ==
  [DEFAULT_HARNESS_PROFILE EXCEPT
     !.name = "coding",
     !.persistence = [kind |-> "file", directory |-> ".deepseek-cordis/sessions"],
     !.tools.enabled = InOrder(Range(HARNESS_TOOL_IDS) \ {"add", "workspace.create"})]

(* Bad and Null are neither an object nor a list. *)
ASSUME ObjectsAssumption ==
  \A doc \in (Documents \cup Edits \cup {InitialDocument}) \ {Unreadable} :
    Accepted(doc) => Filled(doc)

initializeCliProfile ==
  /\ pc = "off"
  /\ file = Unreadable
  /\ file' = InitialDocument
  /\ UNCHANGED <<launch, aborted, edits, boot, plugins, pc, initial, current, reload, turn,
                 commands>>

-----------------------------------------------------------------------------
(* Mounting and closing *)

Goto(label) == pc' = label

Start(docker) ==
  /\ pc = "off"
  /\ IF Loads(launch, file) /\ Constructible(Resolve(launch, file), docker)
       THEN /\ initial' = Resolve(launch, file)
            /\ current' = Resolve(launch, file)
            /\ Boot!Submit(Manifest(Resolve(launch, file)))
            /\ Goto("mounting")
       ELSE Goto("exited") /\ UNCHANGED <<initial, current, boot>>
  /\ UNCHANGED <<input, plugins, reload, turn, commands>>

MountCommits ==
  /\ pc = "mounting"
  /\ Boot!Commit
  /\ plugins' = PluginsAfter(current)
  /\ Goto(IF ~launch.interactive THEN "once"
          ELSE IF aborted THEN "closing" ELSE "prompt")
  /\ UNCHANGED <<input, initial, current, reload, turn, commands>>

MountFails ==
  /\ pc = "mounting"
  /\ Boot!Reject
  /\ Goto("closing")
  /\ UNCHANGED <<input, plugins, initial, current, reload, turn, commands>>

(* boot.dispose(): the empty manifest; either outcome ends the process. *)
Close ==
  /\ pc = "closing"
  /\ Boot!Submit(NoEntries)
  /\ Goto("disposing")
  /\ UNCHANGED <<input, plugins, initial, current, reload, turn, commands>>

Closed ==
  /\ pc = "disposing"
  /\ Boot!Commit \/ Boot!Reject
  /\ Goto("exited")
  /\ UNCHANGED <<input, plugins, initial, current, reload, turn, commands>>

-----------------------------------------------------------------------------
(* The loop that reads lines *)

NextLine == Goto(IF aborted THEN "closing" ELSE "prompt")

Exit ==
  /\ pc = "prompt"
  /\ Goto("closing")
  /\ UNCHANGED <<input, boot, plugins, initial, current, reload, turn, commands>>

(* The turn runs in the mounted graph, with the step limit of the           *)
(* configuration the process was started with.                              *)
BeginTurn ==
  /\ pc = "prompt"
  /\ turn' = [maxSteps |-> initial.profile.agent.maxSteps]
  /\ Goto("turn")
  /\ UNCHANGED <<input, boot, plugins, initial, current, reload, commands>>

(* runCli: one turn, which is handed a signal that may have aborted by now. *)
RunOnce ==
  /\ pc = "once"
  /\ turn' = [maxSteps |-> initial.profile.agent.maxSteps]
  /\ Goto("turn")
  /\ UNCHANGED <<input, boot, plugins, initial, current, reload, commands>>

EndTurn ==
  /\ pc = "turn"
  /\ \/ launch.interactive /\ NextLine
     \/ Goto("closing")                        \* or the turn throws, or was the only one
  /\ UNCHANGED <<input, boot, plugins, initial, current, reload, turn, commands>>

-----------------------------------------------------------------------------
(* /reload: CommandRegistry.execute around the handler *)

(* arguments: the line has text after the name.  The append of command/run  *)
(* may throw, and an aborted signal does; both leave the loop.              *)
Admit(arguments) ==
  /\ pc = "prompt"
  /\ commands < MaxCommands
  /\ commands' = commands + 1
  /\ \/ Goto("closing") /\ UNCHANGED reload
     \/ /\ ~aborted
        /\ reload' = [phase |-> "started", arguments |-> arguments,
                      next |-> NoConfiguration, before |-> current, outcome |-> "none"]
        /\ Goto("reload")
  /\ UNCHANGED <<input, boot, plugins, initial, current, turn>>

Answer(outcome, next) ==
  /\ reload' = [reload EXCEPT !.phase = "answered", !.outcome = outcome, !.next = next]
  /\ UNCHANGED boot

(* The handler up to boot.reconcile(), which runs without a break but for   *)
(* the trace callback at its start.                                         *)
Prepare(docker) ==
  LET next == Resolve(launch, file)
  IN /\ pc = "reload"
     /\ reload.phase = "started"
     /\ \/ /\ aborted \/ reload.arguments \/ ~launch.profile \/ ~Loads(launch, file)
           /\ Answer("error", NoConfiguration)
        \/ /\ ~aborted /\ ~reload.arguments /\ launch.profile /\ Loads(launch, file)
           /\ \/ /\ next.sessionDirectory # current.sessionDirectory
                 /\ Answer("error", NoConfiguration)
              \/ /\ next.sessionDirectory = current.sessionDirectory
                 /\ \/ /\ Fingerprint(next) = Fingerprint(current)
                       /\ Answer("unchanged", next)
                    \/ /\ Fingerprint(next) # Fingerprint(current)
                       /\ ~Constructible(next, docker)
                       /\ Answer("error", NoConfiguration)
                    \/ /\ Fingerprint(next) # Fingerprint(current)
                       /\ Constructible(next, docker)
                       /\ Boot!Submit(Manifest(next))
                       /\ reload' = [reload EXCEPT !.phase = "reconciling", !.next = next]
     /\ UNCHANGED <<input, plugins, pc, initial, current, turn, commands>>

Reconciled ==
  /\ pc = "reload"
  /\ reload.phase = "reconciling"
  /\ Boot!Commit
  /\ plugins' = PluginsAfter(reload.next)
  /\ current' = reload.next
  /\ reload' = [reload EXCEPT !.phase = "answered", !.outcome = "applied"]
  /\ UNCHANGED <<input, pc, initial, turn, commands>>

Rejected ==
  /\ pc = "reload"
  /\ reload.phase = "reconciling"
  /\ Boot!Reject
  /\ reload' = [reload EXCEPT !.phase = "answered", !.outcome = "error"]
  /\ UNCHANGED <<input, plugins, pc, initial, current, turn, commands>>

(* Mutant: the command is registered with the default cancellation policy. *)
SettledCooperatively ==
  IF aborted THEN "cancelled" ELSE reload.outcome

(* An admission-only command keeps its answer when the signal aborts after  *)
(* it was admitted; an error is then reported as a cancellation.            *)
SettledResult ==
  IF reload.outcome = "error" /\ aborted THEN "cancelled" ELSE reload.outcome

(* The append of command/done may throw, which ends the loop. *)
Report ==
  /\ pc = "reload"
  /\ reload.phase = "answered"
  /\ \/ /\ reload' = [reload EXCEPT !.phase = "reported", !.outcome = SettledResult]
        /\ NextLine
     \/ Goto("closing") /\ UNCHANGED reload
  /\ UNCHANGED <<input, boot, plugins, initial, current, turn, commands>>

-----------------------------------------------------------------------------

Init ==
  /\ file \in Documents
  /\ launch \in Launches
  /\ aborted = FALSE /\ edits = 0 /\ commands = 0
  /\ Boot!Init
  /\ plugins = [id \in EntryIds |-> NoPlugin]
  /\ pc = "off"
  /\ initial = NoConfiguration /\ current = NoConfiguration
  /\ reload = NoReload
  /\ turn = NoTurn

Command ==
  \/ \E arguments \in BOOLEAN : Admit(arguments)
  \/ \E docker \in BOOLEAN : Prepare(docker)
  \/ Reconciled \/ Rejected \/ Report

Next ==
  \/ \E doc \in Edits : EditProfile(doc)
  \/ Abort \/ initializeCliProfile
  \/ \E docker \in BOOLEAN : Start(docker)
  \/ MountCommits \/ MountFails \/ Close \/ Closed
  \/ Exit \/ BeginTurn \/ RunOnce \/ EndTurn
  \/ Command

Spec == Init /\ [][Next]_vars
-----------------------------------------------------------------------------
(* Properties *)

Running == pc \in {"prompt", "once", "turn", "reload"}

(* Whenever no reconciliation is under way, AppBoot describes exactly the   *)
(* manifest of currentConfiguration, and every mounted plugin, one kept     *)
(* from an earlier profile included, is what that configuration would build *)
(* now: no entry with the revision 'v1' reads what a reload can change.     *)
MountedAsConfigured ==
  (Running /\ settled = Len(submitted)) =>
    /\ committed = Manifest(current)
    /\ \A id \in committed.enabled : plugins[id] = Needs(id, current)

(* The durable answer of /reload is true whenever the signal aborts:        *)
(* "applied" means that the configuration it loaded is the current one now, *)
(* "unchanged" that it already was, and an error or a cancellation that     *)
(* the current one is still that of before the command.                     *)
HonestReload ==
  reload.phase = "reported" =>
    \/ /\ reload.outcome = "applied"
       /\ current = reload.next /\ current # reload.before
    \/ /\ reload.outcome = "unchanged"
       /\ current = reload.next /\ current = reload.before
    \/ reload.outcome \in {"error", "cancelled"} /\ current = reload.before

(* A profile written back as it was understood, as --init writes the        *)
(* default one, is accepted and means the same.                             *)
Canonical ==
  (file # Unreadable /\ Accepted(file)) =>
    Accepted(Profile(file)) /\ Profile(Profile(file)) = Profile(file)

(* "Interactive profile changes become visible only after a successful      *)
(* `/reload`; turns never observe a partially applied policy."              *)
(* (src/harness/cli/README.md:73): the step limit of a turn is that of the  *)
(* profile the rest of its policy comes from.                               *)
WholePolicy == pc = "turn" => turn.maxSteps = current.profile.agent.maxSteps
=============================================================================
