--------------------------- MODULE HarnessProfile ---------------------------
(***************************************************************************)
(* Profile documents (src/harness/configuration/src/index.ts).             *)
(*                                                                         *)
(* A document is a function from its fields to their values, as JSON.parse *)
(* returns it: a field that is not in the domain is undefined in the code. *)
(* Accepted says that validateHarnessProfile returns, Profile what.  Texts *)
(* are strings of which only blankness and padding matter, ratios are in   *)
(* hundredths and the byte sizes of Docker in MiB.                         *)
(***************************************************************************)
EXTENDS Integers, Sequences, Functions

CONSTANTS Bad,              \* a value of a wrong type or form for its field
          Null,             \* the JSON null
          Padded            \* texts with space around them |-> the trimmed text

Trim(t) == IF t \in DOMAIN Padded THEN Padded[t] ELSE t

(* { ...f, ...g } where no field is in both. *)
Joined(f, g) ==
  [x \in DOMAIN f \cup DOMAIN g |-> IF x \in DOMAIN f THEN f[x] ELSE g[x]]

-----------------------------------------------------------------------------
(* Reading one field *)

Sound(v) == v \notin {Bad, Null}
HasOnly(c, fields) == Sound(c) /\ DOMAIN c \subseteq fields
Section(c, f) == IF f \in DOMAIN c THEN c[f] ELSE <<>>
Default(c, f, value) == IF f \in DOMAIN c THEN c[f] ELSE value

(* candidate.f ?? value: a null counts as undefined here, and only here. *)
Nullish(c, f, value) == IF f \in DOMAIN c /\ c[f] # Null THEN c[f] ELSE value

(* ...(value === undefined ? {} : { f }) *)
Optional(c, f) == [x \in {f} \cap DOMAIN c |-> c[x]]

IsText(v) == Sound(v) /\ Trim(v) # ""
AtLeast(least, v) == Sound(v) /\ v >= least
AreComponents(v) == Sound(v) /\ (\A i \in DOMAIN v : IsText(v[i])) /\ IsInjective(v)

(* Trimming leaves a text that has nothing to trim.                         *)
ASSUME PaddedAssumption ==
  \A t \in DOMAIN Padded : Padded[t] \notin DOMAIN Padded /\ Sound(Padded[t])

(* The defaults that no check of a document looks at are of the right form. *)
ASSUME DefaultsAssumption ==
  IsText("default") /\ IsText("openrouter/free") /\ Sound(FALSE)

-----------------------------------------------------------------------------
(* model *)

Retry(c) ==
  [maxRetries     |-> Default(c, "maxRetries", 2),
   initialDelayMs |-> Default(c, "initialDelayMs", 250),
   maxDelayMs     |-> Default(c, "maxDelayMs", 5000)]

RetryAccepted(c) ==
  /\ HasOnly(c, DOMAIN Retry(<<>>))
  /\ LET r == Retry(c)
     IN  /\ AtLeast(0, r.maxRetries) /\ r.maxRetries <= 5
         /\ AtLeast(1, r.maxDelayMs) /\ r.maxDelayMs <= 60000
         /\ AtLeast(1, r.initialDelayMs) /\ r.initialDelayMs <= r.maxDelayMs

(* An omitted routing section and an empty one differ in requireParameters. *)
Routing(c) ==
  [allowFallbacks    |-> Default(c, "allowFallbacks", TRUE),
   requireParameters |-> Default(c, "requireParameters", TRUE),
   dataCollection    |-> Nullish(c, "dataCollection", "allow"),
   sort              |-> Nullish(c, "sort", "throughput")]

OmittedRouting == [Routing(<<>>) EXCEPT !.requireParameters = FALSE]

RoutingAccepted(c) ==
  /\ HasOnly(c, DOMAIN OmittedRouting)
  /\ LET r == Routing(c)
     IN  /\ Sound(r.allowFallbacks) /\ Sound(r.requireParameters)
         /\ r.dataCollection \in {"allow", "deny"}
         /\ r.sort \in {"price", "throughput", "latency"}

Model(c) ==
  IF c.provider = "replay"
    THEN Joined([provider |-> "replay"], Optional(c, "contextWindow"))
    ELSE Joined([provider |-> "openrouter",
                 id       |-> Trim(Default(c, "id", "openrouter/free")),
                 retry    |-> Retry(Section(c, "retry")),
                 routing  |-> IF "routing" \in DOMAIN c THEN Routing(c.routing)
                              ELSE OmittedRouting],
                Optional(c, "contextWindow"))

ModelAccepted(c) ==
  /\ HasOnly(c, {"provider", "id", "contextWindow", "retry", "routing"})
  /\ "contextWindow" \in DOMAIN c => AtLeast(1, c.contextWindow)
  /\ "provider" \in DOMAIN c
  /\ \/ c.provider = "replay" /\ {"id", "retry", "routing"} \cap DOMAIN c = {}
     \/ /\ c.provider = "openrouter"
        /\ "id" \in DOMAIN c => IsText(c.id)
        /\ RetryAccepted(Section(c, "retry"))
        /\ RoutingAccepted(Section(c, "routing"))

OmittedModel == [provider |-> "openrouter"]

-----------------------------------------------------------------------------
(* workspace and process *)

Workspace(c) ==
  [root |-> Default(c, "root", "."), maxFileBytes |-> Default(c, "maxFileBytes", 1048576)]

WorkspaceAccepted(c) ==
  /\ HasOnly(c, {"root", "maxFileBytes"})
  /\ IsText(Workspace(c).root) /\ AtLeast(1, Workspace(c).maxFileBytes)

DockerFields == {"image", "memoryBytes", "pidsLimit", "tmpfsBytes"}

Backend(c) == Nullish(c, "backend", "local")

Common(c) ==
  [backend         |-> Backend(c),
   allowedPrograms |-> Default(c, "allowedPrograms", <<"git", "node", "npm", "npx", "rg">>),
   timeoutMs       |-> Default(c, "timeoutMs", 120000),
   maxTimeoutMs    |-> Default(c, "maxTimeoutMs", 600000),
   maxOutputBytes  |-> Default(c, "maxOutputBytes", 64000),
   killGraceMs     |-> Default(c, "killGraceMs", 3000)]

Docker(c) ==
  [image       |-> Trim(Default(c, "image", "")),
   memoryBytes |-> Default(c, "memoryBytes", 1024),
   pidsLimit   |-> Default(c, "pidsLimit", 256),
   tmpfsBytes  |-> Default(c, "tmpfsBytes", 256)]

(* Mutant: the budgets of Docker are filled in for both backends. *)
ProcessWithBudgets(c) == Joined(Common(c), [Docker(c) EXCEPT !.image = "none"])

Process(c) ==
  IF Backend(c) = "docker" THEN Joined(Common(c), Docker(c)) ELSE Common(c)

DockerAccepted(d) ==
  /\ IsText(d.image)
  /\ AtLeast(1, d.memoryBytes) /\ d.memoryBytes <= 65536
  /\ AtLeast(1, d.pidsLimit)   /\ d.pidsLimit <= 4096
  /\ AtLeast(1, d.tmpfsBytes)  /\ d.tmpfsBytes <= 4096
  /\ d.tmpfsBytes <= d.memoryBytes

ProcessAccepted(c) ==
  /\ HasOnly(c, DOMAIN Common(<<>>) \cup DockerFields)
  /\ LET p == Common(c)
         longest == 2147483647
     IN  /\ AreComponents(p.allowedPrograms) /\ p.allowedPrograms # <<>>
         /\ AtLeast(1, p.maxTimeoutMs) /\ p.maxTimeoutMs <= longest
         /\ AtLeast(1, p.timeoutMs) /\ p.timeoutMs <= p.maxTimeoutMs
         /\ AtLeast(1, p.maxOutputBytes) /\ p.maxOutputBytes <= 16777216
         /\ AtLeast(1, p.killGraceMs) /\ p.killGraceMs <= longest
  /\ \/ Backend(c) = "local" /\ DockerFields \cap DOMAIN c = {}
     \/ Backend(c) = "docker" /\ DockerAccepted(Docker(c))

-----------------------------------------------------------------------------
(* persistence, tools, prompt, instructions, approval, context and agent *)

OmittedPersistence == [kind |-> "memory"]

PersistenceAccepted(c) ==
  /\ HasOnly(c, {"kind", "directory"})
  /\ "kind" \in DOMAIN c
  /\ \/ c.kind = "memory" /\ "directory" \notin DOMAIN c
     \/ c.kind = "file" /\ "directory" \in DOMAIN c /\ IsText(c.directory)

HARNESS_TOOL_IDS ==
  <<"add", "workspace.create", "workspace.read", "workspace.list", "workspace.find",
    "workspace.stat", "workspace.write", "workspace.edit", "workspace.preview_patch",
    "workspace.patch", "workspace.move", "workspace.delete", "workspace.command">>

OmittedTools == [enabled |-> HARNESS_TOOL_IDS]

(* HARNESS_TOOL_IDS.filter((tool) => S.has(tool)) *)
InOrder(S) ==
  LET first[n \in 0 .. Len(HARNESS_TOOL_IDS)] ==
        IF n = 0 THEN <<>>
        ELSE IF HARNESS_TOOL_IDS[n] \in S THEN Append(first[n - 1], HARNESS_TOOL_IDS[n])
        ELSE first[n - 1]
  IN first[Len(HARNESS_TOOL_IDS)]

(* The selected tools in the order of HARNESS_TOOL_IDS, however they were written. *)
Tools(c) == [enabled |-> InOrder(Range(c.enabled))]

ToolsAccepted(c) ==
  /\ HasOnly(c, {"enabled"})
  /\ "enabled" \in DOMAIN c /\ Sound(c.enabled)
  /\ Range(c.enabled) \subseteq Range(HARNESS_TOOL_IDS)
  /\ IsInjective(c.enabled)

Prompt(c) ==
  Joined([identity          |-> Default(c, "identity", TRUE),
          workspaceGuidance |-> Default(c, "workspaceGuidance", TRUE)],
         [x \in {"persona"} \cap DOMAIN c |-> Trim(c[x])])

PromptAccepted(c) ==
  /\ HasOnly(c, {"identity", "workspaceGuidance", "persona"})
  /\ "persona" \in DOMAIN c => IsText(c.persona)
  /\ Sound(Prompt(c).identity) /\ Sound(Prompt(c).workspaceGuidance)

Instructions(c) ==
  [enabled        |-> Default(c, "enabled", TRUE),
   directory      |-> Default(c, "directory", "."),
   maxBytes       |-> Default(c, "maxBytes", 65536),
   maxSourceBytes |-> Default(c, "maxSourceBytes", 1048576),
   projectRootMarkers             |-> Default(c, "projectRootMarkers", <<".git">>),
   instructionFileCandidates      |->
     Default(c, "instructionFileCandidates", <<"AGENTS.md", "CLAUDE.md">>),
   localInstructionFileCandidates |->
     Default(c, "localInstructionFileCandidates", <<"AGENTS.local.md", "CLAUDE.local.md">>)]

InstructionsAccepted(c) ==
  /\ HasOnly(c, DOMAIN Instructions(<<>>))
  /\ LET i == Instructions(c)
     IN  /\ Sound(i.enabled) /\ IsText(i.directory)
         /\ AtLeast(0, i.maxBytes) /\ AtLeast(0, i.maxSourceBytes)
         /\ AreComponents(i.projectRootMarkers)
         /\ AreComponents(i.instructionFileCandidates)
         /\ AreComponents(i.localInstructionFileCandidates)

OmittedApproval == [default |-> "ask"]

ApprovalAccepted(c) ==
  HasOnly(c, {"default"}) /\ "default" \in DOMAIN c /\ c.default \in {"ask", "deny"}

Context(c) ==
  [thresholdRatio     |-> Nullish(c, "thresholdRatio", 80),
   retainTurns        |-> Default(c, "retainTurns", 1),
   maxOverflowRetries |-> Default(c, "maxOverflowRetries", 1)]

ContextAccepted(c) ==
  /\ HasOnly(c, DOMAIN Context(<<>>))
  /\ AtLeast(1, Context(c).thresholdRatio) /\ Context(c).thresholdRatio < 100
  /\ AtLeast(1, Context(c).retainTurns) /\ AtLeast(0, Context(c).maxOverflowRetries)

Agent(c) == [maxSteps |-> Default(c, "maxSteps", 8)]

AgentAccepted(c) ==
  HasOnly(c, {"maxSteps"}) /\ AtLeast(1, Agent(c).maxSteps) /\ Agent(c).maxSteps <= 64

-----------------------------------------------------------------------------
(* The whole document *)

SectionNames ==
  {"model", "workspace", "process", "persistence", "tools", "prompt", "instructions",
   "approval", "context", "agent"}

Accepted(doc) ==
  /\ HasOnly(doc, {"schemaVersion", "name"} \cup SectionNames)
  /\ "schemaVersion" \in DOMAIN doc /\ doc.schemaVersion = 1
  /\ "name" \in DOMAIN doc => IsText(doc.name)
  /\ ModelAccepted(Default(doc, "model", OmittedModel))
  /\ WorkspaceAccepted(Section(doc, "workspace"))
  /\ ProcessAccepted(Section(doc, "process"))
  /\ PersistenceAccepted(Default(doc, "persistence", OmittedPersistence))
  /\ ToolsAccepted(Default(doc, "tools", OmittedTools))
  /\ PromptAccepted(Section(doc, "prompt"))
  /\ InstructionsAccepted(Section(doc, "instructions"))
  /\ ApprovalAccepted(Default(doc, "approval", OmittedApproval))
  /\ ContextAccepted(Section(doc, "context"))
  /\ AgentAccepted(Section(doc, "agent"))

Profile(doc) ==
  [schemaVersion |-> 1,
   name          |-> Trim(Default(doc, "name", "default")),
   model         |-> Model(Default(doc, "model", OmittedModel)),
   workspace     |-> Workspace(Section(doc, "workspace")),
   process       |-> Process(Section(doc, "process")),
   persistence   |-> Default(doc, "persistence", OmittedPersistence),
   tools         |-> Tools(Default(doc, "tools", OmittedTools)),
   prompt        |-> Prompt(Section(doc, "prompt")),
   instructions  |-> Instructions(Section(doc, "instructions")),
   approval      |-> Default(doc, "approval", OmittedApproval),
   context       |-> Context(Section(doc, "context")),
   agent         |-> Agent(Section(doc, "agent"))]

(* The objects and the list that are filled in are not among the values of  *)
(* a wrong type.                                                            *)
Filled(doc) ==
  LET p == Profile(doc)
  IN  /\ Sound(p) /\ \A f \in SectionNames : Sound(p[f])
      /\ p.model.provider = "openrouter" => Sound(p.model.retry) /\ Sound(p.model.routing)
      /\ Sound(p.tools.enabled)

DEFAULT_HARNESS_PROFILE == Profile([schemaVersion |-> 1])
=============================================================================
