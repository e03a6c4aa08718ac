--------------------------- MODULE MCProfileReload ---------------------------
(***************************************************************************)
(* An instance of ProfileReload: documents that change one part of a       *)
(* profile each, that are refused for a reason each, and that pass the     *)
(* profile but not the constructors.                                       *)
(***************************************************************************)
EXTENDS ProfileReload, TLC

PaddedTexts == " rg" :> "rg" @@ " " :> "" @@ " terse " :> "terse"

Base == [schemaVersion |-> 1]
With(field, value) == Base @@ (field :> value)

InDocker == [backend |-> "docker", image |-> "node"]

ReplayDocument ==
  With("model", [provider |-> "replay", contextWindow |-> 9])
  @@ [approval |-> [default |-> "deny"], instructions |-> [enabled |-> FALSE],
      context |-> [retainTurns |-> 2, thresholdRatio |-> Null]]

DockerDocument ==
  With("process", InDocker)
  @@ [model |-> [provider |-> "openrouter", routing |-> <<>>,
                 retry |-> [initialDelayMs |-> 5000]],
      persistence |-> [kind |-> "file", directory |-> "sessions"]]

ToolsDocument ==
  With("tools", [enabled |-> <<"workspace.read", "add">>]) @@ [name |-> " terse "]

PersonaDocument ==
  With("prompt", [persona |-> " terse ", identity |-> FALSE])
  @@ [agent |-> [maxSteps |-> 64]]

AcceptedDocuments ==
  {Base, ReplayDocument, DockerDocument, ToolsDocument, PersonaDocument,
   With("process", [backend |-> Null, allowedPrograms |-> <<" rg">>]),
   With("workspace", [root |-> "gone"])}

RefusedDocuments ==
  {With("agent", [maxSteps |-> 65]),
   With("process", InDocker @@ [memoryBytes |-> 128]),
   With("process", [memoryBytes |-> 128]),
   With("process", [maxTimeoutMs |-> 1000]),
   With("approval", <<>>),
   With("prompt", [persona |-> " "]),
   With("model", [provider |-> "replay", retry |-> <<>>]),
   With("tools", [enabled |-> <<"add", "add">>])}

MCDocuments == AcceptedDocuments \cup RefusedDocuments \cup {Unreadable}

MCEdits == {Base, With("process", InDocker), ToolsDocument, PersonaDocument}

Live == [replay |-> FALSE, key |-> TRUE, profile |-> TRUE, interactive |-> TRUE]

MCLaunches ==
  {Live,
   Live @@ [model |-> "chosen", root |-> "here", sessions |-> "kept", contextWindow |-> 5],
   [replay |-> TRUE, key |-> FALSE, profile |-> FALSE, interactive |-> TRUE],
   [Live EXCEPT !.interactive = FALSE]}

MCMissing == {<<"profile", "gone">>}
=============================================================================
