----------------------------- MODULE ConfigRules -----------------------------
(* The configuration of the adaptor and the rules about it: its schema, the  *)
(* capabilities the bridge resolves for it, what a save refuses and what the *)
(* settings overlay shows as unsupported.  Only operators; Settings checks   *)
(* them against each other on the configurations it reaches.                 *)
EXTENDS Naturals

CONSTANT ProviderIds    \* the well-formed Pi provider ids

ASSUME ProviderAssumption == ProviderIds \subseteq STRING /\ "openai-codex" \in ProviderIds

\* A limit of 0 stands for the word "model"; a configuration whose compaction is
\* off carries no limit, which is written as "model" too.
ModelLimit == 0

\* A document of the current schema; parsing it also constrains the ids and ties the
\* limit to the mode.
CodexConfig ==
    [providers : SUBSET STRING, backgroundSessions : BOOLEAN, viewImage : {"auto", "off"},
     imageGeneration : {"auto", "off"}, approvalPolicy : {"on-request", "never"},
     filesystemAccessPolicy : {"workspace", "unrestricted"},
     serviceTier : {"default", "priority", "flex"}, verbosity : {"low", "medium", "high"},
     transport : {"auto", "sse"}, webSearch : {"disabled", "cached", "indexed", "live"},
     compaction : {"auto", "off"}, autoCompactTokenLimit : Nat, status : BOOLEAN]
ShellSurfaces == {"unified-exec", "shell-command", "disabled"}
CreateDefaultConfig ==
    [providers |-> {"openai-codex"}, backgroundSessions |-> TRUE, viewImage |-> "auto",
     imageGeneration |-> "auto", approvalPolicy |-> "on-request",
     filesystemAccessPolicy |-> "workspace", serviceTier |-> "default", verbosity |-> "low",
     transport |-> "auto", webSearch |-> "cached", compaction |-> "auto",
     autoCompactTokenLimit |-> ModelLimit, status |-> TRUE]

-----------------------------------------------------------------------------
(* The schema: parseConfig and the parsers of its sections.                  *)

ParseActivation(c) == c.providers # {} /\ c.providers \subseteq ProviderIds
ParseTools(c) == c.backgroundSessions \in BOOLEAN
                 /\ {c.viewImage, c.imageGeneration} \subseteq {"auto", "off"}
ParseSecurity(c) == /\ c.approvalPolicy \in {"on-request", "never"}
                    /\ c.filesystemAccessPolicy \in {"workspace", "unrestricted"}
NestedMode(mode, allowed) == mode \in allowed
ParseCompaction(c) ==
    \/ c.compaction = "off" /\ c.autoCompactTokenLimit = ModelLimit
    \/ c.compaction = "auto" /\ c.autoCompactTokenLimit \in Nat
ParseCodex(c) ==
    /\ c.serviceTier \in {"default", "priority", "flex"}
    /\ c.verbosity \in {"low", "medium", "high"}
    /\ NestedMode(c.transport, {"auto", "sse"})
    /\ NestedMode(c.webSearch, {"disabled", "cached", "indexed", "live"})
    /\ ParseCompaction(c)
ParseUi(c) == c.status \in BOOLEAN
ParseConfig(c) ==
    ParseActivation(c) /\ ParseTools(c) /\ ParseSecurity(c) /\ ParseCodex(c) /\ ParseUi(c)

-----------------------------------------------------------------------------
(* Capabilities.  An environment is the selected model and the connected     *)
(* bridge: [selected, provider, api, bridge, shell, image, vision, lite,     *)
(* patch, threshold, window]: whether Pi has selected a model, its provider  *)
(* and whether its API is supported, the capability names of the bridge, the *)
(* shell surface, image input as Pi and as the native catalogue has it,      *)
(* Responses Lite and apply_patch of the model,                              *)
(* its auto compact limit (0 is none) and its context window.                *)

\* A context window is none, a safe integer, or another number, which is rounded up:
\* that changes no comparison with a limit, which is an integer.
Window(kind, size) == [kind |-> kind, size |-> size]
NoWindow == Window("none", 0)
Reaches(limit, window) == window.kind # "none" /\ limit >= window.size

Availabilities == {"available", "disabled", "unavailable"}
BuildToolsResolveParams(c, e) ==
    [web |-> c.webSearch # "disabled", image |-> e.image,
     standalone |-> "standalone_web_search" \in e.bridge,
     sessions |-> c.backgroundSessions /\ "unified_exec" \in e.bridge,
     viewImage |-> c.viewImage = "auto" /\ "view_image" \in e.bridge,
     imageGeneration |-> c.imageGeneration = "auto" /\ "image_generation" \in e.bridge]

\* tools.resolve of the bridge.  The host allows all tools but the two image ones
\* for a model without image input.
SessionSurface(p, e) ==
    CASE e.shell = "unified-exec" -> "official"
      [] e.shell = "shell-command" -> IF p.sessions THEN "supplemental" ELSE "disabled"
      [] OTHER -> "unavailable"
SessionCapability(p, e) == CASE e.shell = "disabled" -> "unavailable"
                             [] p.sessions -> "available"
                             [] OTHER -> "disabled"
ImageTool(wanted, p, e) == CASE ~wanted \/ ~p.image -> "disabled"
                             [] wanted /\ p.image /\ ~e.vision -> "unavailable"
                             [] OTHER -> "available"
WebSurface(p, e) == CASE ~p.web -> "disabled"
                      [] p.web /\ e.lite /\ p.standalone -> "standalone"
                      [] p.web /\ ~e.lite -> "hosted"
                      [] OTHER -> "unsupported"
WebCapability(surface) == CASE surface = "disabled" -> "disabled"
                            [] surface = "unsupported" -> "unavailable"
                            [] OTHER -> "available"

ResolveThreshold(c, e) ==
    LET value == IF c.autoCompactTokenLimit # ModelLimit THEN c.autoCompactTokenLimit
                                                        ELSE e.threshold
    IN  IF c.compaction = "off" \/ Reaches(value, e.window) THEN 0 ELSE value
RequireBridge(value, e, names) ==
    IF value = "available" /\ names \cap e.bridge = {} THEN "unavailable" ELSE value
Implementation(e) == CASE "remote_compaction_v2" \in e.bridge -> "remote_v2"
                       [] "compact_endpoint" \in e.bridge -> "compact_endpoint"
                       [] OTHER -> "none"
ManualCompaction(c, e) == CASE c.compaction = "off" -> "disabled"
                            [] c.compaction # "off" /\ Implementation(e) = "none" -> "unavailable"
                            [] OTHER -> "available"
AutomaticCompaction(c, e) ==
    IF ManualCompaction(c, e) = "available" /\ ResolveThreshold(c, e) = 0
    THEN "unavailable" ELSE ManualCompaction(c, e)
BoundedShell(e) ==
    IF e.shell # "disabled"
       /\ (IF e.shell = "unified-exec" THEN "unified_exec" ELSE "shell_command") \in e.bridge
    THEN "available" ELSE "unavailable"
ProviderSupportsWebsockets(e) == e.provider = "openai-codex" /\ "responses_websocket" \in e.bridge

\* The effective capability snapshot of a configuration.
Resolve(c, e) ==
    LET p == BuildToolsResolveParams(c, e)
        missing == c.backgroundSessions /\ "unified_exec" \notin e.bridge
    IN  [bounded |-> BoundedShell(e), websockets |-> ProviderSupportsWebsockets(e),
         sessions |-> IF missing THEN "unavailable" ELSE SessionCapability(p, e),
         sessionSurface |-> IF missing THEN "unavailable" ELSE SessionSurface(p, e),
         applyPatch |-> RequireBridge(IF e.patch THEN "available" ELSE "unavailable", e,
                                      {"apply_patch"}),
         viewImage |-> RequireBridge(ImageTool(p.viewImage, p, e), e, {"view_image"}),
         imageGeneration |-> RequireBridge(ImageTool(p.imageGeneration, p, e), e,
                                           {"image_generation"}),
         webSearch |-> RequireBridge(WebCapability(WebSurface(p, e)), e,
                                     {"standalone_web_search", "hosted_web_search"}),
         webSurface |-> WebSurface(p, e), manual |-> ManualCompaction(c, e),
         automatic |-> AutomaticCompaction(c, e), threshold |-> ResolveThreshold(c, e),
         transport |-> IF "responses_sse" \in e.bridge THEN "available" ELSE "unavailable"]

\* A plausible bug: the key of the cache without the limit.
CapabilityCacheKey_NoLimit(c) ==
    <<c.webSearch, c.viewImage, c.imageGeneration, c.backgroundSessions, c.compaction>>

\* The part of a configuration that names an entry of the capability cache.  The key
\* also holds the model, its provider, its image input and window, and the host's
\* tools: they are the environment's, which does not change while an overlay is open.
CapabilityCacheKey(c) ==
    <<c.webSearch, c.viewImage, c.imageGeneration, c.backgroundSessions, c.compaction,
      c.autoCompactTokenLimit>>

-----------------------------------------------------------------------------
(* What a save refuses and what the overlay shows.  A field of a context is  *)
(* "undefined" where the caller supplies none.                               *)

Truth(b) == IF b THEN "true" ELSE "false"
CapabilityContextFromSnapshot(s, e) ==
    [window |-> e.window, modelLimit |-> IF e.threshold = 0 THEN "null" ELSE "number",
     known |-> TRUE, bridge |-> e.bridge, shell |-> e.shell,
     backgroundSessions |-> Truth("unified_exec" \in e.bridge
                                  /\ s.sessionSurface # "unavailable"),
     viewImage |-> Truth(s.viewImage = "available"),
     imageGeneration |-> Truth(s.imageGeneration = "available"),
     webSearch |-> Truth(s.webSearch = "available"),
     manual |-> Truth(s.manual = "available"), transport |-> Truth(s.transport = "available"),
     websockets |-> Truth(s.websockets), v2 |-> Truth(Implementation(e) = "remote_v2"),
     endpoint |-> Truth(Implementation(e) = "compact_endpoint")]
EmptyContext ==
    [window |-> NoWindow, modelLimit |-> "undefined", known |-> FALSE, bridge |-> {},
     shell |-> "undefined", backgroundSessions |-> "undefined", viewImage |-> "undefined",
     imageGeneration |-> "undefined", webSearch |-> "undefined", manual |-> "undefined",
     transport |-> "undefined", websockets |-> "undefined", v2 |-> "undefined",
     endpoint |-> "undefined"]

\* The bridge is known and advertises none of these names.
Lacks(x, names) == x.known /\ names \cap x.bridge = {}
WebNames == {"standalone_web_search", "hosted_web_search"}
CompactionNames == {"remote_compaction_v2", "compact_endpoint"}
TransportNames == {"responses_websocket", "responses_sse"}

\* The settings for which a save is refused.
CollectCapabilityIssues(c, x) ==
    LET auto == c.compaction = "auto"
        limit == c.autoCompactTokenLimit
        refused == [backgroundSessions |-> c.backgroundSessions /\ x.backgroundSessions = "false",
            webSearch |-> c.webSearch # "disabled"
                /\ \/ x.webSearch = "false"
                   \/ x.webSearch = "undefined" /\ Lacks(x, WebNames),
            compaction |-> auto
                /\ \/ x.manual = "false"
                   \/ x.manual = "undefined"
                      /\ \/ Lacks(x, CompactionNames)
                         \/ x.v2 = "false" /\ x.endpoint = "false",
            transport |->
                \/ x.transport = "false"
                \/ /\ x.transport = "undefined"
                   /\ Lacks(x, IF c.transport = "sse" \/ x.websockets = "false"
                               THEN {"responses_sse"} ELSE TransportNames),
            autoCompactTokenLimit |-> auto
                /\ \/ /\ limit # ModelLimit /\ x.window.kind # "none"
                      /\ \/ x.window.kind = "other" \/ x.window.size = 0
                         \/ limit >= x.window.size
                   \/ limit = ModelLimit /\ x.modelLimit = "null"]
    IN  {p \in DOMAIN refused : refused[p]}
ValidateConfigForSave(c, x) == ParseConfig(c) /\ CollectCapabilityIssues(c, x) = {}

EvaluateBackgroundSessions(c, x) ==
    IF x.backgroundSessions = "false"
       \/ (x.backgroundSessions # "true" /\ x.shell \notin {"undefined", "unified-exec"})
    THEN "unsupported"
    ELSE IF c.backgroundSessions THEN "enabled" ELSE "disabled"
EvaluateOptionalTool(value, x, name, effective) ==
    CASE value = "off" -> "disabled"
      [] value # "off" /\ (effective = "false" \/ Lacks(x, {name})) -> "unsupported"
      [] OTHER -> "enabled"

\* A plausible bug: a provider without WebSocket is assumed to have SSE.
EvaluateTransport_AssumesSse(c, x) ==
    CASE x.transport = "false" -> "unsupported"
      [] x.transport # "false" /\ c.transport = "sse" ->
            IF Lacks(x, {"responses_sse"}) THEN "unsupported" ELSE "enabled"
      [] x.transport # "false" /\ c.transport # "sse" /\ x.websockets = "false" -> "disabled"
      [] OTHER -> IF Lacks(x, TransportNames) THEN "unsupported" ELSE "enabled"

EvaluateTransport(c, x) ==
    CASE x.transport = "false" -> "unsupported"
      [] x.transport # "false" /\ c.transport = "sse" ->
            IF Lacks(x, {"responses_sse"}) THEN "unsupported" ELSE "enabled"
      [] x.transport # "false" /\ c.transport # "sse" /\ x.websockets = "false" ->
            IF Lacks(x, {"responses_sse"}) THEN "unsupported" ELSE "disabled"
      [] OTHER -> IF Lacks(x, TransportNames) THEN "unsupported" ELSE "enabled"
EvaluateWebSearch(c, x) ==
    CASE c.webSearch = "disabled" -> "disabled"
      [] c.webSearch # "disabled" /\ (x.webSearch = "false" \/ Lacks(x, WebNames)) ->
            "unsupported"
      [] OTHER -> "enabled"
EvaluateCompaction(c, x) ==
    CASE c.compaction = "off" -> "disabled"
      [] /\ c.compaction # "off"
         /\ \/ x.manual = "false" \/ Lacks(x, CompactionNames)
            \/ x.v2 = "false" /\ x.endpoint = "false" -> "unsupported"
      [] OTHER -> "enabled"
\* A plausible bug: a limit that is the whole window is taken for one below it.
EvaluateAutoCompactTokenLimit_Above(c, x) ==
    IF IF c.autoCompactTokenLimit = ModelLimit THEN x.modelLimit = "null"
       ELSE Reaches(c.autoCompactTokenLimit, x.window) /\ c.autoCompactTokenLimit # x.window.size
    THEN "unsupported" ELSE "enabled"
EvaluateAutoCompactTokenLimit(c, x) ==
    IF IF c.autoCompactTokenLimit = ModelLimit THEN x.modelLimit = "null"
       ELSE Reaches(c.autoCompactTokenLimit, x.window)
    THEN "unsupported" ELSE "enabled"

EvaluateConfigSettings(c, x) ==
    [backgroundSessions |-> EvaluateBackgroundSessions(c, x),
     viewImage |-> EvaluateOptionalTool(c.viewImage, x, "view_image", x.viewImage),
     imageGeneration |-> EvaluateOptionalTool(c.imageGeneration, x, "image_generation",
                                              x.imageGeneration),
     transport |-> EvaluateTransport(c, x), webSearch |-> EvaluateWebSearch(c, x),
     compaction |-> EvaluateCompaction(c, x),
     autoCompactTokenLimit |-> IF c.compaction = "auto"
                               THEN EvaluateAutoCompactTokenLimit(c, x) ELSE "disabled"]
\* The one refusal that no evaluation shows: a number below a window that is no safe
\* integer is refused, and the row that holds it is enabled.
Unexplained(c, x) ==
    {r \in {"autoCompactTokenLimit"} :
        /\ c.autoCompactTokenLimit # ModelLimit /\ x.window.kind = "other"
        /\ ~Reaches(c.autoCompactTokenLimit, x.window)}
Unsupported(c, x) == LET shown == EvaluateConfigSettings(c, x)
                     IN  {p \in DOMAIN shown : shown[p] = "unsupported"}
=============================================================================
