----------------------------- MODULE MCSettings -----------------------------
(* Values for Settings: a full bridge, one without web search, sessions and  *)
(* compaction, and a model without auto compact limit; contexts of which     *)
(* callers supply only a part; bounds that vary the rows the user touches.   *)
EXTENDS Settings, TLC

CONSTANTS t1, t2

FullBridge == {"unified_exec", "shell_command", "apply_patch", "view_image", "image_generation",
               "standalone_web_search", "hosted_web_search", "remote_compaction_v2",
               "compact_endpoint", "responses_websocket", "responses_sse"}
Full == [selected |-> TRUE, provider |-> "openai-codex", api |-> TRUE, bridge |-> FullBridge,
         shell |-> "shell-command", image |-> TRUE, vision |-> TRUE, lite |-> FALSE, patch |-> TRUE,
         threshold |-> 3, window |-> Window("safe", 5)]
Poor == [Full EXCEPT !.bridge = {"shell_command", "responses_sse"}, !.threshold = 0,
                     !.lite = TRUE, !.image = FALSE]
Other == [Full EXCEPT !.provider = "other", !.bridge = @ \ {"hosted_web_search"},
                      !.shell = "disabled", !.vision = FALSE]
\* A context window that is no integer.
Fractional == [Full EXCEPT !.window = Window("other", 5)]
Unselected == [Full EXCEPT !.selected = FALSE]

MCTaskIds == {t1, t2}
MCForeign == [CreateDefaultConfig EXCEPT !.webSearch = "unknown"]
Quiet == [CreateDefaultConfig EXCEPT !.webSearch = "disabled", !.compaction = "off"]
MCOtherConfigs == {[CreateDefaultConfig EXCEPT !.verbosity = "high"]}
MCProviderInputs == {{"openai-codex", "other"}, {"overlong"}}
Bridges == {{}, {"responses_websocket"}, {"responses_sse"}, {"hosted_web_search"},
            {"compact_endpoint", "responses_sse"}}
MCContexts ==
    {EmptyContext} \cup
    {[EmptyContext EXCEPT !.known = TRUE, !.bridge = b, !.websockets = w, !.v2 = v,
                          !.endpoint = v, !.shell = "shell-command"] :
        b \in Bridges, w \in {"undefined", "false"}, v \in {"undefined", "false"}} \cup
    {[EmptyContext EXCEPT !.window = Window(kind, size)] : kind \in {"safe", "other"}, size \in {0, 5}}
Bound(rows, env, f, b, keys, faults, others) ==
    [rows |-> rows, env |-> env, file |-> f, backup |-> b, keys |-> keys, faults |-> faults,
     others |-> others]
Default == Json(CreateDefaultConfig)
MCBounds ==
    {Bound({"approvalPolicy", "reset"}, Full, Default, Absent, 5, 0, 0),
     Bound({"filesystemAccessPolicy", "status"}, Unselected, Absent, Absent, 3, 1, 1),
     Bound({"status"}, Unselected, Json(MCForeign), Default, 4, 1, 1),
     Bound({"webSearch", "compaction", "autoCompactTokenLimit", "compactNow"}, Full,
           Json(Quiet), Absent, 4, 0, 0),
     Bound({"compaction", "autoCompactTokenLimit"}, Fractional,
           Json([CreateDefaultConfig EXCEPT !.autoCompactTokenLimit = 4]), Absent, 4, 0, 0),
     Bound({"backgroundSessions", "transport", "webSearch", "compaction", "reset"}, Poor,
           Json(Quiet), Absent, 4, 1, 0),
     Bound({"providers", "viewImage", "imageGeneration", "serviceTier", "verbosity", "export",
            "help", "compactNow"}, Other, Default, Absent, 4, 0, 0)}
Symmetric == Permutations(MCTaskIds)
=============================================================================
