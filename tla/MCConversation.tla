--------------------------- MODULE MCConversation ---------------------------
(* Instances of Conversation: long texts of the kinds that share blocks,     *)
(* short ones of every kind, and calls over several turns with ids that come *)
(* again.                                                                    *)
EXTENDS Conversation, TLC

Bound(kinds, chunks, size, turns, reused) ==
    [kinds |-> kinds, chunks |-> chunks, items |-> size, turns |-> turns, reused |-> reused]
MCBounds == {Bound({"message", "reasoning", "web_search_call", "function_call"}, 2, 3, 1, {}),
             Bound(AllKinds, 1, 2, 2, {0, 1}),
             Bound(ToolKinds, 0, 2, 3, {1}),
             Bound({"function_call", "custom_tool_call"}, 0, 3, 2, {1})}
=============================================================================
