---------------------------- MODULE Conversation ----------------------------
(***************************************************************************)
(* What a Codex response becomes, and what of it the next request carries. *)
(* ResponseState turns the provider's events into content blocks of Pi's   *)
(* assistant message and into the events of Pi's stream; the whole item is *)
(* kept in the block's signature.  The next request is built from Pi's     *)
(* messages: failed responses are dropped, tool calls whose results were   *)
(* never recorded get a synthetic one, and every block becomes the item of *)
(* its signature again.                                                    *)
(*                                                                         *)
(* A text is a sequence of chunks, a chunk a pair of an item id and a      *)
(* number.  The provider finishes an item before it begins the next one.   *)
(* Pi records the result of a call before the next turn, or never.         *)
(***************************************************************************)
EXTENDS Integers, Sequences, FiniteSets, SequencesExt

CONSTANTS
    None,
    Bounds       \* bounds: kinds of items, chunks of a text, items and user messages,
                 \* and the call ids that may come again, 0 is the empty one

\* "misnamed" is a custom tool call that does not name apply_patch, "nameless" a function
\* call whose name is empty; "unsupported" an item that cannot be persisted in a signature.
ToolKinds == {"function_call", "custom_tool_call", "misnamed", "nameless"}
AllKinds == {"message", "reasoning", "web_search_call", "compaction", "unsupported"} \cup ToolKinds

ASSUME ConversationAssumption ==
    /\ None \notin AllKinds
    /\ Bounds \subseteq [kinds : SUBSET AllKinds, chunks : Nat, items : Nat, turns : Nat, reused : SUBSET Nat]

VARIABLES
    bound,     \* the bounds of this behaviour, of Bounds
    phase,     \* "idle", "streaming" a response, or running its "tools"
    messages,  \* Pi's conversation
    input,     \* the items of the last request that was built
    current,   \* the item the provider is streaming, with the text sent so far
    items,     \* items begun so far: their ids are 1..items
    content,   \* the content blocks of the response
    open,      \* textIndex or thinkingIndex: the block that is open, or 0
    events,    \* the events pushed to Pi's stream
    served     \* the items the provider has finished in this response

responseVars == <<current, items, content, open, events, served>>
vars == <<bound, phase, messages, input, responseVars>>

Chunks(id, n) == [k \in 1..n |-> <<id, k>>]
\* A call's id is a number, and 0 when it is empty; items that are no calls have 0.
Call(kind, id, call) == [kind |-> kind, id |-> id, call |-> call, text |-> <<>>]
Item(kind, id, text) == [kind |-> kind, id |-> id, call |-> 0, text |-> text]
Output(kind, call) == Call(kind, 0, call)
NoItem == Item(None, 0, <<>>)

-----------------------------------------------------------------------------
(* ResponseState, on a record of the blocks, the open block and the events. *)

State == [content |-> content, open |-> open, events |-> events]

Event(type, index, text) == [type |-> type, index |-> index, text |-> text]
Push(s, e) == [s EXCEPT !.events = Append(@, e)]

\* endText, endThinking and endOpenBlocks.
EndOpenBlocks(s) ==
    IF s.open = 0 THEN s
    ELSE [Push(s, Event("end", s.open, s.content[s.open].text)) EXCEPT !.open = 0]

\* Mutant: a block of the other type stays open.
Ensure_KeepsOther(s, type) ==
    IF s.open # 0 /\ s.content[s.open].type = type THEN s
    ELSE LET index == Len(s.content) + 1 IN
         [Push(s, Event("start", index, <<>>)) EXCEPT
            !.content = Append(@, [type |-> type, text |-> <<>>, item |-> None]),
            !.open = index]

\* ensureText and ensureThinking: the open block of the type, or a new one.
Ensure(s, type) ==
    IF s.open # 0 /\ s.content[s.open].type = type THEN s
    ELSE LET ended == EndOpenBlocks(s)
             index == Len(ended.content) + 1
         IN  [Push(ended, Event("start", index, <<>>)) EXCEPT
                !.content = Append(@, [type |-> type, text |-> <<>>, item |-> None]),
                !.open = index]

\* appendText and appendThinking.
AppendDelta(s, type, delta) ==
    LET ensured == Ensure(s, type) IN
    [Push(ensured, Event("delta", ensured.open, delta)) EXCEPT
        !.content[ensured.open].text = @ \o delta]

\* Mutant: the completed text is appended whatever was streamed.
CompletedDelta_Whole(text, completed) == completed

\* What a completed text adds to the text that was streamed.
CompletedDelta(text, completed) ==
    IF text = completed THEN <<>>
    ELSE IF IsPrefix(text, completed) THEN SubSeq(completed, Len(text) + 1, Len(completed))
    ELSE completed

\* applyCompletedText and applyCompletedThinking.
ApplyCompleted(s, type, completed) ==
    IF completed = <<>> THEN s
    ELSE LET ensured == Ensure(s, type)
             delta == CompletedDelta(ensured.content[ensured.open].text, completed)
         IN  IF delta = <<>> THEN ensured ELSE AppendDelta(ensured, type, delta)

\* applyTextSignature and the signature of a reasoning item: the open block of the
\* type takes the item; a message without content takes the text of the block.
Sign(s, type, item, bare) ==
    LET ensured == Ensure(s, type)
        text == IF bare THEN ensured.content[ensured.open].text ELSE item.text
    IN  [ensured EXCEPT !.content[ensured.open].item = [item EXCEPT !.text = text]]

\* A block that is complete at once: it is started and ended, with its text between.
AddClosed(s, block) ==
    LET ended == EndOpenBlocks(s)
        index == Len(ended.content) + 1
        started == Push([ended EXCEPT !.content = Append(@, block)], Event("start", index, <<>>))
        told == IF block.text = <<>> THEN started ELSE Push(started, Event("delta", index, block.text))
    IN  Push(told, Event("end", index, block.text))

\* Mutant: a tool call stays the open block.
AddToolCall_StaysOpen(s, item) ==
    [AddClosed(s, [type |-> "toolCall", text |-> <<>>, item |-> item]) EXCEPT
        !.open = Len(s.content) + 1]

AddToolCall(s, item) == AddClosed(s, [type |-> "toolCall", text |-> <<>>, item |-> item])
ConsumeOpaqueItem(s, item) == AddClosed(s, [type |-> "text", text |-> <<>>, item |-> item])
\* The summary that stands for a hosted search is a chunk of its own.
ConsumeHostedWebSearch(s, item) ==
    AddClosed(s, [type |-> "text", text |-> << <<item.id, 0>> >>, item |-> item])

FinishItem(s, item, bare) ==
    CASE item.kind = "message" ->
            Sign(ApplyCompleted(s, "text", IF bare THEN <<>> ELSE item.text), "text", item, bare)
      [] item.kind = "reasoning" ->
            Sign(ApplyCompleted(s, "thinking", item.text), "thinking", item, FALSE)
      [] item.kind = "web_search_call" -> ConsumeHostedWebSearch(s, item)
      [] item.kind \in ToolKinds -> AddToolCall(s, item)
      [] OTHER -> ConsumeOpaqueItem(s, item)

HasToolCall == \E b \in ToSet(content) : b.type = "toolCall"
StopReason(terminal) ==
    IF terminal = "length" THEN "length" ELSE IF HasToolCall THEN "toolUse" ELSE "stop"

-----------------------------------------------------------------------------
(* Messages and the items they become.                                     *)

User == [role |-> "user"]
ExcludedBash == [role |-> "bashExecution"]
ToolResult(call, kind) == [role |-> "toolResult", call |-> call, kind |-> kind]
\* sent holds the finished items and the text of an unfinished one, for the properties.
Assistant(blocks, reason, sent) ==
    [role |-> "assistant", content |-> blocks, stopReason |-> reason, sent |-> sent]

\* Mutant: every tool is taken for a function.
OutputKindForToolName_Function(kind) == "function"

\* Results are custom for apply_patch, and function results for every other name.
OutputKindForToolName(kind) == IF kind = "custom_tool_call" THEN "custom" ELSE "function"
\* The signature holds the call's own item, so its call id is the visible one.
SignedToolCallKind(kind) == IF kind \in {"function_call", "nameless"} THEN "function" ELSE "custom"

IsCall(block) == block.type = "toolCall"
CollectToolCalls(m) == SelectSeq(m.content, IsCall)

IsTurnBoundary(m) == m.role \in {"user", "assistant"}
IsDropped(m) == m.role = "assistant" /\ m.stopReason \in {"error", "aborted"}

\* Mutant: two calls of a response may have one id.
CallsFail_NotOnRepeats(calls) ==
    \E k \in DOMAIN calls :
        LET item == calls[k].item IN
        \/ item.call = 0 \/ item.kind = "nameless"
        \/ SignedToolCallKind(item.kind) # OutputKindForToolName(item.kind)

\* The failures of collectToolCalls: a call without id or name, an id that an earlier
\* call of the message has, and a signed kind that is not the one of the name.
CallsFail(calls) ==
    \E k \in DOMAIN calls :
        LET item == calls[k].item IN
        \/ item.call = 0 \/ item.kind = "nameless"
        \/ \E j \in 1..(k - 1) : calls[j].item.call = item.call
        \/ SignedToolCallKind(item.kind) # OutputKindForToolName(item.kind)

Synthetic(calls) ==
    [k \in DOMAIN calls |-> ToolResult(calls[k].item.call, OutputKindForToolName(calls[k].item.kind))]

Answers(m, b) == m.role = "toolResult" /\ b.item.call = m.call

\* Mutant: interrupted calls are answered at the end only.
NormalizeStep_FlushLast(acc, m) ==
    LET calls == IF m.role = "assistant" THEN CollectToolCalls(m) ELSE <<>> IN
    IF IsDropped(m) THEN acc
    ELSE [out |-> Append(acc.out, m), failed |-> acc.failed \/ CallsFail(calls),
          pending |-> SelectSeq(acc.pending, LAMBDA b : ~Answers(m, b)) \o calls]

\* Mutant: a result that is not of the kind of the last call of the message fails.
NormalizeStep_LastKind(acc, m) ==
    LET boundary == IsTurnBoundary(m)
        flushed == IF boundary THEN acc.out \o Synthetic(acc.pending) ELSE acc.out
        calls == IF m.role = "assistant" THEN CollectToolCalls(m)
                 ELSE IF boundary THEN <<>> ELSE SelectSeq(acc.pending, LAMBDA b : ~Answers(m, b))
        fails == \/ m.role = "assistant" /\ CallsFail(calls)
                 \/ /\ m.role = "toolResult" /\ acc.pending # <<>>
                    /\ OutputKindForToolName(Last(acc.pending).item.kind) # m.kind
    IN  IF IsDropped(m) THEN [acc EXCEPT !.out = flushed, !.pending = <<>>]
        ELSE [out |-> Append(flushed, m), pending |-> calls, failed |-> acc.failed \/ fails]

\* One message of the loop: a turn boundary answers the calls that are pending, an
\* assistant message brings new ones, and a result answers its own.  The loop fails on
\* calls that are ill formed and on a result that is not of the kind of its call.
NormalizeStep(acc, m) ==
    LET boundary == IsTurnBoundary(m)
        flushed == IF boundary THEN acc.out \o Synthetic(acc.pending) ELSE acc.out
        calls == IF m.role = "assistant" THEN CollectToolCalls(m)
                 ELSE IF boundary THEN <<>> ELSE SelectSeq(acc.pending, LAMBDA b : ~Answers(m, b))
        fails == \/ m.role = "assistant" /\ CallsFail(calls)
                 \/ \E b \in ToSet(acc.pending) :
                        Answers(m, b) /\ OutputKindForToolName(b.item.kind) # m.kind
    IN  IF IsDropped(m) THEN [acc EXCEPT !.out = flushed, !.pending = <<>>]
        ELSE [out |-> Append(flushed, m), pending |-> calls, failed |-> acc.failed \/ fails]

Normalized(ms) == FoldLeft(NormalizeStep, [out |-> <<>>, pending |-> <<>>, failed |-> FALSE], ms)
NormalizeCodexContextMessages(ms) ==
    LET last == Normalized(ms) IN last.out \o Synthetic(last.pending)
FailsNormalization(ms) == Normalized(ms).failed

\* The item an envelope of this version and kind holds.
DecodeResponseItemSignature(b) == b.item

\* A block becomes the item of its signature, or an item without an id.
BlockItem(b) ==
    IF DecodeResponseItemSignature(b) # None THEN DecodeResponseItemSignature(b)
    ELSE Item(IF b.type = "text" THEN "message" ELSE "reasoning", 0, b.text)

\* Mutant: reasoning is not sent back.
ToResponseItems_WithoutReasoning(m) ==
    CASE m.role = "assistant" ->
            SelectSeq([k \in DOMAIN m.content |-> BlockItem(m.content[k])], LAMBDA i : i.kind # "reasoning")
      [] m.role = "toolResult" -> <<Output(m.kind, m.call)>>
      [] m.role = "user" -> <<Item("user", 0, <<>>)>>
      [] OTHER -> <<>>

ToResponseItems(m) ==
    CASE m.role = "assistant" -> [k \in DOMAIN m.content |-> BlockItem(m.content[k])]
      [] m.role = "toolResult" -> <<Output(m.kind, m.call)>>
      [] m.role = "user" -> <<Item("user", 0, <<>>)>>
      [] OTHER -> <<>>

\* Mutant: the reasoning of earlier turns is left out.
ResponseItemsFromMessages_LastReasoning(ms) ==
    LET ns == NormalizeCodexContextMessages(ms)
        Old(k) == \E j \in k + 1..Len(ns) : ns[j].role = "user"
        Carried(k) == SelectSeq(ToResponseItems(ns[k]), LAMBDA i : ~Old(k) \/ i.kind # "reasoning")
    IN  FlattenSeq([k \in DOMAIN ns |-> Carried(k)])

ResponseItemsFromMessages(ms) ==
    LET ns == NormalizeCodexContextMessages(ms)
    IN  FlattenSeq([k \in DOMAIN ns |-> ToResponseItems(ns[k])])

-----------------------------------------------------------------------------
Init ==
    /\ bound \in Bounds
    /\ phase = "idle"
    /\ messages = <<>> /\ input = <<>>
    /\ current = NoItem /\ items = 0
    /\ content = <<>> /\ open = 0 /\ events = <<>> /\ served = <<>>

\* The text of the item that was not finished, in the block that is open.
Unfinished ==
    IF current.text = <<>> THEN <<>> ELSE <<[current EXCEPT !.id = 0]>>

\* A request is built from the messages: the response begins, or Pi records an error.
BuildRequest(ms) ==
    IF FailsNormalization(ms)
    THEN /\ messages' = Append(ms, Assistant(<<>>, "error", <<>>))
         /\ phase' = "idle"
         /\ UNCHANGED <<bound, input, responseVars>>
    ELSE /\ messages' = ms
         /\ input' = ResponseItemsFromMessages(ms)
         /\ phase' = "streaming"
         /\ current' = NoItem
         /\ content' = <<>> /\ open' = 0 /\ events' = <<>> /\ served' = <<>>
         /\ UNCHANGED <<bound, items>>

Turns == Cardinality({k \in DOMAIN messages : messages[k].role = "user"})
Prompt ==
    /\ phase = "idle" /\ Turns < bound.turns
    /\ BuildRequest(Append(messages, User))

Become(s) == content' = s.content /\ open' = s.open /\ events' = s.events

\* The chunks of the item's own text that were streamed; raw reasoning has number 0.
Sent == Cardinality({k \in DOMAIN current.text : current.text[k][2] # 0})

\* The provider begins an item.  Nothing keeps it from leaving a call's id empty or from
\* using again the id of an earlier call, of this response or of another one.
BeginItem(kind, call) ==
    /\ phase = "streaming" /\ current.kind = None /\ items < bound.items
    /\ IF kind \in ToolKinds THEN call = items + 1 \/ (call \in bound.reused /\ call <= items)
       ELSE call = 0
    /\ items' = items + 1
    /\ current' = Call(kind, items + 1, call)
    /\ UNCHANGED <<bound, phase, messages, input, content, open, events, served>>

\* A delta of a message, or of the summary (n > 0) or the raw text (n = 0) of a
\* reasoning item; both go to the thinking block.
AcceptDelta(n) ==
    LET delta == << <<current.id, n>> >> IN
    /\ phase = "streaming" /\ current.kind \in {"message", "reasoning"}
    /\ n = Sent + 1 \/ (n = 0 /\ current.kind = "reasoning" /\ current.text = <<>>)
    /\ current' = [current EXCEPT !.text = @ \o delta]
    /\ Become(AppendDelta(State, IF current.kind = "message" THEN "text" ELSE "thinking", delta))
    /\ UNCHANGED <<bound, phase, messages, input, items, served>>

\* The item is done: it may hold more text than was streamed; a message may come
\* without its content.
AcceptItem(n, bare) ==
    LET item == [current EXCEPT !.text = Chunks(current.id, n)] IN
    /\ phase = "streaming" /\ current.kind \notin {None, "unsupported"}
    /\ n >= Sent
    /\ current.kind \notin {"message", "reasoning"} => n = 0
    /\ bare => current.kind = "message" /\ n = Sent
    /\ Become(FinishItem(State, item, bare))
    /\ served' = Append(served, item)
    /\ current' = NoItem
    /\ UNCHANGED <<bound, phase, messages, input, items>>

\* The response fails or is aborted: its blocks stay as they are.
EndsBadly(reason) ==
    /\ messages' = Append(messages, Assistant(content, reason, <<>>))
    /\ phase' = "idle"
    /\ UNCHANGED <<bound, input, responseVars>>

\* encodeResponseItemSignature throws on the item.
RejectItem ==
    /\ phase = "streaming" /\ current.kind = "unsupported"
    /\ EndsBadly("error")

ResponseFails ==
    /\ phase = "streaming"
    /\ \E reason \in {"error", "aborted"} : EndsBadly(reason)

\* The response is over; an incomplete one may break off within an item.
Complete(terminal) ==
    LET ended == EndOpenBlocks(State) IN
    /\ phase = "streaming" /\ current.kind # "unsupported"
    /\ terminal = "stop" => current.kind = None
    /\ Become(ended)
    /\ messages' = Append(messages,
                          Assistant(ended.content, StopReason(terminal), served \o Unfinished))
    /\ phase' = IF HasToolCall THEN "tools" ELSE "idle"
    /\ UNCHANGED <<bound, input, current, items, served>>

\* Pi runs the calls of the last response and records their results.
PendingCalls ==
    LET response == Max({k \in DOMAIN messages : messages[k].role = "assistant"})
        Results(call) == {k \in response..Len(messages) :
                             messages[k].role = "toolResult" /\ messages[k].call = call}
        Calls(call) == {k \in DOMAIN content : IsCall(content[k]) /\ content[k].item.call = call}
    IN  {b \in ToSet(content) : IsCall(b) /\
            Cardinality(Results(b.item.call)) < Cardinality(Calls(b.item.call))}
RecordResult(b) ==
    /\ phase = "tools" /\ b \in PendingCalls
    /\ messages' = Append(messages, ToolResult(b.item.call, OutputKindForToolName(b.item.kind)))
    /\ UNCHANGED <<bound, phase, input, responseVars>>

\* A command the user ran beside it, which is not part of the context.
RecordExcludedBash ==
    /\ phase = "tools" /\ ExcludedBash \notin ToSet(messages)
    /\ messages' = Append(messages, ExcludedBash)
    /\ UNCHANGED <<bound, phase, input, responseVars>>

Interrupt ==
    /\ phase = "tools"
    /\ phase' = "idle"
    /\ UNCHANGED <<bound, messages, input, responseVars>>

Continue ==
    /\ phase = "tools" /\ PendingCalls = {}
    /\ BuildRequest(messages)

Next ==
    \/ Prompt \/ RejectItem \/ ResponseFails
    \/ RecordExcludedBash \/ Interrupt \/ Continue
    \/ \E kind \in bound.kinds, call \in 0..bound.items : BeginItem(kind, call)
    \/ \E n \in 0..bound.chunks : AcceptDelta(n)
    \/ \E n \in 0..bound.chunks, bare \in BOOLEAN : AcceptItem(n, bare)
    \/ \E terminal \in {"stop", "length"} : Complete(terminal)
    \/ \E b \in ToSet(content) : RecordResult(b)

Spec == Init /\ [][Next]_vars

-----------------------------------------------------------------------------
(* Properties.                                                             *)

ItemType ==
    [kind : AllKinds \cup {None, "user", "function", "custom"}, id : 0..bound.items, call : 0..bound.items,
     text : Seq((1..bound.items) \X (0..bound.chunks))]
BlockType ==
    [type : {"text", "thinking", "toolCall"}, text : Seq((1..bound.items) \X (0..bound.chunks)),
     item : ItemType \cup {None}]

\* Every variable has its type; the open block is one of the blocks, and it is a
\* text or a thinking block (ResponseState).
TypeOK ==
    /\ phase \in {"idle", "streaming", "tools"}
    /\ input \in Seq(ItemType) /\ served \in Seq(ItemType)
    /\ current \in ItemType
    /\ items \in 0..bound.items
    /\ content \in Seq(BlockType)
    /\ open \in 0..Len(content) /\ (open # 0 => content[open].type \in {"text", "thinking"})
    /\ \A m \in ToSet(messages) : m.role = "assistant" => m.content \in Seq(BlockType)

EventsOf(index) == SelectSeq(events, LAMBDA e : e.index = index)
Concatenated(es) == FoldLeft(LAMBDA acc, e : acc \o e.text, <<>>, es)

\* Pi's stream is well formed: blocks are started one after another, each is ended
\* before the next one starts, and what a block was told between its start and its
\* end is its text (ResponseState and the events it pushes).
EventsAreBracketed ==
    /\ \A k \in DOMAIN events :
        events[k].type = "start" =>
            \/ events[k].index = 1
            \/ events[k].index > 1 /\ events[k - 1] = Event("end", events[k].index - 1, content[events[k].index - 1].text)
    /\ \A index \in DOMAIN content :
        LET es == EventsOf(index)
            ended == \E e \in ToSet(es) : e.type = "end"
            told == SubSeq(es, 2, IF ended THEN Len(es) - 1 ELSE Len(es))
        IN  /\ es # <<>> /\ es[1].type = "start"
            /\ ended = (index # open)
            /\ \A k \in DOMAIN told : told[k].type = "delta"
            /\ Concatenated(told) = content[index].text

\* Two items of one kind directly after each other share a block: the text of the
\* first is repeated and its signature replaced (ensureText, ensureThinking).
Shares(sent) ==
    \E k \in 1..(Len(sent) - 1) :
        sent[k].kind = sent[k + 1].kind /\ sent[k].kind \in {"message", "reasoning"}

HasRaw(text) == \E k \in DOMAIN text : text[k][2] = 0

\* Whatever part of a text was streamed before its item was done, the block holds
\* the text once, unless two items share it or raw reasoning precedes the summary
\* (applyCompletedText, applyCompletedThinking).
FinishedTextIsExact ==
    ~Shares(served \o <<current>>) =>
        \A b \in ToSet(content) :
            b.item # None /\ b.item.kind \in {"message", "reasoning"} /\ ~HasRaw(b.text) =>
                b.text = b.item.text

\* The items of a response that was not dropped are sent back exactly as the
\* provider finished them, each once and in order; only a text that was broken off
\* becomes an item without id.  Items that share a block are the exception.
ReplayIsFaithful ==
    \A m \in ToSet(messages) :
        m.role = "assistant" /\ ~IsDropped(m) /\ ~Shares(m.sent) => ToResponseItems(m) = m.sent

CallAt(k) == input[k].kind \in ToolKinds
OutputAt(k) == input[k].kind \in {"function", "custom"}
\* The output at j follows the call at k, and no other call of the id lies between.
Belongs(j, k) ==
    /\ k < j /\ input[j].call = input[k].call
    /\ \A l \in k + 1..j : ~(CallAt(l) /\ input[l].call = input[k].call)

\* In every request each tool call has exactly one output, of its kind, after it and
\* before the next user message, and no output is without its call, even when a call
\* takes the id of a call of an earlier response: interrupted calls get a synthetic
\* output (normalizeCodexContextMessages).
CallsAreAnsweredOnce ==
    /\ \A k \in DOMAIN input : CallAt(k) =>
        \E j \in k + 1..Len(input) :
            /\ input[j] = Output(OutputKindForToolName(input[k].kind), input[k].call)
            /\ \A l \in k + 1..j : input[l].kind # "user"
            /\ \A l \in DOMAIN input : (OutputAt(l) /\ Belongs(l, k)) <=> l = j
    /\ \A j \in DOMAIN input : OutputAt(j) => \E k \in 1..(j - 1) : CallAt(k) /\ Belongs(j, k)

\* The input of a request begins with the input of the request before: nothing that
\* was sent is changed, dropped or reordered later.
InputOnlyGrows == [][IsPrefix(input, input')]_vars

\* The calls among the items that no output could be matched with.
IllFormedCall(sent, k) ==
    \/ sent[k].kind \in {"misnamed", "nameless"}
    \/ (sent[k].kind \in ToolKinds /\ sent[k].call = 0)
    \/ sent[k].kind \in ToolKinds /\ \E j \in 1..(k - 1) :
            sent[j].kind \in ToolKinds /\ sent[j].call = sent[k].call

\* Requests are refused exactly when one response that was kept holds a call without
\* id or name, of the wrong kind, or with the id of another of its calls.  Results, calls
\* that were never answered, responses that failed and ids that come back in another
\* response do not stop a conversation (failNormalization).
OnlyIllFormedCallsBlock ==
    FailsNormalization(messages) <=>
        \E m \in ToSet(messages) :
            m.role = "assistant" /\ \E k \in DOMAIN m.sent : IllFormedCall(m.sent, k)

\* What Pi is shown of a response is exact: the state is typed, the block events
\* are bracketed, and the finished text is the provider's.
StreamIsExact == TypeOK /\ EventsAreBracketed /\ FinishedTextIsExact

\* Calls and answers match: every call in the input has exactly one answer of
\* its kind, and a history is refused only for a call the provider formed badly.
CallsAreMatched == CallsAreAnsweredOnce /\ OnlyIllFormedCallsBlock
=============================================================================
