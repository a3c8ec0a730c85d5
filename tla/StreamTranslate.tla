-------------------------- MODULE StreamTranslate --------------------------
(***************************************************************************)
(* The translation of a streamed answer.  A decoder (an outbound adapter's *)
(* TransformStreamEvent) turns each event of the provider into internal    *)
(* events; an encoder (an inbound adapter's TransformStreamEvents) turns   *)
(* those into the events of the client's protocol.  Both keep state from   *)
(* event to event.  Four decoders and three encoders meet in every pair    *)
(* (decodeOutboundStreamEvents and encodeInboundStreamEvents, relay), the  *)
(* same-format pairs included: a compressed request or an exact replay     *)
(* takes the translated path too (relay_http.go forwardViaHTTP).           *)
(*                                                                         *)
(* What the provider may send is external: one grammar per provider, the   *)
(* order its streaming API documents.  The client is external as well: it  *)
(* reads the wire with the rules of its own protocol and notes in "ok" the *)
(* first event that breaks them.                                           *)
(*                                                                         *)
(* A text, a thought or a tool's arguments is one piece, <<what, tool>>;   *)
(* its characters, the IDs and the numbers in a usage are left out.        *)
(***************************************************************************)
EXTENDS Integers, Sequences, FiniteSets, SequencesExt

CONSTANTS StUpstreams,  \* the providers' protocols of a run
          StClients,    \* the clients' protocols of a run
          StEvents,     \* bound: provider events of one stream, by their pieces
          StTools       \* bound: tool calls of one stream

ASSUME StreamAssumption ==
    /\ StUpstreams \subseteq {"anthropic", "responses", "gemini", "chat"}
    /\ StClients \subseteq {"messages", "responses", "chat"}
    /\ StEvents \in Nat /\ StTools \in Nat

VARIABLES stUp,      \* the protocol the provider speaks
          stClient,  \* the protocol the client speaks
          stWire,    \* the provider's event the relay has yet to take
          stSource,  \* where the provider is in its grammar
          stDecoder, \* the outbound adapter's fields
          stEncoder, \* the inbound adapter's fields
          stView,    \* what the client has made of the wire so far
          stSent     \* the pieces of the last provider event

streamVars == <<stUp, stClient, stWire, stSource, stDecoder, stEncoder, stView, stSent>>

-----------------------------------------------------------------------------
\* Internal events (model.StreamEvent): the kind, the tool call's index and
\* why the answer stopped.

Event(kind) == [kind |-> kind, tool |-> 0, why |-> "none"]
ToolEvent(kind, n) == [kind |-> kind, tool |-> n, why |-> "none"]
StopEvent(why) == [kind |-> "stop", tool |-> 0, why |-> why]
If(condition, events) == IF condition THEN events ELSE <<>>

\* Wire events of the Messages and Responses protocols: a position (the
\* content block or the output item) and the piece the event is about.
NoPiece == <<"none", 0>>
Wire(type, at, piece) == [type |-> type, at |-> at, piece |-> piece]

-----------------------------------------------------------------------------
\* DECODERS.  Each takes the adapter's fields and one provider event, and
\* gives the fields after it and the internal events it stands for.

DecoderInit == [tool |-> -1, usage |-> FALSE]

\* MessageOutbound.TransformStreamEvent (Anthropic).
DecodeAnthropic(d, e) ==
    CASE e.type = "message_start" ->
           [fields |-> [d EXCEPT !.usage = @ \/ e.usage],
            events |-> <<Event("start")>> \o If(e.usage, <<Event("usage")>>)]
      [] e.type = "block_start" /\ e.block = "call" ->
           [fields |-> [d EXCEPT !.tool = @ + 1],
            events |-> <<ToolEvent("toolstart", d.tool + 1)>>]
      [] e.type = "block_start" /\ e.block = "redacted" ->
           [fields |-> d, events |-> <<Event("redacted"), Event("blockstop")>>]
      [] e.type = "block_start" /\ e.block \notin {"call", "redacted"} ->
           [fields |-> d, events |-> <<Event("blockstart")>>]
      [] e.type = "delta" /\ e.block = "args" ->
           [fields |-> d,
            events |-> If(d.tool >= 0, <<ToolEvent("toolargs", d.tool)>>)]
      [] e.type = "delta" /\ e.block # "args" ->
           [fields |-> d, events |-> <<Event(e.block)>>]
      [] e.type = "message_delta" ->
           [fields |-> [d EXCEPT !.usage = @ \/ e.usage],
            events |-> If(e.usage, <<Event("usage")>>) \o <<StopEvent("stop")>>]
      [] e.type = "message_stop" ->
           [fields |-> d, events |-> If(d.usage, <<Event("usage")>>)]
      [] e.type \in {"block_stop", "error", "done"} ->
           [fields |-> d,
            events |-> <<Event(IF e.type = "block_stop" THEN "blockstop" ELSE e.type)>>]
      [] OTHER -> [fields |-> d, events |-> <<>>]

\* ResponseOutbound.TransformStreamEvent (OpenAI Responses).  A delta of
\* arguments carries them in Delta only ("tooldelta"): the ToolCall beside it
\* has none.  An incomplete response has no usage event.
DecodeResponses(d, e) ==
    [fields |-> d,
     events |->
       CASE e.type = "created" -> <<Event("start")>>
         [] e.type = "delta" /\ e.block = "args" ->
              <<ToolEvent("toolstart", e.tool), ToolEvent("tooldelta", e.tool)>>
         [] e.type = "delta" /\ e.block # "args" -> <<Event(e.block)>>
         [] e.type = "item_added" ->
              If(e.block = "call", <<ToolEvent("toolstart", e.tool)>>)
         [] e.type = "completed" ->
              <<StopEvent("stop")>> \o If(e.usage, <<Event("usage")>>)
         [] e.type = "incomplete" -> <<StopEvent("length")>>
         [] e.type = "failed" -> <<Event("error"), StopEvent("stop")>>
         [] e.type = "done" -> <<Event("done")>>
         [] OTHER -> <<>>]

\* Faulty variant: only texts and thoughts keep their signature.
DecodePartUnsigned(acc, part) ==
    LET n == acc.tool
    IN IF part.what = "call"
       THEN [tool |-> n + 1,
             events |-> acc.events \o
                <<ToolEvent("toolstart", n), ToolEvent("toolargs", n), ToolEvent("toolstop", n)>>]
       ELSE [acc EXCEPT !.events = @ \o <<Event(part.what)>>
                                   \o If(part.signed, <<Event("signature")>>)]

\* MessagesOutbound.TransformStreamEvent (Gemini): a chunk is a sequence of
\* parts, possibly the finish and the usage.  A blocked prompt has no candidate:
\* its message_start and message_stop are appended after the usage.
DecodePart(acc, part) ==
    LET signature == If(part.signed, <<Event("signature")>>)
        n == acc.tool
    IN IF part.what = "call"
       THEN [tool |-> n + 1,
             events |-> acc.events \o signature \o
                <<ToolEvent("toolstart", n), ToolEvent("toolargs", n), ToolEvent("toolstop", n)>>]
       ELSE [acc EXCEPT !.events = @ \o <<Event(part.what)>> \o signature]

DecodeGemini(d, e) ==
    LET parts == FoldLeft(DecodePart, [tool |-> d.tool + 1, events |-> <<>>], e.parts)
    IN [fields |-> [d EXCEPT !.tool = parts.tool - 1],
        events |-> If(e.parts # <<>>, <<Event("start")>>) \o parts.events
                   \o If(e.finish, <<StopEvent("stop")>>)
                   \o If(e.usage, <<Event("usage")>>)
                   \o If(e.blocked, <<Event("start"), StopEvent("safety")>>)]

\* ChatOutbound.TransformStreamEvent: StreamEventsFromInternalResponse of the
\* chunk.  A tool call without arguments is a ToolCallDelta both encoders take
\* as they take a ToolCallStart.
DecodeChat(d, e) ==
    [fields |-> d,
     events |-> If(e.role, <<Event("start")>>)
                \o If(e.what \in {"text", "refusal", "thinking", "signature", "done"}, <<Event(e.what)>>)
                \o If(e.what \in {"toolstart", "toolargs"}, <<ToolEvent(e.what, e.tool)>>)
                \o If(e.finish, <<StopEvent("stop")>>)
                \o If(e.usage, <<Event("usage")>>)]

Decode(e) ==
    CASE stUp = "anthropic" -> DecodeAnthropic(stDecoder, e)
      [] stUp = "responses" -> DecodeResponses(stDecoder, e)
      [] stUp = "gemini" -> DecodeGemini(stDecoder, e)
      [] stUp = "chat" -> DecodeChat(stDecoder, e)

-----------------------------------------------------------------------------
\* THE MESSAGES ENCODER (MessagesInbound.TransformStreamEvents).

MessagesInit ==
    [started |-> FALSE, index |-> 0, open |-> "none", tools |-> {},
     finished |-> FALSE, stopped |-> FALSE, out |-> <<>>]

Emit(m, w) == [m EXCEPT !.out = Append(@, w)]

EnsureStarted(m) ==
    IF m.started THEN m
    ELSE Emit([m EXCEPT !.started = TRUE], Wire("message_start", 0, NoPiece))

\* Faulty variant: the next block gets the same index.
CloseOpenBlockInPlace(m) ==
    IF m.open = "none" THEN m
    ELSE [Emit(m, Wire("block_stop", m.index, NoPiece)) EXCEPT !.open = "none"]

\* closeOpenBlock: the stop carries the block's index, which then moves on.
CloseOpenBlock(m) ==
    IF m.open = "none" THEN m
    ELSE [Emit(m, Wire("block_stop", m.index, NoPiece)) EXCEPT !.open = "none", !.index = @ + 1]

BlockStart(m, what, n) ==
    Emit([m EXCEPT !.open = what], Wire("block_start", m.index, <<what, n>>))
OpenBlock(m, what, n) == BlockStart(CloseOpenBlock(m), what, n)

\* startText, startThinking, startTool.
StartBlock(m, what) == IF m.open = what THEN m ELSE OpenBlock(m, what, 0)
StartTool(m, n) ==
    IF n \in m.tools /\ m.open = "call" THEN m
    ELSE [OpenBlock(m, "call", n) EXCEPT !.tools = @ \union {n}]

BlockDelta(m, piece) == Emit(m, Wire("block_delta", m.index, piece))

\* finalizeStreamMessage.
FinalizeMessage(m) ==
    Emit(Emit([m EXCEPT !.stopped = TRUE], Wire("message_delta", 0, NoPiece)),
         Wire("message_stop", 0, NoPiece))

EncodeMessages(m, e) ==
    CASE e.kind \in {"start", "blockstart", "refusal"} -> EnsureStarted(m)
      [] e.kind = "text" ->
           BlockDelta(StartBlock(EnsureStarted(m), "text"), <<"text", 0>>)
      [] e.kind \in {"thinking", "signature"} ->
           BlockDelta(StartBlock(EnsureStarted(m), "thinking"), <<e.kind, 0>>)
      [] e.kind = "redacted" ->
           \* opened and closed at once, outside the open-block flags
           CloseOpenBlock(OpenBlock(EnsureStarted(m), "redacted", 0))
      [] e.kind = "toolstart" -> StartTool(EnsureStarted(m), e.tool)
      [] e.kind \in {"toolargs", "tooldelta"} ->
           BlockDelta(StartTool(EnsureStarted(m), e.tool), <<"args", e.tool>>)
      [] e.kind \in {"toolstop", "blockstop"} -> CloseOpenBlock(m)
      [] e.kind = "stop" -> [CloseOpenBlock(EnsureStarted(m)) EXCEPT !.finished = TRUE]
      [] e.kind \in {"usage", "done"} ->
           IF m.finished /\ ~m.stopped THEN FinalizeMessage(m) ELSE m
      [] e.kind = "error" -> Emit([m EXCEPT !.stopped = TRUE], Wire("error", 0, NoPiece))

-----------------------------------------------------------------------------
\* THE RESPONSES ENCODER (ResponseInbound.processStreamEvents).  An item or a
\* part that is done carries its content: a sequence of <<what, deltas>>.

ResponsesInit ==
    [created |-> FALSE, message |-> FALSE, reasoning |-> FALSE, part |-> "none",
     finished |-> FALSE, completed |-> FALSE, why |-> "none",
     item |-> 0,        \* outputIndex
     content |-> 0,     \* contentIndex
     order |-> <<>>,    \* messageContentOrder
     text |-> 0, refusal |-> 0, thinking |-> 0,  \* the accumulated contents
     signatures |-> 0,
     calls |-> <<>>,    \* by tool call index, from 0: its item, its arguments, is it open
     echo |-> <<>>,     \* completedOutputItems
     out |-> <<>>]

Item(type, at, sub, piece, content) ==
    [type |-> type, at |-> at, sub |-> sub, piece |-> piece, content |-> content]

Accumulated(r, what) == IF what = "text" THEN r.text ELSE r.refusal

\* closeCurrentContentPart: the accumulated text is not reset.
CloseContentPart(r) ==
    IF r.part = "none" THEN r
    ELSE Emit([r EXCEPT !.part = "none", !.content = @ + 1],
              Item("part_done", r.item, r.content, <<r.part, 0>>,
                   <<<<r.part, Accumulated(r, r.part)>>>>))

\* An item is done: emitted, and kept for the terminal event.
ItemDone(r, at, sub, piece, content) ==
    [Emit(r, Item("item_done", at, sub, piece, content)) EXCEPT !.echo = Append(@, at)]

MessageContent(r) ==
    [i \in DOMAIN r.order |-> <<r.order[i], Accumulated(r, r.order[i])>>]

MessageDone(r) ==
    [ItemDone(r, r.item, 0, <<"message", 0>>, MessageContent(r)) EXCEPT
       !.item = @ + 1, !.content = 0, !.text = 0, !.refusal = 0, !.order = <<>>]

CloseMessageItem(r) ==
    IF r.message THEN MessageDone(CloseContentPart([r EXCEPT !.message = FALSE])) ELSE r

CloseReasoningItem(r) ==
    IF ~r.reasoning THEN r
    ELSE [ItemDone(r, r.item, r.signatures, <<"reasoning", 0>>, <<<<"thinking", r.thinking>>>>)
            EXCEPT !.reasoning = FALSE, !.item = @ + 1, !.thinking = 0, !.signatures = 0]

CloseCall(r, i) ==
    IF ~r.calls[i].open THEN r
    ELSE [ItemDone(r, r.calls[i].at, 0, <<"call", i - 1>>, <<<<"args", r.calls[i].args>>>>)
            EXCEPT !.calls[i].open = FALSE]

\* closeCurrentOutputItem: the message, the reasoning, then every open call.
\* Go's map order does not matter: at most one call is open.
CloseOutputItem(r) ==
    FoldLeft(CloseCall, CloseReasoningItem(CloseMessageItem(r)), [i \in DOMAIN r.calls |-> i])

\* An item is added at the output index.
ItemAdded(r, what) == Emit(r, Item("item_added", r.item, 0, what, <<>>))

OpenReasoning(r) == ItemAdded([r EXCEPT !.reasoning = TRUE], <<"reasoning", 0>>)
EnsureReasoning(r) == IF r.reasoning THEN r ELSE OpenReasoning(CloseOutputItem(r))

\* handleTextContent and handleRefusalContent: the reasoning and a part of the
\* other kind are closed, the message and the part opened when they are not.
CloseOtherPart(r, what) == IF r.part = what THEN r ELSE CloseContentPart(r)

OpenMessage(r) ==
    IF r.message THEN r ELSE ItemAdded([r EXCEPT !.message = TRUE], <<"message", 0>>)

OpenPart(r, what) ==
    IF r.part = what THEN r
    ELSE Emit([r EXCEPT !.part = what, !.order = Append(@, what)],
              Item("part_added", r.item, r.content, <<what, 0>>, <<>>))

ContentDelta(r, what) ==
    Emit(IF what = "text" THEN [r EXCEPT !.text = @ + 1] ELSE [r EXCEPT !.refusal = @ + 1],
         Item("delta", r.item, r.content, <<what, 0>>, <<>>))

HandleContent(r, what) ==
    ContentDelta(OpenPart(OpenMessage(CloseOtherPart(CloseReasoningItem(r), what)), what), what)

\* handleReasoningContent.
HandleReasoning(r) ==
    Emit([r EXCEPT !.thinking = @ + 1], Item("delta", r.item, 0, <<"thinking", 0>>, <<>>))

\* handleToolCalls.  A call not seen before closes what is open and takes the
\* next output index.  The arguments are those of the ToolCall.
OpenCall(r, n) ==
    [ItemAdded(r, <<"call", n>>) EXCEPT
       !.calls = Append(@, [at |-> r.item, args |-> 0, open |-> TRUE]), !.item = @ + 1]

StartCall(r, n) ==
    IF n < Len(r.calls) THEN r ELSE OpenCall(CloseOutputItem(CloseContentPart(r)), n)

CallDelta(r, n) ==
    Emit([r EXCEPT !.calls[n + 1].args = @ + 1],
         Item("delta", r.calls[n + 1].at, 0, <<"args", n>>, <<>>))

HandleToolCall(r, n) == StartCall(CloseReasoningItem(CloseMessageItem(r)), n)

\* The terminal event's name (responsesTerminalEvent).
TerminalEvent(why) ==
    CASE why = "length" -> "response.incomplete"
      [] why = "safety" -> "response.failed"
      [] OTHER -> "response.completed"

EncodeResponses(r, e) ==
    CASE e.kind = "start" ->
           IF r.created THEN r
           ELSE Emit([r EXCEPT !.created = TRUE], Item("created", 0, 0, NoPiece, <<>>))
      [] e.kind \in {"text", "refusal"} -> HandleContent(r, e.kind)
      [] e.kind = "thinking" ->
           HandleReasoning(EnsureReasoning(r))
      [] e.kind = "signature" ->
           \* appended first: a reasoning item still open takes it with it
           EnsureReasoning([r EXCEPT !.signatures = @ + 1])
      [] e.kind = "redacted" -> EnsureReasoning(r)
      [] e.kind \in {"toolstart", "tooldelta"} -> HandleToolCall(r, e.tool)
      [] e.kind = "toolargs" -> CallDelta(HandleToolCall(r, e.tool), e.tool)
      [] e.kind = "stop" ->
           IF r.finished THEN r
           ELSE CloseOutputItem(CloseContentPart([r EXCEPT !.finished = TRUE, !.why = e.why]))
      [] e.kind = "usage" ->
           IF ~r.finished \/ r.completed THEN r
           ELSE Emit([r EXCEPT !.completed = TRUE],
                     Item("terminal", 0, 0, <<TerminalEvent(r.why), 0>>, r.echo))
      [] e.kind = "error" ->
           Emit([r EXCEPT !.completed = TRUE], Item("error", 0, 0, NoPiece, <<>>))
      [] OTHER -> r   \* blockstart, blockstop, toolstop, done

-----------------------------------------------------------------------------
\* THE CHAT ENCODER (ChatInbound.TransformStreamEvents over
\* InternalResponseFromStreamEvents): the events of one provider event become
\* one chunk, whose text, refusal and thinking are those of its last delta.
\* The choice's index is left out.

ChatInit == [out |-> <<>>]

Chunk == [start |-> FALSE, thinking |-> 0, text |-> 0, refusal |-> 0,
          calls |-> <<>>, finish |-> FALSE, usage |-> FALSE, error |-> FALSE,
          done |-> FALSE, empty |-> TRUE]

ChunkWith(c, e) ==
    LET f == [c EXCEPT !.empty = FALSE]
    IN CASE e.kind = "start" -> [f EXCEPT !.start = TRUE]
         [] e.kind = "thinking" -> [f EXCEPT !.thinking = 1]
         [] e.kind = "text" -> [f EXCEPT !.text = 1]
         [] e.kind = "refusal" -> [f EXCEPT !.refusal = 1]
         [] e.kind = "toolstart" -> [f EXCEPT !.calls = Append(@, <<"call", e.tool>>)]
         [] e.kind \in {"toolargs", "tooldelta"} ->
              [f EXCEPT !.calls = Append(@, <<"args", e.tool>>)]
         [] e.kind = "stop" -> [f EXCEPT !.finish = TRUE]
         [] e.kind = "usage" -> [f EXCEPT !.usage = TRUE]
         [] e.kind = "error" -> [f EXCEPT !.error = TRUE]
         [] OTHER -> f

EncodeChat(events) ==
    IF \E i \in DOMAIN events : events[i].kind = "done" THEN <<[Chunk EXCEPT !.done = TRUE]>>
    ELSE LET c == FoldLeft(ChunkWith, Chunk, events)
         IN IF c.empty THEN <<>> ELSE <<c>>

-----------------------------------------------------------------------------
\* THE CLIENTS (external).  A view: the phase of the stream, the blocks or
\* items seen, the pieces got with the last event and whether the protocol was
\* kept.

ViewInit ==
    [phase |-> "new", next |-> 0, open |-> NoPiece, items |-> <<>>,
     done |-> <<>>, signatures |-> 0, late |-> FALSE, got |-> <<>>, ok |-> TRUE]

Got(v, piece) == [v EXCEPT !.got = Append(@, piece)]
Must(v, condition) == [v EXCEPT !.ok = @ /\ condition]

\* Messages: the blocks are opened and closed one after the other, with
\* growing indexes; a delta belongs to the open block and fits its type.
Fits(block, piece) ==
    \/ piece[1] = block[1]
    \/ piece[1] = "signature" /\ block[1] = "thinking"
    \/ piece[1] = "args" /\ block = <<"call", piece[2]>>

ReadMessages(v, w) ==
    IF v.phase = "failed" THEN Must(v, w.type # "message_stop")
    ELSE
    CASE w.type = "message_start" ->
           [Must(v, v.phase = "new") EXCEPT !.phase = "open"]
      [] w.type = "block_start" ->
           [Must(v, v.phase = "open" /\ v.open = NoPiece /\ w.at = v.next) EXCEPT
              !.open = w.piece,
              !.got = @ \o If(w.piece[1] \in {"call", "redacted"}, <<w.piece>>)]
      [] w.type = "block_delta" ->
           Got(Must(v, v.phase = "open" /\ w.at = v.next /\ Fits(v.open, w.piece)), w.piece)
      [] w.type = "block_stop" ->
           [Must(v, v.open # NoPiece /\ w.at = v.next) EXCEPT !.open = NoPiece, !.next = @ + 1]
      [] w.type = "message_delta" ->
           [Must(v, v.phase = "open" /\ v.open = NoPiece) EXCEPT !.phase = "stopping"]
      [] w.type = "message_stop" ->
           [Must(v, v.phase = "stopping") EXCEPT !.phase = "ended"]
      [] w.type = "error" -> [Must(v, v.phase # "ended") EXCEPT !.phase = "failed"]

\* Responses: every item is added at the next output index, gets its deltas
\* and is done once; a message's parts follow each other; what is said done is
\* what the deltas gave, and the terminal event repeats every item done.  A
\* delta of arguments after its call is done is noted, not refused.
ViewItem(w) == [what |-> w.piece, open |-> TRUE, part |-> "none", parts |-> <<>>]

InItem(v, w) == w.at + 1 \in DOMAIN v.items /\ v.items[w.at + 1].open

GrowLast(parts) == [parts EXCEPT ![Len(parts)] = <<@[1], @[2] + 1>>]

ReadDelta(v, w) ==
    LET i == w.at + 1
        known == i \in DOMAIN v.items
        this == v.items[i]
        fits == CASE w.piece[1] = "args" -> known /\ this.what = <<"call", w.piece[2]>>
                  [] w.piece[1] = "thinking" -> InItem(v, w) /\ this.what[1] = "reasoning"
                  [] OTHER -> InItem(v, w) /\ this.part = w.piece[1]
                              /\ w.sub = Len(this.parts) - 1
        grown == IF w.piece[1] \in {"text", "refusal"} THEN GrowLast(this.parts)
                 ELSE IF this.parts = <<>> THEN <<<<w.piece[1], 1>>>> ELSE GrowLast(this.parts)
    IN IF ~(v.phase = "open" /\ fits) THEN Must(v, FALSE)
       ELSE [Got(v, w.piece) EXCEPT !.items[i].parts = grown, !.late = @ \/ ~this.open]

\* A message with two parts of a kind repeats in each the text of both.
Distinct(parts) == \A i, j \in DOMAIN parts : i # j => parts[i][1] # parts[j][1]

Same(parts, content, what) ==
    \/ ~Distinct(parts)
    \/ parts = content
    \/ parts = <<>> /\ what # "message" /\ content[1][2] = 0

ReadResponses(v, w) ==
    LET i == w.at + 1
    IN IF v.phase = "failed" THEN Must(v, w.type # "terminal")
       ELSE
       CASE w.type = "created" -> [Must(v, v.phase = "new") EXCEPT !.phase = "open"]
       [] w.type = "item_added" ->
            [Must(v, v.phase = "open" /\ i = Len(v.items) + 1) EXCEPT
               !.items = Append(@, ViewItem(w)),
               !.got = @ \o If(w.piece[1] = "call", <<w.piece>>)]
       [] w.type = "part_added" ->
            IF ~InItem(v, w) THEN Must(v, FALSE)
            ELSE [Must(v, v.items[i].part = "none" /\ w.sub = Len(v.items[i].parts))
                    EXCEPT !.items[i].part = w.piece[1],
                           !.items[i].parts = Append(@, <<w.piece[1], 0>>)]
       [] w.type = "delta" -> ReadDelta(v, w)
       [] w.type = "part_done" ->
            IF ~InItem(v, w) THEN Must(v, FALSE)
            ELSE [Must(v, /\ v.items[i].part = w.piece[1]
                          /\ w.sub = Len(v.items[i].parts) - 1
                          /\ Distinct(v.items[i].parts) => w.content[1] = Last(v.items[i].parts))
                    EXCEPT !.items[i].part = "none"]
       [] w.type = "item_done" ->
            IF ~InItem(v, w) THEN Must(v, FALSE)
            ELSE [Must(v, /\ v.items[i].part = "none" /\ v.items[i].what = w.piece
                          /\ Same(v.items[i].parts, w.content, w.piece[1]))
                    EXCEPT !.items[i].open = FALSE, !.done = Append(@, w.at),
                           !.signatures = @ + w.sub]
       [] w.type = "terminal" ->
            [Must(v, /\ v.phase = "open" /\ w.content = v.done
                     /\ \A j \in DOMAIN v.items : ~v.items[j].open)
               EXCEPT !.phase = "ended"]
       [] w.type = "error" -> [Must(v, v.phase # "ended") EXCEPT !.phase = "failed"]

\* Chat: one finish, nothing of the answer after it.  A call is new when its
\* index is.
ReadCall(v, piece) ==
    IF piece[1] = "args" THEN Got(v, piece)
    ELSE IF piece[2] < v.next THEN v
    ELSE [Got(v, piece) EXCEPT !.next = @ + 1]

ReadChat(v, c) ==
    IF c.done THEN [v EXCEPT !.phase = "ended"]
    ELSE LET texts == If(c.thinking > 0, <<<<"thinking", 0>>>>)
                      \o If(c.text > 0, <<<<"text", 0>>>>)
                      \o If(c.refusal > 0, <<<<"refusal", 0>>>>)
             read == FoldLeft(ReadCall, [v EXCEPT !.got = @ \o texts], c.calls)
         IN [Must(read, read.got # v.got \/ c.finish => v.phase \in {"new", "open"})
               EXCEPT !.phase = IF c.error THEN "failed"
                                ELSE IF c.finish THEN "finished" ELSE IF @ = "new" THEN "open" ELSE @]

-----------------------------------------------------------------------------
\* THE RELAY (transformStreamData): one provider event, decoded, encoded and
\* read by the client.

\* An event counts for the pieces it carries, and at least for one.
Size(pieces) == IF pieces = <<>> THEN 1 ELSE Len(pieces)

Signed(n, piece) == IF piece[1] = "signature" THEN n + 1 ELSE n

\* The provider's next event, when the last one has been taken.
Send(e, source, pieces) ==
    /\ stWire = <<>>
    /\ stSource.events + Size(pieces) <= StEvents
    /\ stWire' = <<e>>
    /\ stSource' = [source EXCEPT
          !.events = @ + Size(pieces),
          !.signatures = FoldLeft(Signed, @, pieces),
          !.last = IF pieces = <<>> THEN @ ELSE Last(pieces)]
    /\ stSent' = pieces
    /\ UNCHANGED <<stUp, stClient, stDecoder, stEncoder, stView>>

\* transformStreamData: the event is decoded, encoded, and read by the client.
Deliver(fields, encoded, view) ==
    /\ stWire' = <<>>
    /\ stDecoder' = fields
    /\ stEncoder' = [encoded EXCEPT !.out = <<>>]
    /\ stView' = view
    /\ UNCHANGED <<stUp, stClient, stSource, stSent>>

View == [stView EXCEPT !.got = <<>>]

StToMessages ==
    /\ stClient = "messages" /\ stWire # <<>>
    /\ LET decoded == Decode(stWire[1])
           encoded == FoldLeft(EncodeMessages, stEncoder, decoded.events)
       IN Deliver(decoded.fields, encoded, FoldLeft(ReadMessages, View, encoded.out))

StToResponses ==
    /\ stClient = "responses" /\ stWire # <<>>
    /\ LET decoded == Decode(stWire[1])
           encoded == FoldLeft(EncodeResponses, stEncoder, decoded.events)
       IN Deliver(decoded.fields, encoded, FoldLeft(ReadResponses, View, encoded.out))

StToChat ==
    /\ stClient = "chat" /\ stWire # <<>>
    /\ LET decoded == Decode(stWire[1])
           chunks == EncodeChat(decoded.events)
       IN Deliver(decoded.fields, stEncoder, FoldLeft(ReadChat, View, chunks))

-----------------------------------------------------------------------------
\* THE PROVIDERS (external).  A source: its phase, the block or item open, its
\* calls so far, whether a usage came with or after the finish, and what the
\* properties have to know of the stream.

SourceInit ==
    [phase |-> "new", open |-> "none", calls |-> 0, events |-> 0, usage |-> FALSE,
     last |-> NoPiece, signatures |-> 0,
     cut |-> FALSE,        \* ended with response.incomplete
     blocked |-> FALSE,    \* Gemini refused the prompt
     bare |-> FALSE,       \* the first Gemini candidate finished without content
     interleaved |-> FALSE,\* arguments of a call resumed after something else
     doubled |-> FALSE]    \* two texts in one Gemini chunk

AnthropicDelta(block) == IF block = "thinking" THEN {"thinking", "signature"}
                         ELSE IF block = "call" THEN {"args"} ELSE {block}

StAnthropic ==
    /\ stUp = "anthropic"
    /\ LET s == stSource
           tool == <<"args", s.calls - 1>>
       IN \/ /\ s.phase = "new"
             /\ \E usage \in BOOLEAN :
                  Send([type |-> "message_start", usage |-> usage],
                        [s EXCEPT !.phase = "body", !.usage = usage], <<>>)
          \/ /\ s.phase = "body" /\ s.open = "none"
             /\ \E block \in {"text", "thinking", "redacted"} :
                  Send([type |-> "block_start", block |-> block],
                        [s EXCEPT !.open = block],
                        If(block = "redacted", <<<<"redacted", 0>>>>))
          \/ /\ s.phase = "body" /\ s.open = "none" /\ s.calls < StTools
             /\ Send([type |-> "block_start", block |-> "call"],
                      [s EXCEPT !.open = "call", !.calls = @ + 1], <<<<"call", s.calls>>>>)
          \/ /\ s.phase = "body" /\ s.open \in {"text", "thinking", "call"}
             /\ \E what \in AnthropicDelta(s.open) :
                  Send([type |-> "delta", block |-> what], s,
                        <<IF what = "args" THEN tool ELSE <<what, 0>>>>)
          \/ /\ s.phase = "body" /\ s.open # "none"
             /\ Send([type |-> "block_stop"], [s EXCEPT !.open = "none"], <<>>)
          \/ /\ s.phase = "body" /\ s.open = "none"
             /\ \E usage \in BOOLEAN :
                  Send([type |-> "message_delta", usage |-> usage],
                        [s EXCEPT !.phase = "finished", !.usage = @ \/ usage], <<>>)
          \/ /\ s.phase = "finished"
             /\ Send([type |-> "message_stop"], [s EXCEPT !.phase = "ended"], <<>>)
          \/ /\ s.phase \in {"new", "body"}
             /\ Send([type |-> "error"], [s EXCEPT !.phase = "failed"], <<>>)

ResponsesDelta(item) ==
    CASE item = "message" -> {"text", "refusal"}
      [] item = "reasoning" -> {"thinking"}
      [] item = "call" -> {"args"}

StResponses ==
    /\ stUp = "responses"
    /\ LET s == stSource
           tool == s.calls - 1
       IN \/ /\ s.phase = "new"
             /\ Send([type |-> "created"], [s EXCEPT !.phase = "body"], <<>>)
          \/ /\ s.phase = "body" /\ s.open = "none"
             /\ \E item \in {"message", "reasoning"} :
                  Send([type |-> "item_added", block |-> item], [s EXCEPT !.open = item], <<>>)
          \/ /\ s.phase = "body" /\ s.open = "none" /\ s.calls < StTools
             /\ Send([type |-> "item_added", block |-> "call", tool |-> s.calls],
                      [s EXCEPT !.open = "call", !.calls = @ + 1], <<<<"call", s.calls>>>>)
          \/ /\ s.phase = "body" /\ s.open # "none"
             /\ \E what \in ResponsesDelta(s.open) :
                  Send([type |-> "delta", block |-> what, tool |-> tool], s,
                        <<IF what = "args" THEN <<what, tool>> ELSE <<what, 0>>>>)
          \/ /\ s.phase = "body" /\ s.open # "none"
             /\ Send([type |-> "item_done"], [s EXCEPT !.open = "none"], <<>>)
          \/ /\ s.phase = "body" /\ s.open = "none"
             /\ \E usage \in BOOLEAN :
                  Send([type |-> "completed", usage |-> usage],
                        [s EXCEPT !.phase = "ended", !.usage = usage], <<>>)
          \/ /\ s.phase = "body" /\ s.open = "none"
             /\ Send([type |-> "incomplete"],
                      [s EXCEPT !.phase = "ended", !.usage = TRUE, !.cut = TRUE], <<>>)
          \/ /\ s.phase \in {"new", "body"}
             /\ Send([type |-> "failed"], [s EXCEPT !.phase = "failed"], <<>>)

GeminiParts == [what : {"text", "thinking", "call"}, signed : BOOLEAN]

PieceOf(acc, p) ==
    LET signature == If(p.signed, <<<<"signature", 0>>>>)
    IN IF p.what = "call"
       THEN [calls |-> acc.calls + 1,
             pieces |-> acc.pieces \o signature
                        \o <<<<"call", acc.calls>>, <<"args", acc.calls>>>>]
       ELSE [acc EXCEPT !.pieces = @ \o <<<<p.what, 0>>>> \o signature]

Doubled(parts) ==
    Len(parts) = 2 /\ parts[1].what = parts[2].what /\ parts[1].what # "call"

StGemini ==
    /\ stUp = "gemini"
    /\ LET s == stSource
       IN \/ /\ s.phase \in {"new", "body"}
             /\ \E parts \in SeqOf(GeminiParts, 2), finish, usage \in BOOLEAN :
                  LET sent == FoldLeft(PieceOf, [calls |-> s.calls, pieces |-> <<>>], parts)
                  IN /\ parts # <<>> \/ finish
                     /\ sent.calls <= StTools
                     /\ Send([parts |-> parts, finish |-> finish, usage |-> usage,
                               blocked |-> FALSE],
                              [s EXCEPT !.phase = IF ~finish THEN "body"
                                                  ELSE IF usage THEN "ended" ELSE "finished",
                                        !.calls = sent.calls,
                                        !.usage = finish /\ usage,
                                        !.bare = s.phase = "new" /\ parts = <<>>,
                                        !.doubled = @ \/ Doubled(parts)],
                              sent.pieces)
          \/ /\ s.phase = "finished"
             /\ Send([parts |-> <<>>, finish |-> FALSE, usage |-> TRUE, blocked |-> FALSE],
                      [s EXCEPT !.phase = "ended", !.usage = TRUE], <<>>)
          \/ /\ s.phase = "new"
             /\ Send([parts |-> <<>>, finish |-> FALSE, usage |-> TRUE, blocked |-> TRUE],
                      [s EXCEPT !.phase = "ended", !.usage = TRUE, !.blocked = TRUE], <<>>)

ChatChunk(what, tool) ==
    [role |-> FALSE, what |-> what, tool |-> tool, finish |-> FALSE, usage |-> FALSE]

StChat ==
    /\ stUp = "chat"
    /\ LET s == stSource
           C(what, tool) == ChatChunk(what, tool)
       IN \/ /\ s.phase = "new"
             /\ \E what \in {"none", "text"} :
                  Send([C(what, 0) EXCEPT !.role = TRUE], [s EXCEPT !.phase = "body"],
                        If(what = "text", <<<<"text", 0>>>>))
          \/ /\ s.phase = "body"
             /\ \E what \in {"text", "refusal", "thinking", "signature"} :
                  Send(C(what, 0), s, <<<<what, 0>>>>)
          \/ /\ s.phase = "body" /\ s.calls < StTools
             /\ Send(C("toolstart", s.calls), [s EXCEPT !.calls = @ + 1],
                      <<<<"call", s.calls>>>>)
          \/ /\ s.phase = "body"
             /\ \E n \in 0 .. s.calls - 1 :
                  Send(C("toolargs", n),
                        [s EXCEPT !.interleaved = @ \/ s.last \notin {<<"call", n>>, <<"args", n>>}],
                        <<<<"args", n>>>>)
          \/ /\ s.phase = "body"
             /\ \E usage \in BOOLEAN :
                  Send([C("none", 0) EXCEPT !.finish = TRUE, !.usage = usage],
                        [s EXCEPT !.phase = IF usage THEN "ended" ELSE "finished",
                                  !.usage = usage], <<>>)
          \/ /\ s.phase = "finished"
             /\ Send([C("none", 0) EXCEPT !.usage = TRUE],
                      [s EXCEPT !.phase = "ended", !.usage = TRUE], <<>>)

\* [DONE], which a provider of any protocol but Gemini may send last.
StDone ==
    /\ stUp # "gemini"
    /\ stSource.phase \in {"finished", "ended"}
    /\ stUp = "chat" \/ stSource.phase = "ended"
    /\ Send([type |-> "done", what |-> "done", role |-> FALSE, finish |-> FALSE, usage |-> FALSE],
             [stSource EXCEPT !.phase = "done"], <<>>)

StreamInit ==
    /\ stUp \in StUpstreams /\ stClient \in StClients
    /\ stWire = <<>>
    /\ stSource = SourceInit
    /\ stDecoder = DecoderInit
    /\ stEncoder = CASE stClient = "messages" -> MessagesInit
                     [] stClient = "responses" -> ResponsesInit
                     [] stClient = "chat" -> ChatInit
    /\ stView = ViewInit
    /\ stSent = <<>>

StreamNext ==
    \/ StAnthropic \/ StResponses \/ StGemini \/ StChat \/ StDone
    \/ StToMessages \/ StToResponses \/ StToChat

StreamSpec == StreamInit /\ [][StreamNext]_streamVars

-----------------------------------------------------------------------------
\* Every stream a client gets keeps the rules of its protocol, with two
\* exceptions: MessagesInbound.startTool has no way back to the block of a call
\* resumed after something else (a Responses client then gets a delta after the
\* call was done), and a Gemini answer that finishes without any content gives
\* a Responses client a terminal event without response.created.
StreamWellFormed ==
    /\ \/ stView.ok
       \/ stClient = "messages" /\ stSource.interleaved
       \/ stClient = "responses" /\ stSource.bare
    /\ stView.late => stSource.interleaved

\* The kinds of pieces a client's protocol, as encoded here, has room for.  The
\* arguments a Responses provider streams do not reach a Responses client.
Deliverable ==
    CASE stClient = "messages" -> {"text", "thinking", "signature", "redacted", "call", "args"}
      [] stClient = "responses" /\ stUp = "responses" -> {"text", "refusal", "thinking", "call"}
      [] OTHER -> {"text", "refusal", "thinking", "call", "args"}

Pieces(pieces, kinds) ==
    FoldLeft(LAMBDA kept, p : IF p[1] \in kinds THEN Append(kept, p) ELSE kept, <<>>, pieces)

\* A chat chunk's fields have no order.
ChatFields == {{"text"}, {"refusal"}, {"thinking"}, {"call", "args"}}

StreamDelivered ==
    \/ stWire # <<>>
    \/ stView.phase = "failed"
    \/ (stClient = "messages" /\ stSource.interleaved)
    \/ (stClient = "chat" /\ stSource.doubled)
    \/ IF stClient # "chat" THEN stView.got = Pieces(stSent, Deliverable)
       ELSE \A kinds \in ChatFields : Pieces(stView.got, kinds) = Pieces(stSent, kinds)

\* A provider that finished and reported its usage has ended the client's
\* stream, with the signatures of every thought.
StreamConcluded ==
    (stWire = <<>> /\ stSource.phase \in {"ended", "done"} /\ stSource.usage /\ ~stSource.cut /\ ~stSource.blocked)
    => CASE stClient = "chat" -> stView.phase \in {"finished", "ended"}
         [] stClient = "messages" -> stView.phase = "ended"
         [] stClient = "responses" ->
              /\ stView.phase = "ended"
              /\ stView.signatures = stSource.signatures

\* The client has the provider's answer, whole, in order, and ended.
StreamFaithful == StreamDelivered /\ StreamConcluded
=============================================================================
