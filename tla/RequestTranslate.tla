-------------------------- MODULE RequestTranslate --------------------------
(***************************************************************************)
(* The translation of a request.  An inbound adapter's TransformRequest    *)
(* turns the client's conversation into internal messages, Validate fills  *)
(* in the tool call IDs the client left out, and each attempt converts a   *)
(* copy of those messages for the provider it goes to (newRelayAttempt,    *)
(* outbound adapters' TransformRequest).                                   *)
(*                                                                         *)
(* A conversation is a sequence of items: what was said, shown, thought,   *)
(* called and answered.  How a client writes its items in its protocol and *)
(* how a provider reads a request in its own are external; both are        *)
(* written down so that what the provider hears can be compared with what  *)
(* the client said.                                                        *)
(*                                                                         *)
(* The word of an item is its place in the conversation, a text is the     *)
(* sequence of the words in it, a call's ID is its item's place.  Images   *)
(* are data URLs; audio, files, documents and server tools are left out.   *)
(* So is the same-format path that sends the client's bytes on unread      *)
(* (forwardViaHTTPPassthrough).                                            *)
(***************************************************************************)
EXTENDS Integers, Sequences, FiniteSets, SequencesExt

CONSTANTS RtClients,    \* clients' protocols: "messages", "responses", "chat"
          RtProviders,  \* providers' protocols: "anthropic", "gemini", "responses", "chat"
          RtItems,      \* bound: items of one conversation
          MaxCacheBreakpoints  \* Anthropic's limit of cache_control marks, 4

ASSUME RequestTranslateAssumption ==
    /\ RtClients \subseteq {"messages", "responses", "chat"}
    /\ RtProviders \subseteq {"anthropic", "gemini", "responses", "chat"}
    /\ RtItems \in Nat
    /\ MaxCacheBreakpoints \in Nat

VARIABLES rtItems,    \* what the client's conversation consists of
          rtClient,   \* the protocol it was sent in, "none" before
          rtCached,   \* does the client mark all it can with cache_control?
          rtRequest,  \* internalRequest, the request all attempts share: its messages
                      \* and, from a Responses client, the items as they came
          rtSent      \* the last attempt: the provider's protocol and its request

rtVars == <<rtItems, rtClient, rtCached, rtRequest, rtSent>>

-----------------------------------------------------------------------------
\* ITEMS.  "many" is a result given as several blocks; "signed" is a thought
\* with Anthropic's (or OpenAI's) signature, or a call whose Gemini signature
\* the gateway remembers; "echoed" is a call whose Gemini signature the client
\* sends back in a thinking block; "noid" a call the client gives no ID.

ItemKinds == {"system", "developer", "user", "blank", "image",
          "says", "thinks", "redacted", "call", "result"}

Forms(kind) == CASE kind = "result" -> {"plain", "many"}
                 [] kind = "call" -> {"plain", "signed", "echoed", "noid"}
                 [] kind = "thinks" -> {"plain", "signed"}
                 [] OTHER -> {"plain"}

Side(kind) == CASE kind \in {"system", "developer"} -> "system"
                [] kind \in {"user", "blank", "image", "result"} -> "user"
                [] OTHER -> "assistant"

Only(items, kinds) == SelectSeq(items, LAMBDA x : x.kind \in kinds)
Each(op(_), s) == [i \in DOMAIN s |-> op(s[i])]
When(condition, s) == IF condition THEN s ELSE <<>>

\* Maximal stretches of one side.
Runs(items) ==
    FoldLeft(LAMBDA runs, x :
                 IF runs # <<>> /\ Side(Last(Last(runs)).kind) = Side(x.kind)
                 THEN Front(runs) \o <<Append(Last(runs), x)>>
                 ELSE Append(runs, <<x>>),
             <<>>, items)

\* The turns of the two who talk, and the instructions, which come first.
Turns(items) == Runs(SelectSeq(items, LAMBDA x : Side(x.kind) # "system"))

-----------------------------------------------------------------------------
\* INTERNAL MESSAGES (model.Message).  Texts are sequences of words; an absent
\* text is Nil.  Content is either `text` or `parts`.

Nil == <<-2>>
Space == <<0>>        \* Normalize's placeholder
Continued == <<-1>>   \* "(continued)"

Part(type, words, cache) == [type |-> type, words |-> words, cache |-> cache]

Message(role) ==
    [role |-> role, index |-> 0, text |-> Nil, parts |-> <<>>, calls |-> <<>>,
     callID |-> 0, cache |-> FALSE, blocks |-> <<>>, reasoning |-> Nil,
     signature |-> 0, redacted |-> <<>>]

TextMessage(role, words) == [Message(role) EXCEPT !.text = words]

\* A tool call: its ID, 0 when empty, and Gemini's signature of it.
Call(id, signature, cache) == [id |-> id, sig |-> signature, cache |-> cache]

\* A reasoning block: its kind, the adapter that made it, its words, its signature.
Block(kind, by, words, sig) == [kind |-> kind, by |-> by, words |-> words, sig |-> sig]

TextOf(x) == IF x.kind = "blank" THEN <<>> ELSE <<x.n>>
Signature(x) == IF x.form = "signed" THEN x.n ELSE 0

\* The parts of a turn, and the content they make: one text alone is a string.
ContentParts(items, cache) ==
    LET part(x) == Part(IF x.kind = "image" THEN "image" ELSE "text", TextOf(x), cache)
    IN Each(part, Only(items, {"user", "blank", "image", "says"}))

WithContent(m, parts) ==
    IF Len(parts) = 1 /\ parts[1].type = "text"
    THEN [m EXCEPT !.text = parts[1].words]
    ELSE [m EXCEPT !.parts = parts]

\* A result keeps the form it was given in.
Result(x) ==
    [Message("tool") EXCEPT
       !.callID = x.of,
       !.text = IF x.form = "many" THEN Nil ELSE <<x.n>>,
       !.parts = When(x.form = "many", <<Part("text", <<x.n>>, FALSE)>>)]

-----------------------------------------------------------------------------
\* THE MESSAGES CLIENT.  A turn is one message; its blocks are its items, and a
\* call of form "echoed" has Gemini's signature in a thinking block before it.

\* The messages of role "tool" its tool_result blocks become, ahead of it.
ToolResults(turn, index, cache) ==
    LET tool(x) == [Result(x) EXCEPT !.index = index, !.cache = cache]
    IN Each(tool, Only(turn, {"result"}))

\* Reasoning blocks and calls in the order of the blocks; a call takes the oldest
\* signature no call took yet, or the one the gateway remembers for its ID.
ReadBlock(m, x, cache) ==
    CASE x.kind = "thinks" ->
           [m EXCEPT !.blocks = Append(@, Block("thinking", "anthropic", <<x.n>>, Signature(x))),
                     !.reasoning = <<x.n>>,
                     !.signature = IF Signature(x) # 0 THEN Signature(x) ELSE @]
      [] x.kind = "redacted" ->
           [m EXCEPT !.redacted = Append(@, x.n),
                     !.blocks = Append(@, Block("redacted", "anthropic", <<x.n>>, 0))]
      [] x.kind = "call" /\ x.form = "echoed" ->
           [m EXCEPT !.blocks = Append(@, Block("signature", "gemini", <<>>, x.n)),
                     !.calls = Append(@, Call(x.n, x.n, cache))]
      [] x.kind = "call" /\ x.form # "echoed" ->
           [m EXCEPT !.calls = Append(@, Call(x.n, Signature(x), cache))]
      [] OTHER -> m

TransformMessage(turn, index, cache) ==
    LET parts == ContentParts(turn, cache)
        single == Len(parts) = 1 /\ parts[1].type = "text"
        base == [Message(Side(turn[1].kind)) EXCEPT
                   !.index = IF Only(turn, {"result"}) # <<>> THEN index ELSE 0,
                   !.cache = single /\ cache]
        message == FoldLeft(LAMBDA m, x : ReadBlock(m, x, cache),
                            WithContent(base, parts), turn)
        hasContent == parts # <<>> \/ message.blocks # <<>> \/ message.calls # <<>>
    IN ToolResults(turn, index, cache) \o When(hasContent, <<message>>)

MessagesInbound(items, cache) ==
    LET system(x) == [TextMessage("system", <<x.n>>) EXCEPT !.cache = cache]
        turns == Turns(items)
    IN Each(system, Only(items, {"system"}))
       \o FlattenSeq([i \in DOMAIN turns |-> TransformMessage(turns[i], i, cache)])

-----------------------------------------------------------------------------
\* THE RESPONSES CLIENT.  Every item of its own but the parts of one user
\* message; the system items are its instructions.

ConvertItem(x) ==
    CASE x.kind = "call" ->
           [Message("assistant") EXCEPT !.calls = <<Call(x.n, 0, FALSE)>>]
      [] x.kind = "result" ->
           [Message("tool") EXCEPT !.callID = x.of, !.text = <<x.n>>]
      [] x.kind = "thinks" ->
           [Message("assistant") EXCEPT !.reasoning = <<x.n>>, !.signature = Signature(x)]
      [] OTHER -> TextMessage(Side(x.kind), TextOf(x))

ConvertInput(turn) ==
    IF Side(turn[1].kind) = "assistant"
    THEN Each(ConvertItem, turn)
    ELSE LET parts == ContentParts(turn, FALSE)
         IN Each(ConvertItem, Only(turn, {"result"}))
            \o When(parts # <<>>, <<WithContent(Message("user"), parts)>>)

ResponsesInbound(items) ==
    LET word(x) == x.n
        instructions == Each(word, Only(items, {"system"}))
        developer(x) == TextMessage("developer", <<x.n>>)
        turns == Turns(items)
    IN When(instructions # <<>>, <<TextMessage("system", instructions)>>)
       \o Each(developer, Only(items, {"developer"}))
       \o FlattenSeq([i \in DOMAIN turns |-> ConvertInput(turns[i])])

-----------------------------------------------------------------------------
\* THE CHAT CLIENT.  Its messages are the internal ones (ChatInbound only
\* decodes them), so these are the messages it sends.

ChatTurn(turn) ==
    LET call(x) == Call(IF x.form = "noid" THEN 0 ELSE x.n, 0, FALSE)
        thoughts == Only(turn, {"thinks"})
        parts == ContentParts(turn, FALSE)
        said == [WithContent(Message(Side(turn[1].kind)), parts) EXCEPT
                   !.calls = Each(call, Only(turn, {"call"})),
                   !.reasoning = IF thoughts = <<>> THEN Nil ELSE <<Last(thoughts).n>>]
    IN Each(Result, Only(turn, {"result"}))
       \o When(parts # <<>> \/ said.calls # <<>> \/ thoughts # <<>>, <<said>>)

ChatInbound(items) ==
    LET instruct(x) == TextMessage(x.kind, <<x.n>>)
        turns == Turns(items)
    IN Each(instruct, Only(items, {"system", "developer"}))
       \o FlattenSeq([i \in DOMAIN turns |-> ChatTurn(turns[i])])

Inbound(client, items, cache) ==
    CASE client = "messages" -> MessagesInbound(items, cache)
      [] client = "responses" -> ResponsesInbound(items)
      [] client = "chat" -> ChatInbound(items)

-----------------------------------------------------------------------------
\* VALIDATE.  A call without an ID takes one of the IDs the results right after
\* its message carry, and failing that one made from its name and arguments;
\* all calls have the same here, so the IDs made are StableID, StableID + 1...

StableID == 1000
IDs(calls) == {calls[i].id : i \in DOMAIN calls} \ {0}

\* The tool messages that directly follow the m-th, and the IDs they carry.
FollowingResults(msgs, m) ==
    LET end == CHOOSE e \in m .. Len(msgs) :
                 /\ \A i \in (m + 1) .. e : msgs[i].role = "tool"
                 /\ e < Len(msgs) => msgs[e + 1].role # "tool"
        id(x) == x.callID
    IN SelectSeq(Each(id, SubSeq(msgs, m + 1, end)), LAMBDA n : n # 0)

\* One call of fillMissingToolCallIDsFromToolMessages' inner loop: s holds the
\* candidates left, the IDs used and the calls done.
TakeCandidate(s, call) ==
    LET free == SelectInSeq(s.left, LAMBDA n : n \notin s.used)
    IN IF call.id # 0 THEN [s EXCEPT !.calls = Append(@, call)]
       ELSE IF free = 0 THEN [s EXCEPT !.left = <<>>, !.calls = Append(@, call)]
       ELSE [left |-> SubSeq(s.left, free + 1, Len(s.left)),
             used |-> s.used \cup {s.left[free]},
             calls |-> Append(s.calls, [call EXCEPT !.id = s.left[free]])]

fillMissingToolCallIDsFromToolMessages(msgs) ==
    [m \in DOMAIN msgs |->
       IF msgs[m].role # "assistant" \/ msgs[m].calls = <<>> THEN msgs[m]
       ELSE [msgs[m] EXCEPT !.calls =
               FoldLeft(TakeCandidate,
                        [left |-> FollowingResults(msgs, m), used |-> IDs(@), calls |-> <<>>],
                        @).calls]]

UsedIDs(msgs) == UNION {IDs(msgs[m].calls) : m \in DOMAIN msgs}

\* One call of fillMissingToolCallIDs' loop.
MakeID(s, call) ==
    LET id == CHOOSE n \in StableID .. StableID + Cardinality(s.used) :
                n \notin s.used /\ \A k \in StableID .. n - 1 : k \in s.used
    IN IF call.id # 0 THEN [s EXCEPT !.calls = Append(@, call)]
       ELSE [used |-> s.used \cup {id}, calls |-> Append(s.calls, [call EXCEPT !.id = id])]

fillMissingToolCallIDs(msgs) ==
    FoldLeft(LAMBDA s, msg :
                 LET filled == FoldLeft(MakeID, [used |-> s.used, calls |-> <<>>], msg.calls)
                 IN [used |-> filled.used,
                     msgs |-> Append(s.msgs, [msg EXCEPT !.calls = filled.calls])],
             [used |-> UsedIDs(msgs), msgs |-> <<>>], msgs).msgs

Validate(msgs) == fillMissingToolCallIDs(fillMissingToolCallIDsFromToolMessages(msgs))

-----------------------------------------------------------------------------
\* NORMALIZE, first of all in every outbound adapter: empty text parts go, and
\* a message with nothing in it gets a space.

Empty(text) == text \in {Nil, <<>>}

HasAnyPayload(m) ==
    \/ ~Empty(m.text) \/ m.parts # <<>> \/ m.calls # <<>> \/ m.callID # 0
    \/ ~Empty(m.reasoning) \/ m.blocks # <<>> \/ m.redacted # <<>>

Normalize(m) ==
    LET trimmed == [m EXCEPT !.parts =
                      SelectSeq(@, LAMBDA p : p.type # "text" \/ p.words # <<>>)]
    IN IF HasAnyPayload(trimmed) THEN trimmed
       ELSE [trimmed EXCEPT !.text = Space, !.parts = <<>>]

-----------------------------------------------------------------------------
\* ENFORCE ALTERNATION (Anthropic and Gemini).  Results count as the user's.

EffectiveRole(role) == IF role = "tool" THEN "user" ELSE role

\* Faulty variant: texts are only joined at the end, behind every part.
MergedPartsUnflushed(group) ==
    LET texts == {i \in DOMAIN group : ~Empty(group[i].text)}
        words == FlattenSeq([i \in DOMAIN group |-> When(i \in texts, group[i].text)])
        parts == FlattenSeq([i \in DOMAIN group |-> When(i \notin texts, group[i].parts)])
    IN parts \o When(texts # {}, <<Part("text", words, FALSE)>>)

\* The parts of a run: neighbouring strings are joined, parts are kept.
MergedParts(group) ==
    LET textPart(words) == Part("text", words, FALSE)
        flush(s) == s.parts \o When(s.texts # <<>>, <<textPart(FlattenSeq(s.texts))>>)
        add(s, m) ==
          IF ~Empty(m.text) THEN [s EXCEPT !.texts = Append(@, m.text)]
          ELSE IF m.parts # <<>> THEN [parts |-> flush(s) \o m.parts, texts |-> <<>>]
          ELSE s
    IN flush(FoldLeft(add, [parts |-> <<>>, texts |-> <<>>], group))

mergeSameRole(group) ==
    LET roles == {group[i].role : i \in DOMAIN group}
        answered == SelectInSeq(group, LAMBDA m : m.callID # 0)
        calls(m) == m.calls
        blocks(m) == m.blocks
        parts == MergedParts(group)
        merged == [Message(IF "tool" \in roles THEN "tool" ELSE group[1].role) EXCEPT
                     !.calls = FlattenSeq(Each(calls, group)),
                     !.blocks = FlattenSeq(Each(blocks, group)),
                     !.callID = IF answered = 0 THEN 0 ELSE group[answered].callID]
    IN IF parts = <<>> THEN [merged EXCEPT !.text = Space] ELSE WithContent(merged, parts)

EnforceAlternation(msgs, provider) ==
    LET instructions == SelectSeq(msgs, LAMBDA m : m.role \in {"system", "developer"})
        talk == SelectSeq(msgs, LAMBDA m : m.role \notin {"system", "developer"})
        opened == When(provider = "anthropic" /\ talk # <<>> /\ talk[1].role = "assistant",
                     <<TextMessage("user", Continued)>>) \o talk
        groups == FoldLeft(LAMBDA gs, m :
                     IF gs # <<>> /\ EffectiveRole(Last(Last(gs)).role) = EffectiveRole(m.role)
                     THEN Front(gs) \o <<Append(Last(gs), m)>>
                     ELSE Append(gs, <<m>>),
                     <<>>, opened)
        one(g) == IF Len(g) = 1 THEN g[1] ELSE mergeSameRole(g)
    IN instructions \o Each(one, groups)

\* PatchAnthropicRequest: a call no result answers before the next assistant
\* message gets an empty one.
FixOrphanedToolCalls(msgs) ==
    LET answered(m) ==
          {msgs[i].callID : i \in {j \in (m + 1) .. Len(msgs) :
             /\ msgs[j].role = "tool"
             /\ \A k \in (m + 1) .. j : msgs[k].role # "assistant"}}
        empty(call) == [TextMessage("tool", <<>>) EXCEPT !.callID = call.id]
        patched(m) ==
          <<msgs[m]>> \o When(msgs[m].role = "assistant",
            Each(empty, SelectSeq(msgs[m].calls,
                                  LAMBDA c : c.id # 0 /\ c.id \notin answered(m))))
    IN FlattenSeq([m \in DOMAIN msgs |-> patched(m)])

-----------------------------------------------------------------------------
\* THE ANTHROPIC REQUEST.  A block of the wire: its type, its words, the ID of
\* the call it makes or answers, its signature, its cache_control.

WireBlock(type, words, id, sig, cache) ==
    [type |-> type, words |-> words, id |-> id, sig |-> sig, cache |-> cache]
TextBlock(words, cache) == WireBlock("text", words, 0, 0, cache)

\* Thinking and redacted blocks as they came; the flat fields when there are none
\* of Anthropic's.
emitThinkingBlocks(m) ==
    LET own == SelectSeq(m.blocks, LAMBDA b : b.by = "anthropic")
        emit(b) == WireBlock(b.kind, b.words, 0, b.sig, FALSE)
        hidden(n) == WireBlock("redacted", <<n>>, 0, 0, FALSE)
    IN IF own # <<>> THEN Each(emit, own)
       ELSE When(~Empty(m.reasoning),
               <<WireBlock("thinking", m.reasoning, 0, m.signature, FALSE)>>)
            \o Each(hidden, m.redacted)

hasThinkingContent(m) ==
    \/ ~Empty(m.reasoning)
    \/ \E i \in DOMAIN m.blocks : m.blocks[i].kind = "thinking"

ToolUses(calls) ==
    LET use(c) == WireBlock("call", <<>>, c.id, 0, c.cache) IN Each(use, calls)

PartBlocks(parts) ==
    LET block(p) == WireBlock(p.type, p.words, 0, 0, p.cache) IN Each(block, parts)

WithThinking(m) ==
    emitThinkingBlocks(m) \o When(~Empty(m.text), <<TextBlock(m.text, m.cache)>>)

\* convertMultiplePartContent: only thoughts with a signature go with several parts.
MultiplePartContent(m) ==
    SelectSeq(emitThinkingBlocks(m), LAMBDA b : b.type # "thinking" \/ b.sig # 0)
    \o PartBlocks(m.parts) \o ToolUses(m.calls)

buildMessageContent(m) ==
    IF m.text # Nil
    THEN IF m.cache \/ hasThinkingContent(m) THEN WithThinking(m)
         ELSE When(m.text # <<>>, <<TextBlock(m.text, FALSE)>>)
    ELSE IF m.parts # <<>> THEN MultiplePartContent(m)
    ELSE When(hasThinkingContent(m) \/ m.redacted # <<>> \/ m.blocks # <<>>, WithThinking(m))

convertToolResultBlock(m) ==
    LET words(p) == p.words
        texts == SelectSeq(m.parts, LAMBDA p : p.type = "text")
    IN WireBlock("result",
                 IF m.text # Nil THEN m.text ELSE FlattenSeq(Each(words, texts)),
                 m.callID, 0, m.cache)

convertAssistantWithToolCalls(m) ==
    emitThinkingBlocks(m)
    \o (IF ~Empty(m.text) THEN <<TextBlock(m.text, m.cache)>>
        ELSE PartBlocks(SelectSeq(m.parts, LAMBDA p : p.type = "text")))
    \o ToolUses(m.calls)

\* convertToolMessage: the results of one client message, and what else the user
\* said in it, are one message of the wire.
convertToolMessage(m, msgs) ==
    LET same(role) == SelectSeq(msgs, LAMBDA x : x.role = role /\ x.index = m.index)
        others == same("user")
    IN IF m.index = 0 THEN <<convertToolResultBlock(m)>>
       ELSE Each(convertToolResultBlock, same("tool"))
            \o (IF others = <<>> THEN <<>> ELSE buildMessageContent(others[1]))

\* The blocks of one message of the wire.
convertSingleMessage(m, msgs) ==
    CASE m.role = "tool" -> convertToolMessage(m, msgs)
      [] m.role = "user" -> buildMessageContent(m)
      [] m.role = "assistant" /\ m.calls # <<>> -> convertAssistantWithToolCalls(m)
      [] m.role = "assistant" -> buildMessageContent(m)
      [] OTHER -> <<>>

\* One message of convertMessages' loop: those of a client message that went with
\* its results are passed over, neighbours of one role become one.
AddConverted(s, m, msgs) ==
    LET role == EffectiveRole(m.role)
        blocks == convertSingleMessage(m, msgs)
        processed == IF m.role = "tool" /\ m.index # 0 THEN s.processed \cup {m.index}
                     ELSE s.processed
    IN IF m.index \in s.processed THEN s
       ELSE IF s.wire # <<>> /\ Last(s.wire).role = role
       THEN [processed |-> processed,
             wire |-> Front(s.wire)
                      \o <<[role |-> role, blocks |-> Last(s.wire).blocks \o blocks]>>]
       ELSE [processed |-> processed,
             wire |-> Append(s.wire, [role |-> role, blocks |-> blocks])]

convertMessages(msgs) ==
    FoldLeft(LAMBDA s, m : AddConverted(s, m, msgs),
             [processed |-> {}, wire |-> <<>>],
             SelectSeq(msgs, LAMBDA m : m.role \notin {"system", "developer"})).wire

convertSystemPrompt(msgs) ==
    LET prompt(m) == TextBlock(IF m.text = Nil THEN <<>> ELSE m.text, m.cache)
    IN Each(prompt, SelectSeq(msgs, LAMBDA m : m.role = "system"))

\* pruneCacheBreakpoints: the first MaxCacheBreakpoints marks stay, instructions
\* first.
PruneBlocks(s, blocks) ==
    FoldLeft(LAMBDA t, b :
               [kept |-> IF b.cache THEN t.kept + 1 ELSE t.kept,
                blocks |-> Append(t.blocks,
                             [b EXCEPT !.cache = @ /\ t.kept < MaxCacheBreakpoints])],
             [kept |-> s, blocks |-> <<>>], blocks)

pruneCacheBreakpoints(req) ==
    LET system == PruneBlocks(0, req.system)
        messages == FoldLeft(LAMBDA s, m :
                      LET pruned == PruneBlocks(s.kept, m.blocks)
                      IN [kept |-> pruned.kept,
                          wire |-> Append(s.wire, [m EXCEPT !.blocks = pruned.blocks])],
                      [kept |-> system.kept, wire |-> <<>>], req.messages)
    IN [system |-> system.blocks, messages |-> messages.wire]

convertToAnthropicRequest(msgs) ==
    pruneCacheBreakpoints([system |-> convertSystemPrompt(msgs),
                           messages |-> convertMessages(msgs)])

-----------------------------------------------------------------------------
\* THE GEMINI REQUEST.  Signatures without a call's ID or name go to the calls
\* that have none of their own, in order.

LooseSignatures(m) ==
    LET sig(b) == b.sig
    IN Each(sig, SelectSeq(m.blocks, LAMBDA b :
                    b.by = "gemini" /\ b.kind = "signature" /\ b.sig # 0))

\* One call of the loop over an assistant message's calls.
AddFunctionCall(s, call) ==
    LET fallback == call.sig = 0 /\ s.loose # <<>>
    IN [loose |-> IF fallback THEN Tail(s.loose) ELSE s.loose,
        parts |-> Append(s.parts,
                    WireBlock("call", <<>>, call.id,
                              IF fallback THEN Head(s.loose) ELSE call.sig, FALSE))]

\* A result's words are those of its string, whatever its parts.
GeminiContent(m) ==
    CASE m.role = "tool" ->
           <<WireBlock("result", IF m.text = Nil THEN <<>> ELSE m.text, m.callID, 0, FALSE)>>
      [] m.role = "user" ->
           When(m.text # Nil, <<TextBlock(m.text, FALSE)>>) \o PartBlocks(m.parts)
      [] m.role = "assistant" ->
           When(~Empty(m.text), <<TextBlock(m.text, FALSE)>>)
           \o FoldLeft(AddFunctionCall, [loose |-> LooseSignatures(m), parts |-> <<>>],
                       m.calls).parts

convertLLMToGeminiRequest(msgs) ==
    LET instructions == SelectSeq(msgs, LAMBDA m : m.role \in {"system", "developer"})
        instruction(m) == TextBlock(m.text, FALSE)
        content(m) == [role |-> EffectiveRole(m.role), blocks |-> GeminiContent(m)]
    IN [system |-> Each(instruction, SelectSeq(instructions, LAMBDA m : m.text # Nil)),
        messages |-> Each(content, SelectSeq(msgs, LAMBDA m :
                              m.role \notin {"system", "developer"}))]

-----------------------------------------------------------------------------
\* THE CHAT REQUEST is the messages themselves, without the helper fields.

ClearHelpFields(m) == [m EXCEPT !.signature = 0, !.redacted = <<>>, !.blocks = <<>>]

-----------------------------------------------------------------------------
\* THE RESPONSES REQUEST.  Items of the wire: messages, reasoning, calls, results.

AssistantItems(m) ==
    LET call(c) == WireBlock("call", <<>>, c.id, 0, FALSE)
        words(p) == p.words
        texts == Each(words, SelectSeq(m.parts, LAMBDA p : p.type = "text"))
    IN When(~Empty(m.reasoning),
          <<WireBlock("thinking", m.reasoning, 0, m.signature, FALSE)>>)
       \o Each(call, m.calls)
       \o When(m.text # Nil \/ texts # <<>>,
             <<WireBlock("says", IF m.text # Nil THEN m.text ELSE FlattenSeq(texts),
                         0, 0, FALSE)>>)

UserItems(m) ==
    LET shown(p) == WireBlock(IF p.type = "image" THEN "image" ELSE "user", p.words, 0, 0, FALSE)
    IN IF m.text # Nil THEN <<WireBlock("user", m.text, 0, 0, FALSE)>>
       ELSE Each(shown, m.parts)

ToolItem(m) == [convertToolResultBlock(m) EXCEPT !.cache = FALSE]

convertInputFromMessages(msgs) ==
    LET items(m) == CASE m.role = "user" -> UserItems(m)
                      [] m.role = "assistant" -> AssistantItems(m)
                      [] m.role = "tool" -> <<ToolItem(m)>>
                      [] OTHER -> <<>>
    IN FlattenSeq(Each(items, msgs))

convertInstructionsFromMessages(msgs) ==
    LET words(p) == p.words
        instruction(m) == (IF m.text # Nil THEN m.text ELSE <<>>)
                          \o FlattenSeq(Each(words, m.parts))
    IN FlattenSeq(Each(instruction, SelectSeq(msgs, LAMBDA m :
                           m.role \in {"system", "developer"})))

\* The items of a Responses client go as they came.
ConvertToResponsesRequest(request) ==
    [instructions |-> convertInstructionsFromMessages(request.messages),
     items |-> IF request.raw # <<>> THEN request.raw
               ELSE convertInputFromMessages(request.messages)]

-----------------------------------------------------------------------------
\* OUTBOUND: what TransformRequest makes of the messages in place, and what it
\* writes.

Prepared(provider, msgs) ==
    CASE provider = "anthropic" ->
           FixOrphanedToolCalls(EnforceAlternation(Each(Normalize, msgs), "anthropic"))
      [] provider = "gemini" -> EnforceAlternation(Each(Normalize, msgs), "gemini")
      [] provider = "chat" -> Each(Normalize, Each(ClearHelpFields, msgs))
      [] provider = "responses" -> Each(Normalize, msgs)

Written(provider, request) ==
    CASE provider = "anthropic" -> convertToAnthropicRequest(request.messages)
      [] provider = "gemini" -> convertLLMToGeminiRequest(request.messages)
      [] provider = "chat" -> request.messages
      [] provider = "responses" -> ConvertToResponsesRequest(request)

Converted(provider, request) ==
    [request EXCEPT !.messages = Prepared(provider, @)]

Outbound(provider, request) == Written(provider, Converted(provider, request))

-----------------------------------------------------------------------------
\* BEHAVIOUR.  The client's conversation grows, is sent, and attempts follow each
\* other, with any provider, until one ends the request.

NoRequest == [messages |-> <<>>, raw |-> <<>>]
NotSent == [to |-> "nobody", wire |-> <<>>]

RtInit ==
    /\ rtItems = <<>> /\ rtClient = "none" /\ rtCached = FALSE
    /\ rtRequest = NoRequest /\ rtSent = NotSent

Rank(kind) == CASE kind \in {"thinks", "redacted"} -> 1
                [] kind = "says" -> 2
                [] kind = "call" -> 3
                [] OTHER -> 0

\* The calls of the turn before that no result answers yet.
OpenCalls ==
    LET calls == IF rtItems # <<>> /\ Last(rtItems).kind \in {"call", "result"}
                 THEN LET turns == Turns(rtItems)
                          made == IF Last(rtItems).kind = "call" THEN Last(turns)
                                  ELSE turns[Len(turns) - 1]
                      IN Only(made, {"call"})
                 ELSE <<>>
        answered == {rtItems[i].of : i \in DOMAIN rtItems}
    IN SelectSeq(calls, LAMBDA x : x.n \notin answered)

\* May an item of the kind come next?  Results first in the user's turn, thoughts
\* first and calls last in the assistant's, and no turn of thoughts alone.
MayFollow(kind) ==
    LET last == IF rtItems = <<>> THEN "none" ELSE Last(rtItems).kind
    IN CASE kind = "system" -> last = "none"
         [] kind = "developer" -> last \in {"none", "system"}
         [] Side(kind) = "assistant" ->
              last = "none" \/ Side(last) # "assistant" \/ Rank(last) <= Rank(kind)
         [] OTHER -> last \notin {"thinks", "redacted"}

\* The client of the conversation adds an item.  A call left without an ID is
\* answered in turn: its client goes by position.
Says(kind, form) ==
    /\ rtClient = "none" /\ Len(rtItems) < RtItems /\ MayFollow(kind)
    /\ \E of \in IF kind = "result" THEN {OpenCalls[i].n : i \in DOMAIN OpenCalls} ELSE {0} :
         /\ kind = "result" /\ (\E i \in DOMAIN OpenCalls : OpenCalls[i].form = "noid")
            => of = OpenCalls[1].n
         /\ rtItems' = Append(rtItems, [n |-> Len(rtItems) + 1, kind |-> kind,
                                        form |-> form, of |-> of])
    /\ UNCHANGED <<rtClient, rtCached, rtRequest, rtSent>>

\* What a client's protocol has no way to say.
Expressible(client, x) ==
    CASE client = "messages" -> x.kind # "developer" /\ x.form # "noid"
      [] client = "responses" -> x.kind # "redacted" /\ x.form \in {"plain", "signed"}
                                 /\ (x.form = "signed" => x.kind = "thinks")
      [] client = "chat" -> x.kind # "redacted" /\ x.form \in {"plain", "noid", "many"}

\* The items of a Responses client's wire.
RawItems(items) ==
    LET raw(x) == CASE x.kind = "call" -> WireBlock("call", <<>>, x.n, 0, FALSE)
                    [] x.kind = "result" -> WireBlock("result", <<x.n>>, x.of, 0, FALSE)
                    [] x.kind = "thinks" -> WireBlock("thinking", <<x.n>>, 0, Signature(x), FALSE)
                    [] OTHER -> WireBlock(IF x.kind = "blank" THEN "user" ELSE x.kind,
                                          TextOf(x), 0, 0, FALSE)
    IN Each(raw, SelectSeq(items, LAMBDA x : Side(x.kind) # "system"))

\* The request arrives: TransformRequest, then Validate.
Parse(client, cached) ==
    /\ rtClient = "none"
    /\ rtItems # <<>> /\ Last(rtItems).kind \notin {"system", "developer", "thinks", "redacted"}
    /\ \A i \in DOMAIN rtItems : Expressible(client, rtItems[i])
    /\ cached => client = "messages"
    /\ rtClient' = client /\ rtCached' = cached
    /\ rtRequest' = [messages |-> Validate(Inbound(client, rtItems, cached)),
                     raw |-> When(client = "responses", RawItems(rtItems))]
    /\ UNCHANGED <<rtItems, rtSent>>

\* Faulty variant: the attempt converts the messages all attempts share.
SharedAfterInPlace(request, converted) == converted

\* What an attempt leaves of the request: newRelayAttempt gave it a deep copy.
SharedAfter(request, converted) == request

Attempt(provider) ==
    /\ rtClient # "none"
    /\ rtSent' = [to |-> provider, wire |-> Outbound(provider, rtRequest)]
    /\ rtRequest' = SharedAfter(rtRequest, Converted(provider, rtRequest))
    /\ UNCHANGED <<rtItems, rtClient, rtCached>>

RtNext ==
    \/ \E kind \in ItemKinds : \E form \in Forms(kind) : Says(kind, form)
    \/ \E client \in RtClients, cached \in BOOLEAN : Parse(client, cached)
    \/ \E provider \in RtProviders : Attempt(provider)

RtSpec == RtInit /\ [][RtNext]_rtVars

-----------------------------------------------------------------------------
\* WHAT IS HEARD.  The provider's own reading of a request, and what the client
\* meant it to hear, as sequences of <<what, word, call>>; thoughts aside.

Tokens(as, words, of) ==
    LET token(w) == <<as, w, of>> IN Each(token, SelectSeq(words, LAMBDA w : w > 0))

\* An ID the gateway made is any to the client.
CallToken(id) == <<"call", IF id > StableID THEN StableID ELSE id, 0>>

HeardBlock(role, b) ==
    CASE b.type = "text" -> Tokens(IF role = "assistant" THEN "says" ELSE role, b.words, 0)
      [] b.type = "call" -> <<CallToken(b.id)>>
      [] b.type \in {"thinking", "redacted"} -> <<>>
      [] OTHER -> Tokens(b.type, b.words, b.id)

HeardBlocks(role, blocks) == FlattenSeq([i \in DOMAIN blocks |-> HeardBlock(role, blocks[i])])

HeardChat(m) ==
    LET id(c) == CallToken(c.id)
        texts(as, of) == IF m.text # Nil THEN Tokens(as, m.text, of)
                         ELSE FlattenSeq([i \in DOMAIN m.parts |->
                                Tokens(IF m.parts[i].type = "image" THEN "image" ELSE as,
                                       m.parts[i].words, of)])
    IN CASE m.role \in {"system", "developer"} -> texts("system", 0)
         [] m.role = "tool" -> texts("result", m.callID)
         [] m.role = "user" -> texts("user", 0)
         [] OTHER -> texts("says", 0) \o Each(id, m.calls)

Heard(sent) ==
    CASE sent.to \in {"anthropic", "gemini"} ->
           HeardBlocks("system", sent.wire.system)
           \o FlattenSeq([i \in DOMAIN sent.wire.messages |->
                HeardBlocks(sent.wire.messages[i].role, sent.wire.messages[i].blocks)])
      [] sent.to = "chat" -> FlattenSeq(Each(HeardChat, sent.wire))
      [] sent.to = "responses" ->
           Tokens("system", sent.wire.instructions, 0) \o HeardBlocks("user", sent.wire.items)

\* A call without an ID is known by the one its result carries.
Said(x) ==
    LET known == x.form # "noid" \/ \E i \in DOMAIN rtItems : rtItems[i].of = x.n
    IN CASE x.kind = "call" -> <<CallToken(IF known THEN x.n ELSE StableID)>>
         [] x.kind \in {"thinks", "redacted"} -> <<>>
         [] OTHER -> Tokens(IF x.kind \in {"system", "developer"} THEN "system"
                            ELSE IF x.kind = "blank" THEN "user" ELSE x.kind,
                            TextOf(x), x.of)

\* A Responses provider is given a turn's calls before its texts.
Meant(to) ==
    LET turns == Turns(rtItems)
        order(turn) == IF to = "responses" /\ rtClient # "responses"
                       THEN SelectSeq(turn, LAMBDA x : x.kind # "says") \o Only(turn, {"says"})
                       ELSE turn
        said(items) == FlattenSeq(Each(Said, items))
    IN said(Only(rtItems, {"system", "developer"}))
       \o FlattenSeq([i \in DOMAIN turns |-> said(order(turns[i]))])

-----------------------------------------------------------------------------
\* PROPERTIES.

\* Known gaps: a user's turn that has a result and anything else (the results and
\* the rest are merged into one), the developer's instructions for Anthropic, and
\* for Gemini a result given as blocks and an assistant message of two texts.
Mixed(turn) == Len(turn) > 1 /\ Only(turn, {"result"}) # <<>>
Some(P(_)) == \E i \in DOMAIN Turns(rtItems) : P(Turns(rtItems)[i])
Has(P(_)) == \E i \in DOMAIN rtItems : P(rtItems[i])

Gap(to) ==
    \/ to \in {"anthropic", "gemini"} /\ Some(Mixed)
    \/ to = "anthropic" /\ Has(LAMBDA x : x.kind = "developer")
    \/ to = "gemini" /\ Has(LAMBDA x : x.form = "many")
    \/ to = "gemini" /\ rtClient # "responses"
       /\ Some(LAMBDA turn : Len(Only(turn, {"says"})) > 1)

\* Who said which words, whatever they were said as.
BySide(tokens) ==
    LET side(t) == <<IF t[1] \in {"says", "system"} THEN t[1] ELSE "user", t[2]>>
    IN Each(side, SelectSeq(tokens, LAMBDA t : t[1] # "call"))

\* Outside the known gaps every word, image, call and result of the conversation
\* reaches the provider, once, in order, as what it was, and a result under the ID
\* of the call it answers; merging two turns for Anthropic never loses, reorders or
\* changes the side of a text (the translation of both adapters, Validate and the
\* repairs between them).
RtHeard ==
    rtSent.to # "nobody" =>
        /\ ~Gap(rtSent.to) => Heard(rtSent) = Meant(rtSent.to)
        /\ rtSent.to = "anthropic"
           /\ ~Has(LAMBDA x : x.kind \in {"developer", "image"})
           => BySide(Heard(rtSent)) = BySide(Meant("anthropic"))

IDsOf(type, blocks) == {blocks[i].id : i \in {j \in DOMAIN blocks : blocks[j].type = type}}

Alternates(messages) ==
    \A i \in 1 .. Len(messages) - 1 : messages[i].role # messages[i + 1].role

AnthropicAccepts(req) ==
    LET messages == req.messages
        blocks == req.system \o FlattenSeq([i \in DOMAIN messages |-> messages[i].blocks])
        results(i) == IF i \in DOMAIN messages THEN IDsOf("result", messages[i].blocks) ELSE {}
    IN /\ messages # <<>> /\ messages[1].role = "user" /\ Alternates(messages)
       /\ \A i \in DOMAIN messages :
            /\ messages[i].blocks # <<>>
            /\ IDsOf("call", messages[i].blocks) \subseteq results(i + 1)
            /\ results(i) \subseteq IF i = 1 THEN {} ELSE IDsOf("call", messages[i - 1].blocks)
            /\ \A j \in DOMAIN messages[i].blocks, k \in DOMAIN messages[i].blocks :
                 messages[i].blocks[j].type = "result" /\ k < j
                 => messages[i].blocks[k].type = "result"
       /\ Cardinality({i \in DOMAIN blocks : blocks[i].cache}) <= MaxCacheBreakpoints

\* Roles alternate, no content is empty, a response is to a call made before.
GeminiAccepts(req) ==
    LET messages == req.messages
    IN /\ Alternates(messages)
       /\ \A i \in DOMAIN messages :
            /\ messages[i].blocks # <<>>
            /\ IDsOf("result", messages[i].blocks)
                 \subseteq UNION {IDsOf("call", messages[j].blocks) : j \in 1 .. i - 1}

\* A tool message follows, with only tool messages between, the one that calls it.
ChatAccepts(messages) ==
    \A i \in DOMAIN messages : messages[i].role = "tool" =>
        \E j \in 1 .. i - 1 :
            /\ messages[j].role = "assistant" /\ messages[i].callID \in IDs(messages[j].calls)
            /\ \A k \in (j + 1) .. i : messages[k].role = "tool"

ResponsesAccepts(req) ==
    \A i \in DOMAIN req.items : req.items[i].type = "result" =>
        req.items[i].id \in IDsOf("call", SubSeq(req.items, 1, i - 1))

\* Whatever the client's protocol and the state of its conversation - it opens with
\* the assistant, calls are left unanswered or have no IDs, everything is marked for
\* the cache - the request keeps the rules its provider rejects a request for
\* breaking.  Known gaps: Gemini's of RtHeard, and a Responses client's parallel
\* calls, which become one chat message each.
RtAccepted ==
    LET parallel == Some(LAMBDA turn : Len(Only(turn, {"call"})) > 1)
    IN CASE rtSent.to = "anthropic" -> AnthropicAccepts(rtSent.wire)
         [] rtSent.to = "gemini" -> Gap("gemini") \/ GeminiAccepts(rtSent.wire)
         [] rtSent.to = "chat" ->
              (rtClient = "responses" /\ parallel) \/ ChatAccepts(rtSent.wire)
         [] rtSent.to = "responses" -> ResponsesAccepts(rtSent.wire)
         [] OTHER -> TRUE

\* An attempt sends what it would send were it the first, whatever the attempts
\* before it converted the request to: every adapter rewrites the messages it is
\* given, and rewriting them twice moves results to other calls.
RtRetriesAgree ==
    rtSent.to # "nobody" =>
        rtSent.wire = Outbound(rtSent.to,
            [messages |-> Validate(Inbound(rtClient, rtItems, rtCached)),
             raw |-> When(rtClient = "responses", RawItems(rtItems))])

BlocksOf(req, type) ==
    SelectSeq(FlattenSeq([i \in DOMAIN req.messages |-> req.messages[i].blocks]),
              LAMBDA b : b.type = type)

\* A Messages client's thoughts and calls come back to the provider that signed
\* them with their own signatures: Anthropic gets every signed thought, in order,
\* Gemini the signature of every call the client or the gateway kept.  Known gap: a
\* call without one takes that of another of its turn the client echoed.
RtSignatures ==
    LET thought(x) == <<x.n, x.n>>
        shown(b) == <<b.words[1], b.sig>>
        borrows(id) == Some(LAMBDA turn : \E i, j \in DOMAIN turn :
                              turn[i].n = id /\ turn[j].form = "echoed")
    IN rtClient = "messages" =>
         CASE rtSent.to = "anthropic" ->
                Each(shown, SelectSeq(BlocksOf(rtSent.wire, "thinking"), LAMBDA b : b.sig # 0))
                  = Each(thought, SelectSeq(Only(rtItems, {"thinks"}),
                                            LAMBDA x : x.form = "signed"))
           [] rtSent.to = "gemini" ->
                LET calls == BlocksOf(rtSent.wire, "call")
                IN \A i \in DOMAIN calls :
                     IF rtItems[calls[i].id].form # "plain" THEN calls[i].sig = calls[i].id
                     ELSE calls[i].sig = 0 \/ borrows(calls[i].id)
           [] OTHER -> TRUE

\* What a provider is asked is what the client said, in a form it accepts, and every thought
\* and call comes back to its provider with its own signature (both adapters, the repairs
\* between).
RtFaithful == RtHeard /\ RtSignatures /\ RtAccepted

\* "Merging preserves all content parts - structured parts (image / audio / tool_use
\* / tool_result / thinking) are concatenated into MultipleContent" (EnforceAlternation,
\* alternation.go:107): each result reaches Anthropic as the result of its own call.
MergingKeepsResults ==
    rtSent.to = "anthropic" =>
        \A i \in DOMAIN rtItems : rtItems[i].kind = "result" =>
            \E k \in DOMAIN Heard(rtSent) :
                Heard(rtSent)[k] = <<"result", i, rtItems[i].of>>
=============================================================================
