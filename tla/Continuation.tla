--------------------------- MODULE Continuation ---------------------------
(* Conversations in the Responses protocol: a client's socket or its HTTP  *)
(* requests name the response they continue, and the gateway has upstreams *)
(* continue it natively or replays what it has recorded of it.             *)
(*   relay/ws_client.go        the rounds of a client's socket             *)
(*   relay/ws_session.go       the recorded state and its replay           *)
(*   relay/ws_state_store.go   the states kept per socket and model        *)
(*   relay/relay_handler_support.go   replay and recording over HTTP       *)
(*   relay/relay_http.go, relay_websocket.go, ws_passthrough.go   attempts *)
(*                                                                         *)
(* An item is what a client sent in one request, or what one response      *)
(* answered; a conversation is the sequence of its items.  Response IDs    *)
(* are numbered in the order they are first seen.  Which connection, key   *)
(* or sticky session an attempt prefers is left out: any channel may come. *)
EXTENDS Naturals, SequencesExt

CONSTANTS
  CtModels,      \* the models a client asks for
  CtChannels,    \* channels by how they speak: "off", "passthrough", "transform", "chat"
  CtVias,        \* how clients come: "ws", "http"
  CtRounds,      \* bound on requests
  CtTries,       \* bound on attempts in one run of a round
  CtForks        \* whether clients on a socket continue older responses than their last

ASSUME CtKinds == CtChannels \subseteq {"off", "passthrough", "transform", "chat"}
ASSUME CtBounds == CtRounds \in Nat /\ CtTries \in Nat /\ CtForks \in BOOLEAN

VARIABLES
  ctVia,      \* how the client comes, fixed at the start
  ctConv,     \* response ID |-> its model and the conversation up to it, as its client knows it
  ctKnown,    \* channel |-> the responses its upstream has given
  ctLocal,    \* the state the socket's loop holds
  ctStored,   \* model |-> the state stored for the socket
  ctHttp,     \* response ID |-> the state stored for HTTP
  ctRound,    \* the round under way
  ctCount,    \* requests so far
  ctPartial   \* history: responses whose record need not be whole

ctVars == <<ctVia, ctConv, ctKnown, ctLocal, ctStored, ctHttp, ctRound, ctCount, ctPartial>>

CtNone == [last |-> 0, model |-> "", window |-> <<>>, pending |-> FALSE]
CtIdle == [pc |-> "idle"]

Input(n) == <<"in", n>>
Output(id) == <<"out", id>>

(* ---- requests ---- *)

\* A request names the response it continues (0: none), and may carry tool outputs, which
\* without a name are meant for the calls of the socket's last response.
CtRequests ==
  [model : CtModels, prev : 0 .. Len(ctConv), tools : BOOLEAN, stream : BOOLEAN]

LatestOf(model) ==
  LET ids == {i \in DOMAIN ctConv : ctConv[i].model = model}
  IN IF ids = {} THEN 0 ELSE Max(ids)

\* What clients ask.  A socket's rounds are always streamed (ws_client.go forces it).
CtLegal(req) ==
  IF ctVia = "http" THEN req.tools => req.prev # 0
  ELSE /\ req.stream
       /\ req.prev # 0 => CtForks \/ LatestOf(req.model) \in {0, req.prev}
       /\ req.prev = 0 /\ req.tools =>
            ctLocal # CtNone /\ ctLocal.last = Len(ctConv) /\ ctLocal.model = req.model

Continues(req) == req.prev # 0 \/ req.tools

\* The response a request continues, and the conversation it means.
Continued(req) == IF req.prev # 0 THEN req.prev ELSE IF req.tools THEN Len(ctConv) ELSE 0
Meant(continued, n) ==
  (IF continued = 0 THEN <<>> ELSE ctConv[continued].items) \o <<Input(n)>>

(* ---- the recorded state ---- *)

\* resolveWSConversationState: the socket's own state of this model, else the stored one
\* where the request names a response.
Resolved(model, explicit) ==
  IF ctLocal # CtNone /\ ctLocal.model = model THEN ctLocal
  ELSE IF explicit THEN ctStored[model] ELSE CtNone

UseNative(state, prev) == prev # 0 /\ state.last # 0 /\ ~state.pending
CanReplay(state, prev) == state.window # <<>> /\ state.last # 0 /\ prev \in {0, state.last}
ReplayItems(state, n) == Append(state.window, Input(n))

\* ApplySuccessfulTurn: the window grows by the request and by what was answered, where
\* the exact output is at hand; an exact replay holds its window already.
Applied(state, model, base, id, raw, pending) ==
  [last |-> id, model |-> model, pending |-> pending,
   window |-> IF raw THEN Append(base, Output(id)) ELSE base]

(* ---- a round begins ---- *)

NewRound(req, state, exec, items) ==
  [pc |-> "run", req |-> req, n |-> ctCount + 1, continued |-> Continued(req),
   state |-> state, exec |-> exec, items |-> items, run |-> 1, tries |-> 0,
   written |-> FALSE, frames |-> <<>>]

\* processWSResponseCreate up to the first attempt.
WsReceive(req) ==
  LET found == Resolved(req.model, req.prev # 0)
      state == IF Continues(req) THEN found ELSE CtNone
      replay == state # CtNone /\ ~UseNative(state, req.prev) /\ CanReplay(state, req.prev)
  IN /\ ctVia = "ws"
     /\ ctStored' = IF Continues(req) THEN ctStored ELSE [ctStored EXCEPT ![req.model] = CtNone]
     /\ ctRound' = IF replay
                   THEN NewRound(req, state, "replay", ReplayItems(state, ctCount + 1))
                   ELSE NewRound(req, state, "native", <<Input(ctCount + 1)>>)
     /\ UNCHANGED ctLocal

\* prepareHTTPReplay: a continuation whose state is at hand is always replayed.
HttpReceive(req) ==
  LET state == IF req.prev = 0 THEN CtNone ELSE ctHttp[req.prev]
      found == state # CtNone /\ state.model = req.model
  IN /\ ctVia = "http"
     /\ ctRound' = IF found
                   THEN NewRound(req, state, "replay", ReplayItems(state, ctCount + 1))
                   ELSE NewRound(req, CtNone, "native", <<Input(ctCount + 1)>>)
     /\ UNCHANGED <<ctLocal, ctStored>>

Receive ==
  /\ ctRound = CtIdle /\ ctCount < CtRounds
  /\ \E req \in CtRequests : CtLegal(req) /\ (WsReceive(req) \/ HttpReceive(req))
  /\ ctCount' = ctCount + 1
  /\ UNCHANGED <<ctVia, ctConv, ctKnown, ctHttp, ctPartial>>

\* A socket's message that never becomes a round: one that does not parse keeps the
\* state; a warmup (generate: false) and a body the adapter refuses leave the resolved
\* one; a model not supported or without a channel, what the request leaves of it.
WsRefuse ==
  /\ ctRound = CtIdle /\ ctCount < CtRounds /\ ctVia = "ws"
  /\ \E req \in {q \in CtRequests : CtLegal(q)} :
       LET found == Resolved(req.model, req.prev # 0) IN
       \/ ctLocal' = found /\ UNCHANGED ctStored
       \/ /\ ctLocal' = IF Continues(req) THEN found ELSE CtNone
          /\ ctStored' = IF Continues(req) THEN ctStored
                         ELSE [ctStored EXCEPT ![req.model] = CtNone]
  /\ ctCount' = ctCount + 1
  /\ UNCHANGED <<ctVia, ctConv, ctKnown, ctHttp, ctRound, ctPartial>>

(* ---- attempts ---- *)

\* requiresUpstreamWSContinuation: what the upstream must know is not in the request.
Required == ctRound.exec = "native" /\ Continues(ctRound.req)

\* forward: how an attempt on a channel goes out.  A socket's request goes over the
\* upstream's websocket where the channel has it (and over HTTP where that cannot be had
\* and need not be), an exact replay over HTTP; a continuation that came over HTTP goes
\* over a websocket unless a protocol policy planned it.
Transports(channel) ==
  IF ctVia = "ws" /\ channel \in {"passthrough", "transform"} /\ ctRound.exec = "native"
  THEN {channel} \cup (IF Required THEN {} ELSE {"http"})
  ELSE IF ctVia = "http" /\ channel # "chat" /\ Required THEN {"transform", "http"}
  ELSE {"http"}

\* Whether the upstream can make sense of the request: it has given the response that is
\* named; and it has the calls of tool outputs.  An upstream of another protocol is never
\* shown the name.
Understood(channel) ==
  ctRound.exec = "replay" \/ channel = "chat"
    \/ (ctRound.req.prev = 0 /\ ~ctRound.req.tools) \/ ctRound.req.prev \in ctKnown[channel]

Frame(what, by) == [what |-> what, by |-> by]

\* Payload that reaches the client.  The passthrough writes to the socket past the
\* round's writer (writeWSPassthroughDownstream), whose flag therefore stays unset.
Paid(what, by) ==
  [ctRound EXCEPT !.frames = Append(@, Frame(what, by)), !.tries = @ + 1,
                  !.written = @ \/ by # "passthrough"]

CtAttempt(channel, transport) ==
  /\ ctRound.pc = "run" /\ ctRound.tries < CtTries
  /\ channel \in CtChannels /\ transport \in Transports(channel)

\* The exact output is at hand where the passthrough saw it, or where an unstreamed answer
\* of this protocol was read; StreamAggregator.Response drops it from the chunks of a stream.
ExactOutput(channel, transport) ==
  transport = "passthrough"
    \/ (transport = "http" /\ channel # "chat" /\ ~ctRound.req.stream)

WsRecord(id, raw) ==
  LET s == Applied(ctRound.state, ctRound.req.model,
                   Append(ctRound.state.window, Input(ctRound.n)), id, raw,
                   ctRound.run = 2 /\ ctRound.req.tools)
  IN /\ ctLocal' = s /\ ctStored' = [ctStored EXCEPT ![ctRound.req.model] = s]
     /\ UNCHANGED ctHttp

\* Faulty variant: an exact replay is recorded like any request, over the window it holds.
HttpRecordTwice(id, raw) ==
  /\ ctHttp' = [ctHttp EXCEPT ![id] = Applied(ctRound.state, ctRound.req.model,
                                              ctRound.state.window \o ctRound.items, id, raw, FALSE)]
  /\ UNCHANGED <<ctLocal, ctStored>>

\* saveHTTPReplayState: over the request that was sent.
HttpRecord(id, raw) ==
  /\ ctHttp' = [ctHttp EXCEPT ![id] =
                   Applied(ctRound.state, ctRound.req.model, ctRound.items, id, raw, FALSE)]
  /\ UNCHANGED <<ctLocal, ctStored>>

\* The record of a response need not be whole: its output was not at hand, it continues a
\* response whose record was not at hand, or whose own need not be whole.
NeedNotBeWhole(raw) ==
  \/ ~raw
  \/ /\ ctRound.continued # 0
     /\ ctRound.state.last # ctRound.continued \/ ctRound.continued \in ctPartial

Answer(channel, transport) ==
  LET id == Len(ctConv) + 1
      raw == ExactOutput(channel, transport)
  IN /\ CtAttempt(channel, transport) /\ Understood(channel)
     /\ ctConv' = Append(ctConv, [model |-> ctRound.req.model,
                                  items |-> Append(Meant(ctRound.continued, ctRound.n), Output(id))])
     /\ ctKnown' = [ctKnown EXCEPT ![channel] = @ \cup {id}]
     /\ IF ctVia = "ws" THEN WsRecord(id, raw) ELSE HttpRecord(id, raw)
     /\ ctPartial' = IF NeedNotBeWhole(raw) THEN ctPartial \cup {id} ELSE ctPartial
     /\ ctRound' = [Paid("full", transport) EXCEPT !.pc = "ended"]
     /\ UNCHANGED <<ctVia, ctCount>>

\* An attempt fails before anything was written, retryably.  The passthrough forwards what
\* its upstream says, errors too, and a continuation whose websocket breaks is to restart.
FailNext(channel, transport) ==
  /\ CtAttempt(channel, transport) /\ ~(Required /\ transport = "passthrough")
  /\ ctRound' = [ctRound EXCEPT !.tries = @ + 1]
  /\ UNCHANGED <<ctVia, ctConv, ctKnown, ctLocal, ctStored, ctHttp, ctCount, ctPartial>>

\* An attempt fails after payload was written, or in a way that ends the round: what was
\* written stays, no error frame is added to it (finalizeWSRelay), the socket keeps the
\* resolved state.
FailCommitted(channel, transport) ==
  /\ CtAttempt(channel, transport)
  /\ ctRound' = [Paid("part", transport) EXCEPT !.pc = "ended"]
  /\ ctLocal' = IF ctVia = "ws" THEN ctRound.state ELSE ctLocal
  /\ UNCHANGED <<ctVia, ctConv, ctKnown, ctStored, ctHttp, ctCount, ctPartial>>

\* The upstream may ask for a restart: it cannot make sense of the request, it misses the
\* calls of tool outputs in a replay, or the websocket a continuation depends on cannot
\* be had or breaks, before or after payload.
MayRefuse(channel, transport) ==
  \/ ~Understood(channel)
  \/ Required /\ transport # "http"
  \/ ctRound.exec = "replay" /\ ctRound.req.tools
       /\ Output(ctRound.continued) \notin Range(ctRound.items)

\* Faulty variant: whatever was written.
AutoRestartAlways(state, req, round) ==
  /\ ctVia = "ws" /\ round.run = 1
  /\ state # CtNone /\ Continues(req) /\ CanReplay(state, req.prev)

\* A socket's round is run once more as a replay of the recorded state, unless something
\* was written through the round's writer.
AutoRestart(state, req, round) ==
  /\ ctVia = "ws" /\ round.run = 1 /\ ~round.written
  /\ state # CtNone /\ Continues(req) /\ CanReplay(state, req.prev)

Restart(channel, transport, paid) ==
  LET failed == IF paid THEN Paid("part", transport) ELSE ctRound
      error == [failed EXCEPT !.frames = Append(@, Frame("error", "gateway")), !.pc = "ended"]
  IN /\ CtAttempt(channel, transport) /\ MayRefuse(channel, transport)
     /\ paid => transport # "http"
     /\ IF AutoRestart(ctRound.state, ctRound.req, failed)
        THEN /\ ctRound' = [failed EXCEPT !.run = 2, !.tries = 0, !.exec = "replay",
                                          !.items = ReplayItems(ctRound.state, ctRound.n)]
             /\ UNCHANGED <<ctLocal, ctStored>>
        ELSE /\ ctRound' = error
             /\ IF ctVia = "ws"
                THEN /\ ctLocal' = CtNone
                     /\ ctStored' = [ctStored EXCEPT ![ctRound.req.model] = CtNone]
                ELSE UNCHANGED <<ctLocal, ctStored>>
     /\ UNCHANGED <<ctVia, ctConv, ctKnown, ctHttp, ctCount, ctPartial>>

\* No candidate is left, the replay's budget of time is spent or a failure is final: an
\* error frame; the client cancels or an administrator interrupts: none.
GiveUp(frames) ==
  /\ ctRound.pc = "run"
  /\ ctRound' = [ctRound EXCEPT !.pc = "ended", !.frames = @ \o frames]
  /\ ctLocal' = IF ctVia = "ws" THEN ctRound.state ELSE ctLocal
  /\ UNCHANGED <<ctVia, ctConv, ctKnown, ctStored, ctHttp, ctCount, ctPartial>>

Exhaust == GiveUp(<<Frame("error", "gateway")>>)
CtCancel == GiveUp(<<>>)

(* ---- between rounds ---- *)

CtEnd ==
  /\ ctRound.pc = "ended" /\ ctRound' = CtIdle
  /\ UNCHANGED <<ctVia, ctConv, ctKnown, ctLocal, ctStored, ctHttp, ctCount, ctPartial>>

\* The client opens another socket (its states have the socket's own key), or the process
\* was restarted; the upstreams keep their responses.
Reconnect ==
  /\ ctRound = CtIdle /\ ctCount < CtRounds
  /\ ctLocal' = CtNone /\ ctStored' = [m \in CtModels |-> CtNone]
  /\ ctHttp' \in {ctHttp, [id \in 1 .. CtRounds |-> CtNone]}
  /\ UNCHANGED <<ctVia, ctConv, ctKnown, ctRound, ctCount, ctPartial>>

\* A stored state expires.
Expire ==
  /\ ctRound = CtIdle /\ ctCount < CtRounds
  /\ \/ \E m \in CtModels : ctStored' = [ctStored EXCEPT ![m] = CtNone] /\ UNCHANGED ctHttp
     \/ \E id \in 1 .. CtRounds : ctHttp' = [ctHttp EXCEPT ![id] = CtNone] /\ UNCHANGED ctStored
  /\ UNCHANGED <<ctVia, ctConv, ctKnown, ctLocal, ctRound, ctCount, ctPartial>>

(* ---- the specification ---- *)

CtInit ==
  /\ ctVia \in CtVias
  /\ ctConv = <<>> /\ ctKnown = [c \in CtChannels |-> {}]
  /\ ctLocal = CtNone /\ ctStored = [m \in CtModels |-> CtNone]
  /\ ctHttp = [id \in 1 .. CtRounds |-> CtNone]
  /\ ctRound = CtIdle /\ ctCount = 0 /\ ctPartial = {}

CtNext ==
  \/ Receive \/ WsRefuse \/ Exhaust \/ CtCancel \/ CtEnd \/ Reconnect \/ Expire
  \/ \E channel \in CtChannels, transport \in {"passthrough", "transform", "http"} :
       \/ Answer(channel, transport) \/ FailNext(channel, transport)
       \/ FailCommitted(channel, transport)
       \/ \E paid \in BOOLEAN : Restart(channel, transport, paid)

CtSpec == CtInit /\ [][CtNext]_ctVars

(* ---- properties ---- *)

CtItem == {"in", "out"} \X Nat
CtState == [last : 0 .. CtRounds, model : CtModels \cup {""}, window : Seq(CtItem), pending : BOOLEAN]
CtRequest == [model : CtModels, prev : 0 .. CtRounds, tools : BOOLEAN, stream : BOOLEAN]
CtResponse == [model : CtModels, items : Seq(CtItem)]
CtFrame ==
  [what : {"part", "full", "error"}, by : {"passthrough", "transform", "http", "gateway"}]
CtRunning ==
  [pc : {"run", "ended"}, req : CtRequest, n : 1 .. CtRounds, continued : 0 .. CtRounds,
   state : CtState, exec : {"native", "replay"}, items : Seq(CtItem), run : {1, 2},
   tries : 0 .. CtTries, written : BOOLEAN, frames : Seq(CtFrame)]

CtTypeOK ==
  /\ ctVia \in CtVias /\ ctLocal \in CtState /\ ctStored \in [CtModels -> CtState]
  /\ ctHttp \in [1 .. CtRounds -> CtState] /\ ctRound \in {CtIdle} \cup CtRunning
  /\ ctConv \in Seq(CtResponse)
  /\ Len(ctConv) <= ctCount /\ ctCount \in 0 .. CtRounds
  /\ ctKnown \in [CtChannels -> SUBSET DOMAIN ctConv] /\ ctPartial \subseteq DOMAIN ctConv

\* The items are some of the conversation's, in its order and none twice.
TakenFrom(items, conv) ==
  /\ \A i \in DOMAIN items : \E j \in DOMAIN conv : items[i] = conv[j]
  /\ \A i, k \in DOMAIN items : \A j, l \in DOMAIN conv :
       i < k /\ items[i] = conv[j] /\ items[k] = conv[l] => j < l

\* What is replayed to an upstream is taken from the conversation that the request
\* continues, in its order, nothing of it twice and nothing from another, and ends with
\* the request; and it is the whole of it where the answers were recorded whole
\* (BuildReplayRequest and buildNextReplayWindow in ws_session.go).
CtReplaySound ==
  ctRound # CtIdle /\ ctRound.exec = "replay" =>
    LET meant == Meant(ctRound.continued, ctRound.n) IN
    /\ TakenFrom(ctRound.items, meant)
    /\ Last(ctRound.items) = Input(ctRound.n)
    /\ ctRound.continued \notin ctPartial => ctRound.items = meant

\* A client reads one answer to a request: nothing follows a whole answer or an error, and
\* no payload follows a partial answer, unless the passthrough had written that past the
\* round's writer (ws_client.go:284, ws_passthrough.go:257).
CtOneAnswer ==
  ctRound # CtIdle =>
    \A i, j \in DOMAIN ctRound.frames : i < j =>
      /\ ctRound.frames[i].what = "part"
      /\ ctRound.frames[j].what # "error" => ctRound.frames[i].by = "passthrough"

\* ws_session.go:161 promises of BuildReplayRequest that it makes "a self-contained replay
\* request by merging historical context": a replay is the whole conversation.
CtSelfContained ==
  ctRound # CtIdle /\ ctRound.exec = "replay" =>
    ctRound.items = Meant(ctRound.continued, ctRound.n)

\* USAGE.md:449 says that "a response that has already been committed downstream is never
\* automatically replayed": a second run begins with nothing written.
CtCommittedNotReplayed ==
  ctRound # CtIdle /\ ctRound.run = 2 /\ ctRound.tries = 0 => ctRound.frames = <<>>
=============================================================================
