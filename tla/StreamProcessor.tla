--------------------------- MODULE StreamProcessor ---------------------------
(***************************************************************************)
(* The loop that carries a streamed answer to the client                   *)
(* (relay/stream/processor.go) and the goroutines that feed it:            *)
(*                                                                         *)
(*   SSESource.readLoop  -- events -->  the reader  -- results -->  Run    *)
(*                                                                         *)
(* each over a channel of one place.  A passthrough stream has a RawSource *)
(* instead, read by the reader itself, and keeps what it forwarded: a      *)
(* client that leaves after the protocol's terminal event is a success.    *)
(*                                                                         *)
(* Go's select takes any case that is ready.  A chunk is its kind: it      *)
(* carries payload, none (a comment, an event the transform drops) or the  *)
(* terminal event, or the transform refuses it.  The body (external) may   *)
(* end, break or fall silent; closing it, or leaving, breaks a read.       *)
(***************************************************************************)
EXTENDS Naturals, Sequences

CONSTANTS SpChunks   \* bound: chunks the provider sends

ASSUME SpAssumption == SpChunks \in Nat

VARIABLES spRaw,     \* passthrough
          spTimed,   \* there is a first-token timeout
          spMade,    \* chunks read from the body
          spLoop,    \* SSESource.readLoop: [pc, item]
          spEvents,  \* its channel
          spClosed,  \* Source.Close was called
          spReader,  \* the reader goroutine: [pc, item]
          spResults, \* its channel
          spGone,    \* the request's context is done: the client left
          spRun,     \* "loop", or how Run returned
          spPayload, \* payloadWritten
          spFirst,   \* firstToken
          spTerminal,\* the kept stream holds a terminal event
          spWritten  \* the chunks written to the client, in order

spVars == <<spRaw, spTimed, spMade, spLoop, spEvents, spClosed, spReader, spResults,
            spGone, spRun, spPayload, spFirst, spTerminal, spWritten>>

ChunkKinds == {"payload", "nothing", "terminal", "refused"}
SpChunk(n, kind) == [n |-> n, kind |-> kind]
Broken(kind) == SpChunk(0, kind)   \* "eof" or "error": the last result of a source
Faulty(item) == item.kind \in {"eof", "error", "canceled"}

SpInit ==
    /\ spRaw \in BOOLEAN /\ spTimed \in BOOLEAN
    /\ spMade = 0
    /\ spLoop = [pc |-> IF spRaw THEN "ended" ELSE "read", item |-> Broken("eof")]
    /\ spEvents = <<>> /\ spClosed = FALSE
    /\ spReader = [pc |-> "read", item |-> Broken("eof")]
    /\ spResults = <<>>
    /\ spGone = FALSE /\ spRun = "loop"
    /\ spPayload = FALSE /\ spFirst = TRUE /\ spTerminal = FALSE
    /\ spWritten = <<>>

\* readCtx: canceled with the request's context and when Run returns.
ReadCtxDone == spGone \/ spRun # "loop"

-----------------------------------------------------------------------------
\* What a read of the body gives: the next chunk, its end or a failure.  A
\* closed body and a request whose context is done fail the read.
BodyGives(item) ==
    \/ /\ spMade < SpChunks
       /\ \E kind \in ChunkKinds : item = SpChunk(spMade + 1, kind)
       /\ spMade' = spMade + 1
    \/ item = Broken("eof") /\ UNCHANGED spMade
    \/ item = Broken("error") /\ UNCHANGED spMade
    \/ (spClosed \/ spGone) /\ item = Broken("canceled") /\ UNCHANGED spMade

Items == [n : 0 .. SpChunks, kind : ChunkKinds \union {"eof", "error", "canceled"}]

processor == <<spGone, spRun, spPayload, spFirst, spTerminal, spWritten>>

\* readLoop: an event is pushed, or the source was closed; an error ends it.
LoopRead ==
    /\ spLoop.pc = "read"
    /\ \E item \in Items :
         /\ BodyGives(item)
         /\ spLoop' = IF item.kind = "eof" THEN [spLoop EXCEPT !.pc = "ended"]
                      ELSE [pc |-> "push", item |-> item]
    /\ UNCHANGED <<spRaw, spTimed, spEvents, spClosed, spReader, spResults, processor>>

LoopPush ==
    /\ spLoop.pc = "push" /\ spEvents = <<>>
    /\ spEvents' = <<spLoop.item>>
    /\ spLoop' = [spLoop EXCEPT !.pc = IF Faulty(spLoop.item) THEN "ended" ELSE "read"]
    /\ UNCHANGED <<spRaw, spTimed, spMade, spClosed, spReader, spResults, processor>>

LoopDone ==
    /\ spLoop.pc = "push" /\ spClosed
    /\ spLoop' = [spLoop EXCEPT !.pc = "ended"]
    /\ UNCHANGED <<spRaw, spTimed, spMade, spEvents, spClosed, spReader, spResults, processor>>

ReaderTakes(item) ==
    /\ spReader' = [pc |-> "send", item |-> item]
    /\ UNCHANGED <<spRaw, spTimed, spClosed, spResults, processor>>

\* ReadEvent of an SSESource: an event, the end of the loop, or readCtx.
ReaderEvent ==
    /\ spReader.pc = "read" /\ ~spRaw
    /\ \/ spEvents # <<>> /\ ReaderTakes(spEvents[1]) /\ spEvents' = <<>>
       \/ /\ spEvents = <<>> /\ spLoop.pc = "ended"
          /\ ReaderTakes(Broken("eof")) /\ UNCHANGED spEvents
       \/ ReadCtxDone /\ ReaderTakes(Broken("canceled")) /\ UNCHANGED spEvents
    /\ UNCHANGED <<spMade, spLoop>>

\* ReadEvent of a RawSource: a read of the body.
ReaderRaw ==
    /\ spReader.pc = "read" /\ spRaw
    /\ \E item \in Items : BodyGives(item) /\ ReaderTakes(item)
    /\ UNCHANGED <<spLoop, spEvents>>

\* The result is sent, or nobody will take it.
ReaderSend ==
    /\ spReader.pc = "send"
    /\ \/ /\ spResults = <<>>
          /\ spResults' = <<spReader.item>>
          /\ spReader' = [spReader EXCEPT !.pc = IF Faulty(spReader.item) THEN "ended" ELSE "read"]
       \/ /\ ReadCtxDone
          /\ spReader' = [spReader EXCEPT !.pc = "ended"]
          /\ UNCHANGED spResults
    /\ UNCHANGED <<spRaw, spTimed, spMade, spLoop, spEvents, spClosed, processor>>

-----------------------------------------------------------------------------
\* Run returns: the deferred calls close the source and cancel readCtx.
SpReturn(outcome) == spRun' = outcome /\ spClosed' = TRUE

sources == <<spMade, spLoop, spEvents, spReader>>
delivery == <<spPayload, spFirst, spTerminal, spWritten>>

\* finalize.
Finalized == IF spPayload THEN "ok" ELSE "empty"

\* processEvent and what follows it: a refused chunk ends the stream, one the
\* transform drops is not written, the first payload stops the timer.  A raw
\* stream keeps and forwards every chunk; its observer tells payload apart.
ProcessEvent(c) ==
    /\ spTerminal' = (spTerminal \/ (spRaw /\ c.kind = "terminal"))
    /\ IF c.kind = "refused" /\ ~spRaw
       THEN SpReturn("transform") /\ UNCHANGED <<spPayload, spFirst, spWritten>>
       ELSE IF c.kind = "nothing" /\ ~spRaw
       THEN UNCHANGED <<spRun, spClosed, spPayload, spFirst, spWritten>>
       ELSE \/ /\ spWritten' = Append(spWritten, c.n)
               /\ spPayload' = (spPayload \/ c.kind # "nothing")
               /\ spFirst' = (spFirst /\ ~spPayload')
               /\ UNCHANGED <<spRun, spClosed>>
            \/ spGone /\ SpReturn("write") /\ UNCHANGED <<spPayload, spFirst, spWritten>>

RunResult ==
    /\ spRun = "loop"
    /\ \/ /\ spResults # <<>>
          /\ spResults' = <<>>
          /\ LET r == spResults[1]
             IN IF r.kind = "eof" THEN SpReturn(Finalized) /\ UNCHANGED delivery
                ELSE IF Faulty(r) THEN SpReturn("read") /\ UNCHANGED delivery
                ELSE ProcessEvent(r)
       \/ /\ spResults = <<>> /\ spReader.pc = "ended"   \* the channel is closed
          /\ SpReturn(Finalized)
          /\ UNCHANGED <<spResults, delivery>>
    /\ UNCHANGED <<spRaw, spTimed, sources, spGone>>

\* handleDisconnect: a success when the kept stream reached its terminal event.
RunDisconnect ==
    /\ spRun = "loop" /\ spGone
    /\ SpReturn(IF spTerminal THEN Finalized ELSE "canceled")
    /\ UNCHANGED <<spRaw, spTimed, sources, spResults, spGone, delivery>>

\* Faulty variant: the timer is not stopped by the first payload.
RunTimeoutLate ==
    /\ spRun = "loop" /\ spTimed
    /\ SpReturn("timeout")
    /\ UNCHANGED <<spRaw, spTimed, sources, spResults, spGone, delivery>>

\* handleFirstTokenTimeout.
RunTimeout ==
    /\ spRun = "loop" /\ spTimed /\ spFirst
    /\ SpReturn("timeout")
    /\ UNCHANGED <<spRaw, spTimed, sources, spResults, spGone, delivery>>

\* writeHeartbeat: a comment; the write fails once the client is gone.
RunHeartbeat ==
    /\ spRun = "loop" /\ spGone
    /\ SpReturn("heartbeat")
    /\ UNCHANGED <<spRaw, spTimed, sources, spResults, spGone, delivery>>

SpClientLeaves ==
    /\ ~spGone /\ spRun = "loop"
    /\ spGone' = TRUE
    /\ UNCHANGED <<spRaw, spTimed, sources, spClosed, spResults, spRun, delivery>>

SpNext ==
    \/ LoopRead \/ LoopPush \/ LoopDone
    \/ ReaderEvent \/ ReaderRaw \/ ReaderSend
    \/ RunResult \/ RunDisconnect \/ RunTimeout \/ RunHeartbeat \/ SpClientLeaves

\* A goroutine that can run does.  Nothing is assumed of the provider, whose
\* body may stay silent: a read is fair only once the body has been closed or
\* the client is gone.
SpFairness ==
    /\ WF_spVars((spClosed \/ spGone) /\ LoopRead)
    /\ WF_spVars(LoopPush) /\ WF_spVars(LoopDone)
    /\ WF_spVars(ReaderEvent) /\ WF_spVars(ReaderSend)
    /\ WF_spVars((spClosed \/ spGone) /\ ReaderRaw)
    /\ WF_spVars(RunResult) /\ WF_spVars(RunDisconnect)

SpSpec == SpInit /\ [][SpNext]_spVars /\ SpFairness

-----------------------------------------------------------------------------
\* What a client got is what the provider sent, in its order.
InOrder == \A i, j \in DOMAIN spWritten : i < j => spWritten[i] < spWritten[j]

\* The outcomes the relay fails over on leave nothing of the answer with the
\* client, a success is an answer with payload, and Run never calls a client that
\* left after a terminal event was kept a cancellation (handleDisconnect).  It may
\* still fail: when the read or a write notices the departure first.
SpOutcomeSound ==
    /\ InOrder
    /\ spRaw => \A i \in DOMAIN spWritten : spWritten[i] = i
    /\ spRun \in {"empty", "timeout"} => ~spPayload
    /\ spRun = "ok" => spPayload
    /\ spRun = "canceled" => ~(spTerminal /\ spPayload)

\* Once Run has returned or the client is gone every goroutine ends.
SpAllEnd ==
    (spGone \/ spRun # "loop") ~> (spRun # "loop" /\ spReader.pc = "ended" /\ spLoop.pc = "ended")
=============================================================================
