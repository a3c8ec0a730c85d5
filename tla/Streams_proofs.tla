-------------------------- MODULE Streams_proofs ---------------------------
(***************************************************************************)
(* What holds around one request and its streamed answer, and of a         *)
(* scheduled task, for every value of the constants.                       *)
(*                                                                         *)
(* The early heartbeat never writes into a response another goroutine      *)
(* writes: whoever writes payload, or returns the gin context, does so     *)
(* after the goroutine closed done.                                        *)
(*                                                                         *)
(* The stream processor hands a client no chunk twice or out of order, and *)
(* what it reports of a stream agrees with what the client has: what is    *)
(* under way in its channels is in the order in which it was read, and     *)
(* newer the closer it is to the body.                                     *)
(*                                                                         *)
(* A scheduled task never runs twice at once, and its ticker follows the   *)
(* setting: the mark in the registry is set from before a run begins until *)
(* it has ended.                                                           *)
(*                                                                         *)
(* An attempt at a provider sends what a first attempt at it would have    *)
(* sent: the attempts share the request as it was parsed.                  *)
(***************************************************************************)
EXTENDS EarlyHeartbeat, StreamProcessor, TaskScheduler, RequestTranslate, TLAPS

(* ---- early heartbeat (EarlyHeartbeat) ---- *)

\* The handler streams, hands over again, and returns only once the goroutine ended.
Ended ==
  /\ handler \in {"stream", "returned"} => beat = "ended"
  /\ handed /\ handler = "work" => beat = "ended"
  /\ "payload" \in sent => beat = "ended"

HbInv == TypeOK /\ Ended

-----------------------------------------------------------------------------

LEMMA HbInitially == Init => HbInv
<1> SUFFICES ASSUME Init PROVE HbInv
  OBVIOUS
<1>1. handed \in BOOLEAN /\ stopped \in BOOLEAN /\ canceled \in BOOLEAN
      /\ gone \in BOOLEAN /\ headerSet \in BOOLEAN
  BY Zenon DEF Init
<1>2. done = (beat = "ended")
  BY Zenon DEF Init
<1>3. QED
  BY <1>1, <1>2, AttemptsAssumption DEF AttemptsAssumption, Init, HbInv, TypeOK, Ended

\* The flags stay Boolean, and done says that the goroutine ended.
LEMMA StepFlags ==
  ASSUME HbInv, [Next]_vars
  PROVE  /\ handed' \in BOOLEAN /\ stopped' \in BOOLEAN /\ canceled' \in BOOLEAN
         /\ gone' \in BOOLEAN /\ headerSet' \in BOOLEAN
         /\ done' = (beat' = "ended")
<1>1. CASE BeatCanceled
  BY <1>1, Zenon DEF BeatCanceled, Exit, flags, HbInv, TypeOK
<1>2. CASE BeatFires
  <2>1. CASE handed \/ stopped
    BY <1>2, <2>1, Zenon DEF BeatFires, Exit, flags, HbInv, TypeOK
  <2>2. CASE ~(handed \/ stopped)
    BY <1>2, <2>2 DEF BeatFires, flags, HbInv, TypeOK
  <2>3. QED
    BY <2>1, <2>2
<1>3. CASE BeatLocks
  <2>1. CASE handed \/ stopped
    BY <1>3, <2>1, Zenon DEF BeatLocks, Exit, flags, HbInv, TypeOK
  <2>2. CASE ~(handed \/ stopped)
    BY <1>3, <2>2 DEF BeatLocks, flags, HbInv, TypeOK
  <2>3. QED
    BY <2>1, <2>2
<1>4. CASE BeatWritesHeader
  BY <1>4, Zenon DEF BeatWritesHeader, flags, HbInv, TypeOK
<1>5. CASE BeatWritesComment
  <2>1. CASE Exit
    BY <1>5, <2>1, Zenon DEF BeatWritesComment, Exit, flags, HbInv, TypeOK
  <2>2. CASE beat' = "tick" /\ UNCHANGED done
    BY <1>5, <2>2 DEF BeatWritesComment, flags, HbInv, TypeOK
  <2>3. QED
    BY <1>5, <2>1, <2>2 DEF BeatWritesComment
<1>6. CASE Hand
  BY <1>6, Zenon DEF Hand, HbInv, TypeOK
<1>7. CASE Stop
  BY <1>7, Zenon DEF Stop, HbInv, TypeOK
<1>8. CASE Joined \/ StreamComment \/ StreamEnds \/ FlushOrError \/ WriteSSEError
             \/ WriteJSONError \/ GiveUp \/ Return
  BY <1>8, Zenon DEF Joined, StreamComment, StreamEnds, FlushOrError, WriteSSEError,
     WriteJSONError, GiveUp, Return, flags, HbInv, TypeOK
<1>9. CASE ClientLeaves
  BY <1>9, Zenon DEF ClientLeaves, HbInv, TypeOK
<1>10. CASE UNCHANGED vars
  BY <1>10, Zenon DEF vars, flags, HbInv, TypeOK
<1>11. QED
  BY <1>1, <1>2, <1>3, <1>4, <1>5, <1>6, <1>7, <1>8, <1>9, <1>10
  DEF Next, Beat, Handler

LEMMA HbStepTypeOK ==
  ASSUME HbInv, [Next]_vars
  PROVE  TypeOK'
<1>1. CASE Beat
  BY <1>1, StepFlags DEF Beat, BeatCanceled, BeatFires, BeatLocks, BeatWritesHeader,
     BeatWritesComment, Exit, flags, HbInv, TypeOK
<1>2. CASE Hand
  BY <1>2, StepFlags, AttemptsAssumption DEF AttemptsAssumption, Hand, HbInv, TypeOK
<1>3. CASE Stop
  BY <1>3, StepFlags DEF Stop, HbInv, TypeOK
<1>4. CASE Joined \/ StreamComment \/ StreamEnds \/ FlushOrError
  BY <1>4, StepFlags
  DEF Joined, StreamComment, StreamEnds, FlushOrError, flags, HbInv, TypeOK
<1>5. CASE WriteSSEError \/ WriteJSONError \/ GiveUp \/ Return
  BY <1>5, StepFlags
  DEF WriteSSEError, WriteJSONError, GiveUp, Return, flags, HbInv, TypeOK
<1>6. CASE ClientLeaves \/ UNCHANGED vars
  BY <1>6, StepFlags DEF ClientLeaves, vars, flags, HbInv, TypeOK
<1>7. QED
  BY <1>1, <1>2, <1>3, <1>4, <1>5, <1>6 DEF Next, Handler

\* An ended goroutine stays ended; Joined and Return wait for its end, and the steps
\* that let the handler stream or write payload start where it has ended.
LEMMA StepEnded ==
  ASSUME HbInv, [Next]_vars
  PROVE  Ended'
<1>1. CASE Beat
  BY <1>1 DEF Beat, BeatCanceled, BeatFires, BeatLocks, BeatWritesHeader,
     BeatWritesComment, Exit, flags, HbInv, Ended
<1>2. CASE Hand
  BY <1>2 DEF Hand, HbInv, Ended
<1>3. CASE Joined
  BY <1>3 DEF Joined, flags, HbInv, TypeOK, Ended
<1>4. CASE StreamComment
  BY <1>4 DEF StreamComment, flags, HbInv, Ended
<1>5. CASE StreamEnds
  BY <1>5 DEF StreamEnds, flags, HbInv, Ended
<1>6. CASE FlushOrError \/ WriteSSEError \/ WriteJSONError \/ GiveUp
  BY <1>6 DEF FlushOrError, WriteSSEError, WriteJSONError, GiveUp, flags, HbInv, Ended
<1>7. CASE Stop
  BY <1>7 DEF Stop, HbInv, Ended
<1>8. CASE Return
  BY <1>8 DEF Return, flags, HbInv, TypeOK, Ended
<1>9. CASE ClientLeaves \/ UNCHANGED vars
  BY <1>9 DEF ClientLeaves, vars, flags, HbInv, Ended
<1>10. QED
  BY <1>1, <1>2, <1>3, <1>4, <1>5, <1>6, <1>7, <1>8, <1>9 DEF Next, Handler

-----------------------------------------------------------------------------

THEOREM HbInvariance == Spec => []HbInv
<1>1. HbInv /\ [Next]_vars => HbInv'
  BY HbStepTypeOK, StepEnded DEF HbInv
<1>2. QED
  BY <1>1, HbInitially, PTL DEF Spec

\* The heartbeat's fields keep their types, and done is closed when, and only when, its
\* goroutine has ended (heartbeat.go).
THEOREM HbTypeCorrect == Spec => []TypeOK
<1>1. HbInv => TypeOK
  BY DEF HbInv
<1>2. QED
  BY <1>1, HbInvariance, PTL

\* The goroutine never writes while an attempt streams, after payload, or after the
\* handler returned: Hand and Stop wait for done, and a second Hand finds it closed.
THEOREM OnlyOneWrites == Spec => OneWriter
<1>1. HbInv /\ [Next]_vars =>
        [BeatWritesHeader \/ BeatWritesComment
           => handler \notin {"stream", "returned"} /\ "payload" \notin sent]_vars
  BY DEF HbInv, Ended, BeatWritesHeader, BeatWritesComment
<1>2. QED
  BY <1>1, HbInvariance, PTL DEF Spec, OneWriter

(* ---- stream processor (StreamProcessor) ---- *)

\* A channel of the processor has room for one.
SpPlaces(s) == s = <<>> \/ \E item \in Items : s = <<item>>

SpTypeOK ==
  /\ spRaw \in BOOLEAN /\ spMade \in 0 .. SpChunks
  /\ spLoop \in [pc : {"read", "push", "ended"}, item : Items]
  /\ spReader \in [pc : {"read", "send", "ended"}, item : Items]
  /\ SpPlaces(spEvents) /\ SpPlaces(spResults)
  /\ spRun \in {"loop", "ok", "empty", "transform", "write", "read", "canceled", "timeout",
                "heartbeat"}
  /\ spPayload \in BOOLEAN /\ spFirst \in BOOLEAN /\ spTerminal \in BOOLEAN
  /\ spWritten \in Seq(1 .. SpChunks)

\* The chunks that are under way, and those the client has, were read from the body; the
\* further one has come the earlier it was read.
SpOnTheWay ==
  /\ \A i \in DOMAIN spWritten : spWritten[i] <= spMade
  /\ spResults # <<>> /\ ~Faulty(spResults[1]) =>
       /\ spResults[1].n <= spMade
       /\ \A i \in DOMAIN spWritten : spWritten[i] < spResults[1].n
  /\ spReader.pc = "send" /\ ~Faulty(spReader.item) =>
       /\ spReader.item.n <= spMade
       /\ \A i \in DOMAIN spWritten : spWritten[i] < spReader.item.n
       /\ spResults # <<>> => spResults[1].n < spReader.item.n
  /\ spEvents # <<>> /\ ~Faulty(spEvents[1]) =>
       /\ spEvents[1].n <= spMade
       /\ \A i \in DOMAIN spWritten : spWritten[i] < spEvents[1].n
       /\ spResults # <<>> => spResults[1].n < spEvents[1].n
       /\ spReader.pc = "send" => spReader.item.n < spEvents[1].n
  /\ spLoop.pc = "push" /\ ~Faulty(spLoop.item) =>
       /\ spLoop.item.n <= spMade
       /\ \A i \in DOMAIN spWritten : spWritten[i] < spLoop.item.n
       /\ spResults # <<>> => spResults[1].n < spLoop.item.n
       /\ spReader.pc = "send" => spReader.item.n < spLoop.item.n
       /\ spEvents # <<>> => spEvents[1].n < spLoop.item.n

\* Only a chunk has a number.
SpNumbers ==
  /\ spResults # <<>> => (Faulty(spResults[1]) <=> spResults[1].n = 0)
  /\ spReader.pc = "send" => (Faulty(spReader.item) <=> spReader.item.n = 0)
  /\ spEvents # <<>> => (Faulty(spEvents[1]) <=> spEvents[1].n = 0)
  /\ spLoop.pc = "push" => (Faulty(spLoop.item) <=> spLoop.item.n = 0)

\* While a passthrough runs it has forwarded all it has read, but for what is in the reader's
\* hands and in the channel.
SpForwarded ==
  /\ spRaw => spLoop.pc = "ended" /\ spEvents = <<>>
  /\ spRaw => \A i \in DOMAIN spWritten : spWritten[i] = i
  /\ spRaw /\ spRun = "loop" =>
       /\ spResults # <<>> /\ ~Faulty(spResults[1]) => spResults[1].n = Len(spWritten) + 1
       /\ spReader.pc \in {"read", "send"} /\ spResults # <<>> => ~Faulty(spResults[1])
       /\ spReader.pc = "read" => spMade = Len(spWritten) + Len(spResults)
       /\ spReader.pc = "send" /\ ~Faulty(spReader.item) =>
            /\ spReader.item.n = Len(spWritten) + Len(spResults) + 1
            /\ spMade = spReader.item.n

\* What Run has returned, against what was written.
SpReturned ==
  /\ spFirst => ~spPayload
  /\ spRun \in {"empty", "timeout"} => ~spPayload
  /\ spRun = "ok" => spPayload
  /\ spRun = "canceled" => ~(spTerminal /\ spPayload)

SpInv == SpTypeOK /\ InOrder /\ SpNumbers /\ SpOnTheWay /\ SpForwarded /\ SpReturned

LEMMA SpItems ==
  /\ \A kind : Broken(kind).n = 0 /\ Broken(kind).kind = kind
  /\ Broken("eof") \in Items /\ Broken("canceled") \in Items /\ Broken("error") \in Items
  /\ \A item \in Items : item.n \in 0 .. SpChunks
BY SpAssumption DEF SpAssumption, Broken, SpChunk, Items

\* A read of the body gives the next chunk, or something without a number.
LEMMA SpBody ==
  ASSUME spMade \in 0 .. SpChunks, NEW item \in Items, BodyGives(item)
  PROVE  /\ spMade' \in 0 .. SpChunks /\ spMade <= spMade'
         /\ IF Faulty(item) THEN item.n = 0 /\ spMade' = spMade
            ELSE item.n = spMade + 1 /\ spMade' = spMade + 1
BY SpAssumption DEF SpAssumption, BodyGives, Faulty, SpChunk, Broken, ChunkKinds, Items

LEMMA SpShape ==
  ASSUME SpInv
  PROVE  /\ spMade \in Nat /\ Len(spWritten) \in Nat /\ DOMAIN spWritten = 1 .. Len(spWritten)
         /\ \A i \in DOMAIN spWritten : spWritten[i] \in Nat /\ spWritten[i] <= spMade
         /\ spLoop.item \in Items /\ spLoop.item.n \in Nat
         /\ spReader.item \in Items /\ spReader.item.n \in Nat
         /\ spEvents # <<>> =>
              /\ spEvents[1] \in Items /\ spEvents[1].n \in Nat /\ Len(spEvents) = 1
              /\ spEvents[1].n <= spMade
         /\ spResults # <<>> =>
              /\ spResults[1] \in Items /\ spResults[1].n \in Nat /\ Len(spResults) = 1
              /\ spResults[1].n <= spMade
         /\ spReader.pc = "send" => spReader.item.n <= spMade
<1>1. spMade \in Nat /\ spLoop.item \in Items /\ spReader.item \in Items
      /\ spWritten \in Seq(1 .. SpChunks)
  BY SpAssumption DEF SpAssumption, SpInv, SpTypeOK
<1>2. \A item \in Items : item.n \in Nat
  BY SpItems, SpAssumption DEF SpAssumption
<1>3. /\ spEvents # <<>> => spEvents[1] \in Items /\ Len(spEvents) = 1
      /\ spResults # <<>> => spResults[1] \in Items /\ Len(spResults) = 1
  BY DEF SpInv, SpTypeOK, SpPlaces
<1>4. QED
  BY <1>1, <1>2, <1>3, SpAssumption DEF SpAssumption, SpInv, SpOnTheWay, SpNumbers

LEMMA SpInitially == SpInit => SpInv
<1> SUFFICES ASSUME SpInit PROVE SpInv
  OBVIOUS
<1>1. SpTypeOK
  <2>1. spLoop.pc \in {"read", "ended"}
        /\ spLoop \in [pc : {"read", "push", "ended"}, item : Items]
    <3>1. CASE spRaw
      BY <3>1, SpItems DEF SpInit
    <3>2. CASE ~spRaw
      BY <3>2, SpItems DEF SpInit
    <3>3. QED
      BY <3>1, <3>2
  <2>2. spReader \in [pc : {"read", "send", "ended"}, item : Items]
    BY SpItems DEF SpInit
  <2>3. spRaw \in BOOLEAN /\ spPayload \in BOOLEAN /\ spFirst \in BOOLEAN /\ spTerminal \in BOOLEAN
    BY Zenon DEF SpInit
  <2>4. QED
    BY <2>1, <2>2, <2>3, SpAssumption DEF SpAssumption, SpInit, SpTypeOK, SpPlaces
<1>2. InOrder /\ SpNumbers /\ SpOnTheWay /\ SpForwarded /\ SpReturned
  BY SpAssumption DEF SpAssumption, SpInit, InOrder, SpNumbers, SpOnTheWay, SpForwarded, SpReturned
<1>3. QED
  BY <1>1, <1>2 DEF SpInv

LEMMA SpLoopRead == ASSUME SpInv, LoopRead PROVE SpInv'
<1> USE DEF SpInv, LoopRead, processor
<1>1. PICK item \in Items :
        /\ BodyGives(item)
        /\ spLoop' = IF item.kind = "eof" THEN [spLoop EXCEPT !.pc = "ended"]
                     ELSE [pc |-> "push", item |-> item]
  OBVIOUS
<1>2. /\ spMade' \in 0 .. SpChunks /\ spMade <= spMade'
      /\ IF Faulty(item) THEN item.n = 0 /\ spMade' = spMade
         ELSE item.n = spMade + 1 /\ spMade' = spMade + 1
  BY <1>1, SpBody DEF SpTypeOK
<1>3. spLoop.pc = "read" /\ ~spRaw
  BY DEF SpForwarded
<1>4. SpTypeOK'
  BY <1>1, <1>2 DEF SpTypeOK, SpPlaces
<1>5. InOrder' /\ SpReturned' /\ SpForwarded'
  BY <1>3 DEF InOrder, SpReturned, SpForwarded
<1>6. SpNumbers'
  BY <1>1, <1>2 DEF SpNumbers, SpTypeOK, Faulty
<1>7. SpOnTheWay'
  BY <1>1, <1>2, SpShape DEF SpOnTheWay
<1>8. QED
  BY <1>4, <1>5, <1>6, <1>7

LEMMA SpLoopHands == ASSUME SpInv, LoopPush \/ LoopDone PROVE SpInv'
<1> USE DEF SpInv, LoopPush, LoopDone, processor
<1>1. spLoop.pc = "push" /\ ~spRaw
  BY DEF SpForwarded
<1>2. SpTypeOK'
  BY DEF SpTypeOK, SpPlaces
<1>3. InOrder' /\ SpReturned' /\ SpForwarded'
  BY <1>1 DEF InOrder, SpReturned, SpForwarded
<1>4. spEvents' # <<>> => spEvents' = spEvents \/ spEvents'[1] = spLoop.item
  OBVIOUS
<1>5. spLoop'.pc # "push"
  BY DEF SpTypeOK
<1>6. SpNumbers'
  BY <1>1, <1>4, <1>5 DEF SpNumbers, Faulty
<1>7. SpOnTheWay'
  BY <1>1, <1>4, <1>5, SpShape DEF SpOnTheWay, Faulty
<1>8. QED
  BY <1>2, <1>3, <1>6, <1>7

LEMMA SpReaderEvent == ASSUME SpInv, ReaderEvent PROVE SpInv'
<1> USE DEF SpInv, ReaderEvent, ReaderTakes, processor
<1>1. spReader.pc = "read" /\ ~spRaw
  OBVIOUS
<1>2. PICK item :
        /\ ReaderTakes(item)
        /\ \/ spEvents # <<>> /\ item = spEvents[1] /\ spEvents' = <<>>
           \/ item \in {Broken("eof"), Broken("canceled")} /\ spEvents' = spEvents
  OBVIOUS
<1>3. /\ item \in Items
      /\ spEvents' # <<>> => item.n = 0 /\ Faulty(item)
      /\ Faulty(item) <=> item.n = 0
      /\ spEvents' # <<>> => spEvents' = spEvents
  BY <1>2, SpShape, SpItems DEF SpNumbers, Faulty
<1>4. SpTypeOK'
  BY <1>2, <1>3 DEF SpTypeOK, SpPlaces
<1>5. InOrder' /\ SpReturned' /\ SpForwarded'
  BY <1>1 DEF InOrder, SpReturned, SpForwarded
<1>6. SpNumbers'
  BY <1>2, <1>3 DEF SpNumbers, Faulty
<1>7. SpOnTheWay'
  <2>1. /\ spReader'.pc = "send" /\ spReader'.item = item
        /\ UNCHANGED <<spMade, spLoop, spResults, spWritten>>
    BY <1>2
  <2>2. CASE spEvents' = <<>> /\ spEvents # <<>> /\ item = spEvents[1]
    BY <2>1, <2>2, <1>1, SpShape DEF SpOnTheWay
  <2>3. CASE Faulty(item) /\ item.n = 0 /\ spEvents' = spEvents
    BY <2>1, <2>3, <1>1, SpShape DEF SpOnTheWay, SpNumbers, Faulty
  <2>4. QED
    BY <1>2, <1>3, <2>2, <2>3, SpItems DEF Faulty
<1>8. QED
  BY <1>4, <1>5, <1>6, <1>7

LEMMA SpReaderRaw == ASSUME SpInv, ReaderRaw PROVE SpInv'
<1> USE DEF SpInv, ReaderRaw, ReaderTakes, processor
<1>1. spReader.pc = "read" /\ spRaw /\ spLoop.pc = "ended" /\ spEvents = <<>>
  BY DEF SpForwarded
<1>2. PICK item \in Items : BodyGives(item) /\ ReaderTakes(item)
  OBVIOUS
<1>3. /\ spMade' \in 0 .. SpChunks /\ spMade <= spMade'
      /\ IF Faulty(item) THEN item.n = 0 /\ spMade' = spMade
         ELSE item.n = spMade + 1 /\ spMade' = spMade + 1
  BY <1>2, SpBody DEF SpTypeOK
<1>4. SpTypeOK'
  BY <1>2, <1>3 DEF SpTypeOK, SpPlaces
<1>5. InOrder' /\ SpReturned'
  BY <1>1 DEF InOrder, SpReturned
<1>6. SpForwarded'
  BY <1>1, <1>2, <1>3, SpShape DEF SpForwarded, Faulty
<1>7. SpNumbers'
  <2>1. spReader'.item = item /\ UNCHANGED <<spLoop, spResults, spEvents>>
    BY <1>2
  <2>2. Faulty(item) <=> item.n = 0
    BY <1>3, SpShape
  <2>3. QED
    BY <1>1, <2>1, <2>2 DEF SpNumbers, Faulty
<1>8. SpOnTheWay'
  BY <1>1, <1>2, <1>3, SpShape DEF SpOnTheWay, Faulty
<1>9. QED
  BY <1>4, <1>5, <1>6, <1>7, <1>8

LEMMA SpReaderSend == ASSUME SpInv, ReaderSend PROVE SpInv'
<1> USE DEF SpInv, ReaderSend, processor
<1>1. /\ spReader.pc = "send"
      /\ spReader'.pc \in {"read", "ended"} /\ spReader'.item = spReader.item
      /\ \/ /\ spResults = <<>> /\ spResults' = <<spReader.item>>
            /\ spReader'.pc = "read" => ~Faulty(spReader.item)
            /\ Faulty(spReader.item) => spReader'.pc = "ended"
         \/ spResults' = spResults /\ spReader'.pc = "ended"
  BY DEF SpTypeOK
<1>2. spReader' \in [pc : {"read", "send", "ended"}, item : Items]
  BY DEF SpTypeOK
<1>3. SpTypeOK'
  BY <1>1, <1>2 DEF SpTypeOK, SpPlaces
<1>4. InOrder' /\ SpReturned'
  BY <1>1 DEF InOrder, SpReturned
<1>5. Len(spResults) \in Nat /\ (spResults = <<>> => Len(spResults) = 0)
      /\ (spResults' = <<spReader.item>> => Len(spResults') = 1 /\ spResults'[1] = spReader.item)
  BY SpShape DEF SpTypeOK, SpPlaces
<1>6. SpForwarded'
  <2>1. UNCHANGED <<spRaw, spMade, spLoop, spEvents, spRun, spWritten>>
    OBVIOUS
  <2>2. CASE spResults' = spResults /\ spReader'.pc = "ended"
    BY <2>1, <2>2 DEF SpForwarded
  <2>3. CASE spResults = <<>> /\ spResults' = <<spReader.item>>
    BY <1>1, <1>5, <2>1, <2>3, SpShape DEF SpForwarded
  <2>4. QED
    BY <1>1, <2>2, <2>3
<1>7. SpNumbers'
  BY <1>1, <1>5 DEF SpNumbers, Faulty
<1>8. SpOnTheWay'
  BY <1>1, <1>5, SpShape DEF SpOnTheWay, Faulty
<1>9. QED
  BY <1>3, <1>4, <1>6, <1>7, <1>8

\* What Run does with a result: it drops it and returns, or leaves it out, or writes it.
LEMMA SpRunResult == ASSUME SpInv, RunResult PROVE SpInv'
<1> DEFINE r == spResults[1]
<1>1. /\ spRun = "loop" /\ spResults' = <<>>
      /\ UNCHANGED <<spRaw, spMade, spLoop, spEvents, spReader>>
  BY DEF RunResult, sources
<1>2. \/ /\ spRun' # "loop" /\ UNCHANGED spWritten /\ UNCHANGED spPayload /\ UNCHANGED spFirst
         /\ spRun' \in {"ok", "empty", "transform", "write", "read"}
         /\ spRun' = "empty" => ~spPayload
         /\ spRun' = "ok" => spPayload
      \/ /\ spResults # <<>> /\ ~Faulty(r) /\ UNCHANGED spRun
         /\ \/ ~spRaw /\ UNCHANGED spWritten /\ UNCHANGED spPayload /\ UNCHANGED spFirst
            \/ /\ spWritten' = Append(spWritten, r.n)
               /\ spPayload' = (spPayload \/ r.kind # "nothing")
               /\ spFirst' = (spFirst /\ ~spPayload')
  <2>1. CASE spResults # <<>> /\ Faulty(r)
    BY <2>1, <1>1 DEF RunResult, SpReturn, Finalized, delivery, Faulty
  <2>2. CASE spResults # <<>> /\ ~Faulty(r)
    <3>1. ProcessEvent(r)
      BY <2>2, <1>1 DEF RunResult, Faulty
    <3>2. QED
      BY <3>1, <2>2, <1>1 DEF ProcessEvent, SpReturn
  <2>3. CASE spResults = <<>>
    BY <2>3, <1>1 DEF RunResult, SpReturn, Finalized, delivery
  <2>4. QED
    BY <2>1, <2>2, <2>3
<1>3. spTerminal' \in BOOLEAN
  BY Zenon DEF RunResult, ProcessEvent, delivery, SpInv, SpTypeOK
<1>4. CASE UNCHANGED spWritten
  <2>1. UNCHANGED spPayload /\ UNCHANGED spFirst
    <3>1. spWritten # Append(spWritten, r.n)
      BY DEF SpInv, SpTypeOK
    <3>2. QED
      BY <1>2, <1>4, <3>1
  <2>2. SpTypeOK'
    BY <1>1, <1>2, <1>3, <1>4, <2>1 DEF SpInv, SpTypeOK, SpPlaces
  <2>3. InOrder' /\ SpNumbers' /\ SpOnTheWay'
    BY <1>1, <1>4 DEF SpInv, InOrder, SpNumbers, SpOnTheWay
  <2>4. SpForwarded'
    BY <1>1, <1>2, <1>4 DEF SpInv, SpForwarded
  <2>5. SpReturned'
    BY <1>1, <1>2, <2>1 DEF SpInv, SpReturned
  <2>6. QED
    BY <2>2, <2>3, <2>4, <2>5 DEF SpInv
<1>5. CASE /\ spResults # <<>> /\ ~Faulty(r) /\ UNCHANGED spRun
           /\ spWritten' = Append(spWritten, r.n)
           /\ spPayload' = (spPayload \/ r.kind # "nothing")
           /\ spFirst' = (spFirst /\ ~spPayload')
  <2>1. r.n \in 1 .. SpChunks /\ r.n <= spMade /\ \A i \in DOMAIN spWritten : spWritten[i] < r.n
    BY <1>5, SpShape, SpItems DEF SpInv, SpOnTheWay, SpNumbers
  <2>2. /\ spWritten' \in Seq(1 .. SpChunks) /\ Len(spWritten') = Len(spWritten) + 1
        /\ DOMAIN spWritten' = 1 .. Len(spWritten) + 1
        /\ \A i \in DOMAIN spWritten : spWritten'[i] = spWritten[i]
        /\ spWritten'[Len(spWritten) + 1] = r.n
    BY <1>5, <2>1 DEF SpInv, SpTypeOK
  <2>3. SpTypeOK'
    <3>1. spPayload' \in BOOLEAN /\ spFirst' \in BOOLEAN
      BY <1>5, Zenon
    <3>2. QED
      BY <1>1, <1>3, <1>5, <2>2, <3>1 DEF SpInv, SpTypeOK, SpPlaces
  <2>4. InOrder'
    BY <2>1, <2>2, SpShape DEF SpInv, InOrder
  <2>5. SpNumbers'
    BY <1>1 DEF SpInv, SpNumbers
  <2>6. SpOnTheWay'
    <3>1. \A i \in DOMAIN spWritten' : i \in DOMAIN spWritten \/ spWritten'[i] = r.n
      BY <2>2, SpShape
    <3>2. QED
      BY <1>1, <1>5, <2>1, <2>2, <3>1, SpShape DEF SpInv, SpOnTheWay
  <2>7. SpForwarded'
    <3>1. spRaw => r.n = Len(spWritten) + 1
      BY <1>1, <1>5 DEF SpInv, SpForwarded
    <3>2. spRaw => \A i \in DOMAIN spWritten' : spWritten'[i] = i
      BY <2>2, <3>1, SpShape DEF SpInv, SpForwarded
    <3>3. QED
      <4>1. Len(spResults) = 1 /\ Len(spResults') = 0
        BY <1>1, <1>5, SpShape
      <4>2. spRaw => spLoop.pc = "ended" /\ spEvents = <<>>
        BY DEF SpInv, SpForwarded
      <4>3. spRaw /\ spRun = "loop" =>
              /\ spReader.pc = "read" => spMade = Len(spWritten) + 1
              /\ spReader.pc = "send" /\ ~Faulty(spReader.item) =>
                   spReader.item.n = Len(spWritten) + 2 /\ spMade = spReader.item.n
        BY <4>1, SpShape DEF SpInv, SpForwarded
      <4>4. QED
        BY <1>1, <1>5, <2>2, <3>2, <4>1, <4>2, <4>3, SpShape DEF SpForwarded, Faulty
  <2>8. SpReturned'
    BY <1>1, <1>5 DEF SpInv, SpReturned
  <2>9. QED
    BY <2>3, <2>4, <2>5, <2>6, <2>7, <2>8 DEF SpInv
<1>6. QED
  BY <1>2, <1>4, <1>5

\* What ends Run from outside: the client leaves, no payload comes in time, a write fails.
LEMMA SpEnds ==
  ASSUME SpInv, RunDisconnect \/ RunTimeout \/ RunHeartbeat \/ SpClientLeaves
  PROVE  SpInv'
<1>1. /\ UNCHANGED <<spRaw, spMade, spLoop, spEvents, spReader, spResults>>
      /\ UNCHANGED <<spWritten, spPayload, spFirst, spTerminal>>
  BY DEF RunDisconnect, RunTimeout, RunHeartbeat, SpClientLeaves, sources, delivery
<1>2. /\ spRun' = "loop" => spRun = "loop"
      /\ spRun' \in {"loop", "ok", "empty", "canceled", "timeout", "heartbeat"}
      /\ spRun' = "empty" => ~spPayload
      /\ spRun' = "timeout" => spFirst
      /\ spRun' = "ok" => spPayload
      /\ spRun' = "canceled" => ~spTerminal
  BY DEF RunDisconnect, RunTimeout, RunHeartbeat, SpClientLeaves, SpReturn, Finalized
<1>3. SpTypeOK'
  BY <1>1, <1>2 DEF SpInv, SpTypeOK, SpPlaces
<1>4. InOrder' /\ SpNumbers' /\ SpOnTheWay'
  BY <1>1 DEF SpInv, InOrder, SpNumbers, SpOnTheWay
<1>5. SpForwarded'
  BY <1>1, <1>2 DEF SpInv, SpForwarded
<1>6. SpReturned'
  BY <1>1, <1>2 DEF SpInv, SpReturned
<1>7. QED
  BY <1>3, <1>4, <1>5, <1>6 DEF SpInv

\* SpInv holds in every state of the processor (processor.go).
THEOREM SpInvariance == SpSpec => []SpInv
<1>1. SpInv /\ [SpNext]_spVars => SpInv'
  <2>1. ASSUME SpInv, UNCHANGED spVars PROVE SpInv'
    BY <2>1 DEF spVars, SpInv, SpTypeOK, SpPlaces, InOrder, SpNumbers, SpOnTheWay, SpForwarded,
       SpReturned
  <2>2. QED
    BY <2>1, SpLoopRead, SpLoopHands, SpReaderEvent, SpReaderRaw, SpReaderSend, SpRunResult,
       SpEnds DEF SpNext
<1>2. QED
  BY SpInitially, <1>1, PTL DEF SpSpec

\* What Run returns of a stream agrees with what the client was written, for any number of
\* chunks (Processor.Run).
THEOREM SpOutcomes == SpSpec => []SpOutcomeSound
<1>1. SpInv => SpOutcomeSound
  BY DEF SpInv, SpForwarded, SpReturned, SpOutcomeSound
<1>2. QED
  BY <1>1, SpInvariance, PTL

(* ---- scheduled task (TaskScheduler) ---- *)

TkTypeOK ==
  /\ tkSetting \in TkIntervals /\ tkInterval \in TkIntervals
  /\ tkInit \in [pc : {"read", "register", "run", "done"}, to : TkIntervals]
  /\ tkMap \in BOOLEAN /\ tkStop \in BOOLEAN /\ tkRunning \in BOOLEAN /\ tkMissed \in BOOLEAN
  /\ tkLoop \in {"none", "start", "select", "tick", "gone"}
  /\ tkExec \in [TkExecs -> {"none", "runs", "ends"}]
  /\ tkAdmin \in [TkAdmins -> [pc : {"idle", "find", "send", "close"}, to : TkIntervals]]

\* The mark is set from before a run begins until it has ended.
TkMarked ==
  /\ \A g \in TkExecs : tkExec[g] # "none" => tkRunning
  /\ \A g, h \in TkExecs : tkExec[g] # "none" /\ tkExec[h] # "none" => g = h

\* A loop is made by RUN, after task.Init registered the task.
TkLate == tkLoop # "none" => tkInit.pc = "done"

\* The setting is that of the change under way; without one, what task.Init has read and
\* then the ticker have it.
TkFollows ==
  ~tkMissed /\ ~tkStop =>
    /\ \A a, b \in TkAdmins : tkAdmin[a].pc # "idle" /\ tkAdmin[b].pc # "idle" => a = b
    /\ \A a \in TkAdmins : tkAdmin[a].pc # "idle" => tkSetting = tkAdmin[a].to
    /\ (\A a \in TkAdmins : tkAdmin[a].pc = "idle") =>
         /\ tkInit.pc = "register" => tkInit.to = tkSetting
         /\ tkInit.pc \in {"run", "done"} => tkInterval = tkSetting

TkInv == TkTypeOK /\ TkMarked /\ TkLate /\ TkFollows

LEMMA TkInitially == TkInit => TkInv
<1> SUFFICES ASSUME TkInit PROVE TkInv
  OBVIOUS
<1>1. TkTypeOK
  BY TkAssumption DEF TkAssumption, TkInit, TkTypeOK, TkNoChange
<1>2. TkMarked /\ TkLate /\ TkFollows
  BY DEF TkInit, TkMarked, TkLate, TkFollows, TkNoChange
<1>3. QED
  BY <1>1, <1>2 DEF TkInv

LEMMA TkStartStep == ASSUME TkInv, TkStart PROVE TkInv'
<1> USE DEF TkInv, TkStart, TkInitRead, TkRegister, TkRun, TkLoopVars, TkAdminVars
<1>1. TkTypeOK'
  <2>1. tkMap' \in BOOLEAN
    <3>1. (tkInit.to > 0) \in BOOLEAN
      BY SMT
    <3>2. tkMap' = tkMap \/ tkMap' = (tkInit.to > 0)
      BY Zenon
    <3>3. QED
      BY <3>1, <3>2, Zenon DEF TkTypeOK
  <2>2. CASE TkInitRead
    BY <2>1, <2>2 DEF TkTypeOK
  <2>3. CASE TkRegister
    BY <2>1, <2>3 DEF TkTypeOK
  <2>4. CASE TkRun
    BY <2>1, <2>4 DEF TkTypeOK
  <2>5. QED
    BY <2>2, <2>3, <2>4
<1>2. TkMarked'
  BY DEF TkMarked
<1>3. TkLate'
  BY DEF TkLate, TkTypeOK
<1>4. TkFollows'
  BY DEF TkFollows, TkTypeOK
<1>5. QED
  BY <1>1, <1>2, <1>3, <1>4

\* The loop, its triggers and the runs they start.
LEMMA TkLoopStepInv ==
  ASSUME TkInv, \/ TkLoopStep \/ TkTick \/ TkLoopStop
                \/ \E g \in TkExecs : TkFnEnds(g) \/ TkExecEnds(g)
  PROVE  TkInv'
<1> USE DEF TkInv
<1>1. /\ UNCHANGED <<tkSetting, tkInit, tkMap, tkStop, tkInterval>>
      /\ UNCHANGED <<tkAdmin, tkChanges, tkMissed>>
      /\ tkLoop # "none" \/ tkLoop' = tkLoop
      /\ tkLoop' \in {"none", "start", "select", "tick", "gone"}
  BY DEF TkLoopStep, TkLoopStart, TkTickDone, TkTick, TkLoopStop, TkFnEnds, TkExecEnds, TkAdminVars,
     TkTypeOK
<1>2. \/ UNCHANGED <<tkRunning, tkExec>>
      \/ /\ ~tkRunning /\ tkRunning' = TRUE
         /\ \E g \in TkExecs : tkExec[g] = "none" /\ tkExec' = [tkExec EXCEPT ![g] = "runs"]
      \/ \E g \in TkExecs : /\ tkExec[g] = "runs" /\ tkExec' = [tkExec EXCEPT ![g] = "ends"]
                            /\ UNCHANGED tkRunning
      \/ \E g \in TkExecs : /\ tkExec[g] = "ends" /\ tkExec' = [tkExec EXCEPT ![g] = "none"]
                            /\ tkRunning' = FALSE
  BY DEF TkLoopStep, TkLoopStart, TkTickDone, TkTick, TkLoopStop, TkFnEnds, TkExecEnds, TkTrigger
<1>3. tkRunning' \in BOOLEAN
  BY <1>2, Zenon DEF TkTypeOK
<1>4. TkTypeOK'
  BY <1>1, <1>2, <1>3 DEF TkTypeOK
<1>5. TkMarked'
  BY <1>2 DEF TkMarked, TkTypeOK
<1>6. TkLate' /\ TkFollows'
  BY <1>1 DEF TkLate, TkFollows
<1>7. QED
  BY <1>4, <1>5, <1>6

LEMMA TkAdminInv ==
  ASSUME TkInv, NEW a \in TkAdmins, TkAdminStep(a) \/ \E to \in TkIntervals : TkSet(a, to)
  PROVE  TkInv'
<1> USE DEF TkInv
<1>1. CASE TkNotFound(a) \/ TkSkip(a)
  <2>1. TkTypeOK'
    <3>1. tkAdmin' = [tkAdmin EXCEPT ![a] = TkNoChange] /\ tkMissed' = TRUE
      BY <1>1 DEF TkNotFound, TkSkip, TkChanged
    <3>2. TkNoChange \in [pc : {"idle", "find", "send", "close"}, to : TkIntervals]
      BY TkAssumption DEF TkAssumption, TkNoChange
    <3>3. UNCHANGED <<tkSetting, tkInit, tkMap, tkStop, tkLoop, tkInterval, tkRunning, tkExec>>
      BY <1>1 DEF TkNotFound, TkSkip, TkLoopVars
    <3>4. QED
      BY <3>1, <3>2, <3>3 DEF TkTypeOK
  <2>2. TkMarked' /\ TkLate' /\ TkFollows'
    BY <1>1 DEF TkNotFound, TkSkip, TkLoopVars, TkMarked, TkLate, TkFollows
  <2>3. QED
    BY <2>1, <2>2
<1>2. CASE TkDelete(a) \/ TkFind(a)
  <2>1. TkTypeOK'
    <3>1. /\ tkStop' \in BOOLEAN /\ tkMap' \in BOOLEAN
          /\ UNCHANGED <<tkSetting, tkInit, tkLoop, tkInterval, tkRunning, tkExec, tkMissed>>
      BY <1>2 DEF TkDelete, TkFind, TkLoopVars, TkTypeOK
    <3>2. PICK pc \in {"send", "close"} : tkAdmin' = [tkAdmin EXCEPT ![a] = [tkAdmin[a] EXCEPT !.pc = pc]]
      BY <1>2 DEF TkDelete, TkFind, TkChanged
    <3>3. tkAdmin' \in [TkAdmins -> [pc : {"idle", "find", "send", "close"}, to : TkIntervals]]
      BY <3>2 DEF TkTypeOK
    <3>4. QED
      BY <3>1, <3>3 DEF TkTypeOK
  <2>2. TkMarked' /\ TkLate'
    BY <1>2 DEF TkDelete, TkFind, TkLoopVars, TkMarked, TkLate
  <2>3. TkFollows'
    BY <1>2 DEF TkDelete, TkFind, TkChanged, TkLoopVars, TkFollows, TkTypeOK
  <2>4. QED
    BY <2>1, <2>2, <2>3
<1>3. CASE TkClose(a)
  <2>1. TkTypeOK'
    BY <1>3, TkAssumption DEF TkAssumption, TkClose, TkChanged, TkNoChange, TkLoopVars, TkTypeOK
  <2>2. TkMarked' /\ TkLate' /\ TkFollows'
    BY <1>3 DEF TkClose, TkLoopVars, TkMarked, TkLate, TkFollows
  <2>3. QED
    BY <2>1, <2>2
<1>4. CASE TkSend(a)
  <2>1. TkTypeOK'
    BY <1>4, TkAssumption DEF TkAssumption, TkSend, TkChanged, TkNoChange, TkTypeOK
  <2>2. TkMarked' /\ TkLate'
    BY <1>4 DEF TkSend, TkMarked, TkLate
  <2>3. TkFollows'
    BY <1>4 DEF TkSend, TkChanged, TkNoChange, TkFollows, TkTypeOK, TkLate
  <2>4. QED
    BY <2>1, <2>2, <2>3
<1>5. ASSUME NEW to \in TkIntervals, TkSet(a, to) PROVE TkInv'
  <2>1. TkTypeOK'
    <3>1. tkMissed' \in BOOLEAN
      BY <1>5, Zenon DEF TkSet, TkTypeOK
    <3>2. QED
      BY <1>5, <3>1 DEF TkSet, TkLoopVars, TkTypeOK
  <2>2. TkMarked' /\ TkLate'
    BY <1>5 DEF TkSet, TkLoopVars, TkMarked, TkLate
  <2>3. TkFollows'
    BY <1>5 DEF TkSet, TkLoopVars, TkFollows, TkTypeOK
  <2>4. QED
    BY <2>1, <2>2, <2>3
<1>6. QED
  BY <1>1, <1>2, <1>3, <1>4, <1>5 DEF TkAdminStep

\* A task never runs twice at once, and unless an offer of an interval was missed the ticker
\* has the interval that was set last (task.go).
THEOREM TkNeverOverlaps == TkSpec => []TkSound
<1>1. TkInv /\ [TkNext]_tkVars => TkInv'
  <2>1. ASSUME TkInv, UNCHANGED tkVars PROVE TkInv'
    BY <2>1 DEF tkVars, TkInv, TkTypeOK, TkMarked, TkLate, TkFollows
  <2>2. QED
    BY <2>1, TkStartStep, TkLoopStepInv, TkAdminInv DEF TkNext
<1>2. TkInv => TkSound
  BY DEF TkInv, TkMarked, TkLate, TkFollows, TkSound
<1>3. QED
  BY TkInitially, <1>1, <1>2, PTL DEF TkSpec

(* ---- the request's translation (RequestTranslate) ---- *)

\* The request every attempt of a conversation starts from.
RtParsed ==
  [messages |-> Validate(Inbound(rtClient, rtItems, rtCached)),
   raw |-> When(rtClient = "responses", RawItems(rtItems))]

\* The attempts share the request as it was parsed.
RtShared ==
  /\ rtClient # "none" => rtRequest = RtParsed
  /\ rtClient = "none" => rtSent.to = "nobody"

RtInv == RtShared /\ RtRetriesAgree

LEMMA RtInitially == RtInit => RtInv
  BY DEF RtInit, RtInv, RtShared, RtRetriesAgree, NotSent

\* Only a conversation not yet sent grows.
LEMMA RtSays ==
  ASSUME RtInv, NEW kind, NEW form, Says(kind, form)
  PROVE  RtInv'
<1>1. rtClient = "none" /\ rtClient' = "none" /\ rtSent' = rtSent
  BY Zenon DEF Says
<1>2. rtSent.to = "nobody"
  BY <1>1, Zenon DEF RtInv, RtShared
<1> QED  BY <1>1, <1>2, Zenon DEF RtInv, RtShared, RtRetriesAgree

LEMMA RtParse ==
  ASSUME RtInv, NEW client \in RtClients, NEW cached, Parse(client, cached)
  PROVE  RtInv'
<1>1. client # "none"
  BY RequestTranslateAssumption DEF RequestTranslateAssumption
<1>2. /\ rtClient = "none" /\ rtClient' = client /\ rtCached' = cached
      /\ rtItems' = rtItems /\ rtSent' = rtSent
      /\ rtRequest' = [messages |-> Validate(Inbound(client, rtItems, cached)),
                       raw |-> When(client = "responses", RawItems(rtItems))]
  BY Zenon DEF Parse
<1>3. rtRequest' = RtParsed'
  BY <1>2, Zenon DEF RtParsed
<1>4. rtSent.to = "nobody"
  BY <1>2, Zenon DEF RtInv, RtShared
<1> QED  BY <1>1, <1>2, <1>3, <1>4, Zenon DEF RtInv, RtShared, RtRetriesAgree

LEMMA RtAttempt ==
  ASSUME RtInv, NEW provider \in RtProviders, Attempt(provider)
  PROVE  RtInv'
<1>1. /\ rtClient # "none" /\ rtClient' = rtClient /\ rtItems' = rtItems /\ rtCached' = rtCached
      /\ rtSent' = [to |-> provider, wire |-> Outbound(provider, rtRequest)]
      /\ rtRequest' = rtRequest
  BY Zenon DEF Attempt, SharedAfter
<1>2. rtRequest = RtParsed /\ RtParsed' = RtParsed
  BY <1>1, Zenon DEF RtInv, RtShared, RtParsed
<1>3. rtSent'.to = provider /\ rtSent'.wire = Outbound(provider, rtRequest)
  BY <1>1
<1>4. rtSent'.wire = Outbound(rtSent'.to, RtParsed')
  BY <1>2, <1>3, Zenon
<1>5. RtRetriesAgree'
  BY <1>4, Zenon DEF RtRetriesAgree, RtParsed
<1> QED  BY <1>1, <1>2, <1>5, Zenon DEF RtInv, RtShared

\* Whichever providers were tried before, an attempt sends what a first attempt at this
\* provider would have sent: it starts from the request as it was parsed
\* (protocol_attempt.go).
THEOREM RtAttemptsAgree == RtSpec => []RtRetriesAgree
<1>1. ASSUME RtInv, [RtNext]_rtVars PROVE RtInv'
  <2>1. ASSUME NEW kind \in ItemKinds, NEW form \in Forms(kind), Says(kind, form) PROVE RtInv'
    BY <1>1, <2>1, RtSays
  <2>2. ASSUME NEW client \in RtClients, NEW cached \in BOOLEAN, Parse(client, cached) PROVE RtInv'
    BY <1>1, <2>2, RtParse
  <2>3. ASSUME NEW provider \in RtProviders, Attempt(provider) PROVE RtInv'
    BY <1>1, <2>3, RtAttempt
  <2>4. CASE UNCHANGED rtVars
    BY <1>1, <2>4, Zenon DEF rtVars, RtInv, RtShared, RtParsed, RtRetriesAgree
  <2> QED  BY <1>1, <2>1, <2>2, <2>3, <2>4, Zenon DEF RtNext
<1>2. RtInv => RtRetriesAgree
  BY Zenon DEF RtInv
<1> QED  BY RtInitially, <1>1, <1>2, PTL DEF RtSpec
=============================================================================
