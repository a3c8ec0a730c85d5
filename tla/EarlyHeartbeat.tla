---------------------------- MODULE EarlyHeartbeat ----------------------------
(***************************************************************************)
(* Who writes a streaming response (internal/relay/heartbeat.go): the      *)
(* goroutine that keeps the client waiting with SSE comments until an      *)
(* upstream answers, and the request's handler, which takes the response   *)
(* over with Hand, or ends the request with FlushOrError, and always runs  *)
(* Stop before it returns and the gin context is used again.               *)
(*                                                                         *)
(* `sent` holds what reached the client: an SSE header, an SSE comment,    *)
(* payload, an SSE error event, or a JSON error.  One write is one step.   *)
(***************************************************************************)
EXTENDS Naturals

CONSTANT MaxAttempts   \* bound: attempts that stream

ASSUME AttemptsAssumption == MaxAttempts \in Nat \ {0}

VARIABLES
  beat,       \* where the heartbeat's goroutine is
  handler,    \* where the handler is
  attempts,
  handed, stopped, canceled, mu, headerSet, done,   \* earlyHeartbeat
  gone,       \* the client left: the request's context is done
  sent

flags == <<handed, stopped, canceled, gone>>
vars == <<beat, handler, attempts, flags, mu, headerSet, done, sent>>

Init ==
  /\ beat = "delay" /\ handler = "work" /\ attempts = 0
  /\ handed = FALSE /\ stopped = FALSE /\ canceled = FALSE /\ gone = FALSE
  /\ mu = "free" /\ headerSet = FALSE /\ done = FALSE
  /\ sent = {}

-----------------------------------------------------------------------------
(* The goroutine of startEarlyHeartbeat *)

Exit == beat' = "ended" /\ done' = TRUE

\* ctx.Done: the client left, or Hand or Stop canceled.
BeatCanceled ==
  /\ beat \in {"delay", "tick"} /\ (canceled \/ gone)
  /\ Exit
  /\ UNCHANGED <<handler, attempts, flags, mu, headerSet, sent>>

\* The timer or the ticker fires; the flags are read before the lock.
BeatFires ==
  /\ beat \in {"delay", "tick"}
  /\ IF handed \/ stopped THEN Exit ELSE beat' = "lock" /\ UNCHANGED done
  /\ UNCHANGED <<handler, attempts, flags, mu, headerSet, sent>>

\* The flags are read again under the lock.
BeatLocks ==
  /\ beat = "lock" /\ mu = "free"
  /\ IF handed \/ stopped
     THEN Exit /\ UNCHANGED mu
     ELSE mu' = "beat" /\ beat' = "write" /\ UNCHANGED done
  /\ UNCHANGED <<handler, attempts, flags, headerSet, sent>>

\* writeSSEHeaderLocked
BeatWritesHeader ==
  /\ beat = "write" /\ ~headerSet
  /\ headerSet' = TRUE
  /\ sent' = sent \cup {"header"}
  /\ UNCHANGED <<beat, handler, attempts, flags, mu, done>>

\* writeHeartbeatLocked; a failed write ends the goroutine.
BeatWritesComment ==
  /\ beat = "write" /\ headerSet
  /\ \/ sent' = sent \cup {"comment"} /\ beat' = "tick" /\ UNCHANGED done
     \/ Exit /\ UNCHANGED sent
  /\ mu' = "free"
  /\ UNCHANGED <<handler, attempts, flags, headerSet>>

-----------------------------------------------------------------------------
(* The handler *)

\* Faulty variant: the goroutine is told to end, and not waited for.
HandWithoutJoin ==
  /\ handler = "work" /\ attempts < MaxAttempts
  /\ attempts' = attempts + 1
  /\ handed' = TRUE /\ canceled' = TRUE
  /\ handler' = "stream"
  /\ UNCHANGED <<beat, stopped, gone, mu, headerSet, done, sent>>

\* An attempt whose upstream answers with a stream takes over.  Only the first one
\* cancels the goroutine and waits for it.
Hand ==
  /\ handler = "work" /\ attempts < MaxAttempts
  /\ attempts' = attempts + 1
  /\ handed' = TRUE
  /\ canceled' = (canceled \/ ~handed)
  /\ handler' = IF handed THEN "stream" ELSE "join"
  /\ UNCHANGED <<beat, stopped, gone, mu, headerSet, done, sent>>

Joined ==
  /\ handler = "join" /\ done
  /\ handler' = "stream"
  /\ UNCHANGED <<beat, attempts, flags, mu, headerSet, done, sent>>

\* StreamProcessor writes its own SSE comments.
StreamComment ==
  /\ handler = "stream"
  /\ sent' = sent \cup {"header", "comment"}
  /\ UNCHANGED <<beat, handler, attempts, flags, mu, headerSet, done>>

\* Payload commits the request to this attempt; a stream without any lets it try
\* another candidate.
StreamEnds ==
  /\ handler = "stream"
  /\ \/ handler' = "stop" /\ sent' = sent \cup {"header", "payload"}
     \/ handler' = "work" /\ UNCHANGED sent
  /\ UNCHANGED <<beat, attempts, flags, mu, headerSet, done>>

\* FlushOrError looks once whether the early header is out.
FlushOrError ==
  /\ handler = "work"
  /\ handler' = IF headerSet THEN "event" ELSE "json"
  /\ UNCHANGED <<beat, attempts, flags, mu, headerSet, done, sent>>

\* Faulty variant: forgets to unlock.
WriteSSEErrorKeepingLock ==
  /\ handler = "event" /\ mu = "free"
  /\ mu' = "handler"
  /\ sent' = sent \cup {"event"}
  /\ handler' = "stop"
  /\ UNCHANGED <<beat, attempts, flags, headerSet, done>>

\* Holds mu for its three writes, which nothing else can see between.
WriteSSEError ==
  /\ handler = "event" /\ mu = "free"
  /\ sent' = sent \cup {"event"}
  /\ handler' = "stop"
  /\ UNCHANGED <<beat, attempts, flags, mu, headerSet, done>>

\* resp.Error takes no lock.
WriteJSONError ==
  /\ handler = "json"
  /\ sent' = sent \cup {"json"}
  /\ handler' = "stop"
  /\ UNCHANGED <<beat, attempts, flags, mu, headerSet, done>>

\* No answer for a client that left.
GiveUp ==
  /\ handler = "work" /\ gone
  /\ handler' = "stop"
  /\ UNCHANGED <<beat, attempts, flags, mu, headerSet, done, sent>>

Stop ==
  /\ handler = "stop"
  /\ stopped' = TRUE
  /\ handed' = TRUE
  /\ canceled' = (canceled \/ ~handed)
  /\ handler' = "stopping"
  /\ UNCHANGED <<beat, attempts, gone, mu, headerSet, done, sent>>

Return ==
  /\ handler = "stopping" /\ done
  /\ handler' = "returned"
  /\ UNCHANGED <<beat, attempts, flags, mu, headerSet, done, sent>>

-----------------------------------------------------------------------------

Beat == BeatCanceled \/ BeatFires \/ BeatLocks \/ BeatWritesHeader \/ BeatWritesComment

Handler ==
  \/ Hand \/ Joined \/ StreamComment \/ StreamEnds \/ FlushOrError \/ WriteSSEError
  \/ WriteJSONError \/ GiveUp \/ Stop \/ Return

ClientLeaves ==
  /\ ~gone /\ handler # "returned"
  /\ gone' = TRUE
  /\ UNCHANGED <<beat, handler, attempts, handed, stopped, canceled, mu, headerSet, done, sent>>

Next == Beat \/ Handler \/ ClientLeaves

Spec == Init /\ [][Next]_vars

\* Both goroutines run, timers fire, a stream ends some time, and a Go mutex is
\* handed to the one that has waited long.
Fairness ==
  WF_vars(Beat) /\ WF_vars(Handler) /\ WF_vars(StreamEnds) /\ SF_vars(WriteSSEError)

FairSpec == Spec /\ Fairness

-----------------------------------------------------------------------------

\* The shape of the state; done is closed when the goroutine ends.
TypeOK ==
  /\ beat \in {"delay", "tick", "lock", "write", "ended"}
  /\ handler \in {"work", "join", "stream", "event", "json", "stop", "stopping", "returned"}
  /\ attempts \in 0..MaxAttempts
  /\ handed \in BOOLEAN /\ stopped \in BOOLEAN /\ canceled \in BOOLEAN
  /\ gone \in BOOLEAN /\ mu \in {"free", "beat"} /\ headerSet \in BOOLEAN
  /\ done = (beat = "ended")
  /\ sent \subseteq {"header", "comment", "payload", "event", "json"}

\* The goroutine never touches the response while an attempt streams, nor after the
\* handler returned and the context may serve another request.
OneWriter ==
  [][BeatWritesHeader \/ BeatWritesComment
       => handler \notin {"stream", "returned"} /\ "payload" \notin sent]_vars

\* The handler returns and leaves no goroutine behind: neither waits for the other
\* for ever, wherever the timer, the lock, Hand and Stop meet.
BothEnd == <>[](handler = "returned" /\ beat = "ended")

\* What heartbeat_test.go:195 expects: a client that was shown an SSE stream gets an
\* error as an SSE event, and not a JSON body inside the stream.
ErrorEventInStream == ~({"header", "json"} \subseteq sent)

=============================================================================
