------------------------------ MODULE MCStreams ------------------------------
(* Small instances of what happens around one request and its streamed     *)
(* answer: the translation of both, the early heartbeat and the stream     *)
(* processor; and of a scheduled task.  They share no state here, so each  *)
(* behaviour exercises one, `part`; the heartbeat, the processor and the   *)
(* task it does not exercise stand where they stand when they have ended.  *)
EXTENDS EarlyHeartbeat, StreamProcessor, RequestTranslate, StreamTranslate,
        TaskScheduler

VARIABLE part

HeartbeatEnded ==
  /\ beat = "ended" /\ handler = "returned" /\ attempts = 1
  /\ handed = TRUE /\ stopped = TRUE /\ canceled = TRUE /\ gone = FALSE
  /\ mu = "free" /\ headerSet = FALSE /\ done = TRUE
  /\ sent = {"header", "payload"}

ProcessorEnded ==
  /\ spRaw = TRUE /\ spTimed = FALSE /\ spMade = 0
  /\ spLoop = [pc |-> "ended", item |-> Broken("eof")]
  /\ spEvents = <<>> /\ spClosed = TRUE
  /\ spReader = [pc |-> "ended", item |-> Broken("eof")]
  /\ spResults = <<>> /\ spGone = FALSE /\ spRun = "empty"
  /\ spPayload = FALSE /\ spFirst = TRUE /\ spTerminal = FALSE /\ spWritten = <<>>

TaskEnded ==
  /\ tkSetting = 0 /\ tkInit = [pc |-> "done", to |-> 0]
  /\ tkMap = FALSE /\ tkStop = FALSE /\ tkLoop = "none" /\ tkInterval = 0
  /\ tkRunning = FALSE /\ tkExec = [g \in TkExecs |-> "none"]
  /\ tkAdmin = [a \in TkAdmins |-> TkNoChange] /\ tkChanges = TkChanges /\ tkMissed = FALSE

StreamsInit ==
  /\ part \in {"heartbeat", "processor", "request", "answer", "task"}
  /\ IF part = "heartbeat" THEN Init ELSE HeartbeatEnded
  /\ IF part = "processor" THEN SpInit ELSE ProcessorEnded
  /\ IF part = "task" THEN TkInit ELSE TaskEnded
  /\ RtInit
  /\ StreamInit
  /\ part = "answer" \/ (stUp = "chat" /\ stClient = "chat")

StreamsNext ==
  /\ \/ part = "heartbeat" /\ Next /\ UNCHANGED <<spVars, rtVars, streamVars, tkVars>>
     \/ part = "processor" /\ SpNext /\ UNCHANGED <<vars, rtVars, streamVars, tkVars>>
     \/ part = "request" /\ RtNext /\ UNCHANGED <<vars, spVars, streamVars, tkVars>>
     \/ part = "answer" /\ StreamNext /\ UNCHANGED <<vars, spVars, rtVars, tkVars>>
     \/ part = "task" /\ TkNext /\ UNCHANGED <<vars, spVars, rtVars, streamVars>>
  /\ UNCHANGED part

\* Of the heartbeat, the processor and the task no action is enabled in the
\* behaviours of another part, so fairness asks nothing of them there.
StreamsSpec ==
  /\ StreamsInit /\ [][StreamsNext]_<<part, vars, spVars, rtVars, streamVars, tkVars>>
  /\ Fairness /\ SpFairness /\ TkFairness

\* Whatever is started ends: a request's handler and its heartbeat, where neither waits
\* for the other for ever (heartbeat.go), every goroutine of the stream processor once Run
\* has returned or the client is gone (stream/processor.go), and the loop of a task whose
\* interval was set to 0, also when it was started or updated in the meantime (task.go).
AllEnd == BothEnd /\ SpAllEnd /\ TkStops
=============================================================================
