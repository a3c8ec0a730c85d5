--------------------------- MODULE TaskScheduler ---------------------------
(***************************************************************************)
(* A scheduled task of internal/task/task.go, from task.Init to the end of *)
(* its loop, while administrators change its interval in                   *)
(* internal/server/handlers/setting.go.  Tasks share no state but the map  *)
(* they are registered in: one is modelled.  The server accepts changes    *)
(* before task.Init has run (cmd/start.go).                                *)
(*                                                                         *)
(* The ticker fires at any time, its interval is a number to tell it from  *)
(* others.  An update is sent on an unbuffered channel with a default: it  *)
(* is taken only by a loop that waits in its select.                       *)
(***************************************************************************)
EXTENDS Naturals, FiniteSets

CONSTANTS
  TkAdmins,     \* administrators that set the interval
  TkIntervals,  \* intervals, in hours; 0 removes the task
  TkExecs,      \* goroutines that may execute it
  TkChanges     \* bound: changes made

ASSUME TkAssumption == TkIntervals \subseteq Nat /\ 0 \in TkIntervals /\ TkChanges \in Nat

VARIABLES
  tkSetting,  \* the setting, as op.SettingSetString saved it
  tkInit,     \* where task.Init stands and the interval it has read
  tkMap,      \* whether tasks has the task
  tkStop,     \* stopCh is closed
  tkLoop,     \* where runTask stands
  tkInterval, \* entry.interval, that of the ticker
  tkRunning,  \* entry.running
  tkExec,     \* goroutine -> where it stands
  tkAdmin,    \* administrator -> where its change stands, and its interval
  tkChanges,  \* changes made
  tkMissed    \* history: an update was refused, or two changes overlapped

tkVars == <<tkSetting, tkInit, tkMap, tkStop, tkLoop, tkInterval, tkRunning, tkExec,
            tkAdmin, tkChanges, tkMissed>>

TkNoChange == [pc |-> "idle", to |-> 0]

TkInit ==
  /\ tkSetting \in TkIntervals
  /\ tkInit = [pc |-> "read", to |-> 0]
  /\ tkMap = FALSE /\ tkStop = FALSE
  /\ tkLoop = "none" /\ tkInterval = 0
  /\ tkRunning = FALSE /\ tkExec = [g \in TkExecs |-> "none"]
  /\ tkAdmin = [a \in TkAdmins |-> TkNoChange] /\ tkChanges = 0 /\ tkMissed = FALSE

TkLoopVars == <<tkLoop, tkInterval, tkRunning, tkExec>>
TkAdminVars == <<tkAdmin, tkChanges, tkMissed>>

-----------------------------------------------------------------------------
(* The start: task.Init, then RUN with what is registered by then.         *)

TkInitRead ==
  /\ tkInit.pc = "read"
  /\ tkInit' = [pc |-> "register", to |-> tkSetting]
  /\ UNCHANGED <<tkSetting, tkMap, tkStop, TkLoopVars, TkAdminVars>>

TkRegister ==
  /\ tkInit.pc = "register"
  /\ tkMap' = (tkInit.to > 0)
  /\ tkInterval' = tkInit.to
  /\ tkInit' = [tkInit EXCEPT !.pc = "run"]
  /\ UNCHANGED <<tkSetting, tkStop, tkLoop, tkRunning, tkExec, TkAdminVars>>

TkRun ==
  /\ tkInit.pc = "run"
  /\ tkLoop' = IF tkMap THEN "start" ELSE "none"
  /\ tkInit' = [tkInit EXCEPT !.pc = "done"]
  /\ UNCHANGED <<tkSetting, tkMap, tkStop, tkInterval, tkRunning, tkExec, TkAdminVars>>

-----------------------------------------------------------------------------
(* runTask.                                                                *)

\* Faulty variant: does not look at the mark.
TkTriggerAlways ==
  /\ tkRunning' = TRUE
  /\ \E g \in TkExecs : tkExec[g] = "none" /\ tkExec' = [tkExec EXCEPT ![g] = "runs"]

\* triggerTask: skipped while the run before is still in progress.
TkTrigger ==
  IF tkRunning THEN UNCHANGED <<tkRunning, tkExec>>
  ELSE /\ tkRunning' = TRUE
       /\ \E g \in TkExecs : tkExec[g] = "none" /\ tkExec' = [tkExec EXCEPT ![g] = "runs"]

\* With runOnStart it is triggered before its ticker is made.
TkLoopStart(runOnStart) ==
  /\ tkLoop = "start"
  /\ IF runOnStart THEN TkTrigger ELSE UNCHANGED <<tkRunning, tkExec>>
  /\ tkLoop' = "select"
  /\ UNCHANGED <<tkSetting, tkInit, tkMap, tkStop, tkInterval, TkAdminVars>>

TkTick ==
  /\ tkLoop = "select"
  /\ tkLoop' = "tick"
  /\ UNCHANGED <<tkSetting, tkInit, tkMap, tkStop, tkInterval, tkRunning, tkExec, TkAdminVars>>

TkTickDone ==
  /\ tkLoop = "tick"
  /\ TkTrigger
  /\ tkLoop' = "select"
  /\ UNCHANGED <<tkSetting, tkInit, tkMap, tkStop, tkInterval, TkAdminVars>>

TkLoopStop ==
  /\ tkLoop = "select" /\ tkStop
  /\ tkLoop' = "gone"
  /\ UNCHANGED <<tkSetting, tkInit, tkMap, tkStop, tkInterval, tkRunning, tkExec, TkAdminVars>>

\* The task returns, or panics; then its mark is cleared.
TkFnEnds(g) ==
  /\ tkExec[g] = "runs"
  /\ tkExec' = [tkExec EXCEPT ![g] = "ends"]
  /\ UNCHANGED <<tkSetting, tkInit, tkMap, tkStop, tkLoop, tkInterval, tkRunning, TkAdminVars>>

TkExecEnds(g) ==
  /\ tkExec[g] = "ends"
  /\ tkExec' = [tkExec EXCEPT ![g] = "none"]
  /\ tkRunning' = FALSE
  /\ UNCHANGED <<tkSetting, tkInit, tkMap, tkStop, tkLoop, tkInterval, TkAdminVars>>

-----------------------------------------------------------------------------
(* setSetting saves the setting, then calls Update.                        *)

TkSet(a, to) ==
  /\ tkAdmin[a].pc = "idle" /\ tkChanges < TkChanges
  /\ tkSetting' = to
  /\ tkAdmin' = [tkAdmin EXCEPT ![a] = [pc |-> "find", to |-> to]]
  /\ tkChanges' = tkChanges + 1
  /\ tkMissed' = (tkMissed \/ \E b \in TkAdmins \ {a} : tkAdmin[b].pc # "idle")
  /\ UNCHANGED <<tkInit, tkMap, tkStop, TkLoopVars>>

TkChanged(a, to) == tkAdmin' = [tkAdmin EXCEPT ![a] = to]

TkNotFound(a) ==
  /\ tkAdmin[a].pc = "find" /\ ~tkMap
  /\ TkChanged(a, TkNoChange)
  /\ tkMissed' = TRUE
  /\ UNCHANGED <<tkSetting, tkInit, tkMap, tkStop, TkLoopVars, tkChanges>>

\* An interval of 0 deletes the task; its loop is told after the lock.
TkDelete(a) ==
  /\ tkAdmin[a].pc = "find" /\ tkMap /\ tkAdmin[a].to = 0
  /\ tkMap' = FALSE
  /\ TkChanged(a, [tkAdmin[a] EXCEPT !.pc = "close"])
  /\ UNCHANGED <<tkSetting, tkInit, tkStop, TkLoopVars, tkChanges, tkMissed>>

TkClose(a) ==
  /\ tkAdmin[a].pc = "close"
  /\ tkStop' = TRUE
  /\ TkChanged(a, TkNoChange)
  /\ UNCHANGED <<tkSetting, tkInit, tkMap, TkLoopVars, tkChanges, tkMissed>>

TkFind(a) ==
  /\ tkAdmin[a].pc = "find" /\ tkMap /\ tkAdmin[a].to > 0
  /\ TkChanged(a, [tkAdmin[a] EXCEPT !.pc = "send"])
  /\ UNCHANGED <<tkSetting, tkInit, tkMap, tkStop, TkLoopVars, tkChanges, tkMissed>>

\* The loop takes the interval and makes a new ticker, or is not waiting.
TkSend(a) ==
  /\ tkAdmin[a].pc = "send" /\ tkLoop = "select"
  /\ tkInterval' = tkAdmin[a].to
  /\ TkChanged(a, TkNoChange)
  /\ UNCHANGED <<tkSetting, tkInit, tkMap, tkStop, tkLoop, tkRunning, tkExec, tkChanges,
                 tkMissed>>

TkSkip(a) ==
  /\ tkAdmin[a].pc = "send" /\ tkLoop # "select"
  /\ TkChanged(a, TkNoChange)
  /\ tkMissed' = TRUE
  /\ UNCHANGED <<tkSetting, tkInit, tkMap, tkStop, TkLoopVars, tkChanges>>

-----------------------------------------------------------------------------
TkStart == TkInitRead \/ TkRegister \/ TkRun
TkLoopStep == (\E onStart \in BOOLEAN : TkLoopStart(onStart)) \/ TkTickDone
TkAdminStep(a) ==
  TkNotFound(a) \/ TkDelete(a) \/ TkClose(a) \/ TkFind(a) \/ TkSend(a) \/ TkSkip(a)

TkNext ==
  \/ TkStart \/ TkLoopStep \/ TkTick \/ TkLoopStop
  \/ \E g \in TkExecs : TkFnEnds(g) \/ TkExecEnds(g)
  \/ \E a \in TkAdmins : TkAdminStep(a) \/ \E to \in TkIntervals : TkSet(a, to)

\* Goroutines go on when they can, and select picks any case that stays ready
\* in the end (at random); a ticker need not fire, nor a task return.
TkFairness ==
  /\ WF_tkVars(TkStart) /\ WF_tkVars(TkLoopStep) /\ SF_tkVars(TkLoopStop)
  /\ \A a \in TkAdmins : WF_tkVars(TkAdminStep(a))

TkSpec == TkInit /\ [][TkNext]_tkVars /\ TkFairness

-----------------------------------------------------------------------------
(* Properties.                                                             *)

\* A task never runs twice at once, whatever its startup run, its ticks and the
\* ends of its runs interleave; and a loop keeps the interval that the setting
\* says unless Update reported that it was refused, or two changes overlapped.
TkSound ==
  /\ \A g, h \in TkExecs : tkExec[g] # "none" /\ tkExec[h] # "none" => g = h
  /\ tkLoop = "select" /\ ~tkStop /\ ~tkMissed /\ (\A a \in TkAdmins : tkAdmin[a].pc = "idle")
       => tkInterval = tkSetting

\* A task whose interval was set to 0 comes to rest: its loop ends, also when it
\* was started, triggered or updated in the meantime.
TkStops == [](tkInit.pc = "done" /\ ~tkMap => <>(tkLoop \in {"none", "gone"}))
=============================================================================
