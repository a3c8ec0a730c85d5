---------------------------- MODULE SiteOutlier ----------------------------
(***************************************************************************)
(* The task that retires outliers among an account's managed channels and  *)
(* brings them back (task/site_outlier.go, op/site_outlier.go), beside the *)
(* synchronisations and projections of the account.  What the relay's      *)
(* window says of a channel and what a probe answers is any of what they   *)
(* may; a probe takes long, so the steps around it are separate.  The      *)
(* goroutine SiTask uses saw for the retired channels it has not looked at *)
(* yet, todo for the candidates, want for what an outage still takes off,  *)
(* and made to remember that this round had one.                           *)
(***************************************************************************)
EXTENDS SiteSync

CONSTANT SiRecovered    \* cfg.recoverStreak

ASSUME OutlierAssumption == SiRecovered \in Nat \ {0}

TaskAt(pc) == siProc[SiTask].pc = pc
TaskNow(pc) == [siProc[SiTask] EXCEPT !.pc = pc]
RetiredChannels == {c \in SiChannels : siRetired[c] # SiNone}
\* A channel op.ChannelGet finds enabled, and one that can be probed.
IsOn(c) == siCache[c] # SiNone /\ siCache[c].on
Probeable(c) == siCache[c] # SiNone /\ siCache[c].models # {} /\ \E k \in siCache[c].keys : k[2]
Siblings == Ends(siProc[SiTask].bound)

OutlierStart ==
  /\ TaskAt("idle") /\ Spend(1)
  /\ Quiet(SiTask, [Idle EXCEPT !.pc = "recover", !.saw = RetiredChannels])
  /\ UNCHANGED <<siRows, siChannelVars>>

\* recoverRetired: the row of a deleted channel goes; another channel is probed, unless
\* it has no key or model, or Cloudflare blocked it a short while ago.
Recover(c) ==
  LET rest == [TaskNow("recover") EXCEPT !.saw = @ \ {c}] IN
  /\ TaskAt("recover")
  /\ IF siCache[c] = SiNone
     THEN siRetired' = [siRetired EXCEPT ![c] = SiNone] /\ Wrote(SiTask, rest)
     ELSE /\ \/ Quiet(SiTask, rest)
             \/ Probeable(c) /\ Quiet(SiTask, [rest EXCEPT !.pc = "mark", !.cur = c])
          /\ UNCHANGED siRetired
  /\ UNCHANGED <<siRows, siDb, siCache, siBindings, siItems, siLeft>>

\* SiteChannelOutlierMarkProbe.
Mark ==
  LET c == siProc[SiTask].cur IN
  /\ TaskAt("mark")
  /\ \E success \in BOOLEAN :
       /\ siRetired' = [siRetired EXCEPT ![c] = IF success THEN @ + 1 ELSE 0]
       /\ Wrote(SiTask, TaskNow(IF success /\ siRetired[c] + 1 >= SiRecovered THEN "enable" ELSE "recover"))
  /\ UNCHANGED <<siRows, siDb, siCache, siBindings, siItems, siLeft>>
Enable ==
  LET c == siProc[SiTask].cur IN
  /\ TaskAt("enable")
  /\ Quiet(SiTask, IF siCache[c] = SiNone THEN TaskNow("recover") ELSE Switching(c, TRUE, TaskNow("clear")))
  /\ UNCHANGED <<siRows, siChannelVars, siLeft>>
Clear ==
  /\ TaskAt("clear")
  /\ siRetired' = [siRetired EXCEPT ![siProc[SiTask].cur] = SiNone]
  /\ Wrote(SiTask, TaskNow("recover"))
  /\ UNCHANGED <<siRows, siDb, siCache, siBindings, siItems, siLeft>>

\* The bindings are listed, and the enabled channels whose windows look bad are judged.
Gather ==
  /\ TaskAt("recover") /\ siProc[SiTask].saw = {}
  /\ \E bad \in SUBSET {c \in Ends(Entries) : IsOn(c)} :
       Quiet(SiTask, [Idle EXCEPT !.pc = "judge", !.bound = Entries, !.todo = bad])
  /\ UNCHANGED <<siRows, siChannelVars, siLeft>>

\* Faulty variant: the candidate counts among the channels that are on.
OutlierCountingItself(c) == Probeable(c) /\ \E d \in Siblings : IsOn(d)

\* No sibling looks healthy: once a round, a probe that says unavailable confirms an
\* outage, and all that is on is retired.  A sibling looks healthy: a probe of the
\* candidate that says so retires it, unless it is the last channel that is on.
Outlier(c) ==
  /\ Probeable(c) /\ \E d \in Siblings \ {c} : IsOn(d)
  /\ Cardinality({d \in Siblings : IsOn(d)}) > 1
Outage(c) == siProc[SiTask].made = {} /\ \E d \in Siblings : IsOn(d) /\ Probeable(d)
Judge(c) ==
  LET rest == [TaskNow("judge") EXCEPT !.todo = @ \ {c}]
      outage == [rest EXCEPT !.made = siProc[SiTask].bound] IN
  /\ TaskAt("judge")
  /\ \/ \E d \in Siblings \ {c} : IsOn(d) /\ Quiet(SiTask, rest)
     \/ Quiet(SiTask, outage)
     \/ Outage(c) /\ Quiet(SiTask, [outage EXCEPT !.pc = "outage", !.want = Siblings])
     \/ Outlier(c) /\ Quiet(SiTask, [rest EXCEPT !.pc = "retire", !.cur = c, !.clean = TRUE])
  /\ UNCHANGED <<siRows, siChannelVars, siLeft>>
Judged ==
  /\ TaskAt("judge") /\ siProc[SiTask].todo = {}
  /\ Quiet(SiTask, Idle)
  /\ UNCHANGED <<siRows, siChannelVars, siLeft>>

\* SiteChannelOutlierRetire, then ChannelEnabledManaged, of one candidate ...
Retired(c, to) ==
  /\ siRetired' = [siRetired EXCEPT ![c] = 0]
  /\ Wrote(SiTask, [to EXCEPT !.pc = "disable", !.cur = c])
Retire ==
  /\ TaskAt("retire") /\ Retired(siProc[SiTask].cur, siProc[SiTask])
  /\ UNCHANGED <<siRows, siDb, siCache, siBindings, siItems, siLeft>>
\* ... or of every channel an outage finds on (handleSiteOutage).
TakeOff(c) ==
  LET rest == [siProc[SiTask] EXCEPT !.want = @ \ {c}] IN
  /\ TaskAt("outage")
  /\ IF IsOn(c) THEN Retired(c, rest)
     ELSE /\ Quiet(SiTask, [rest EXCEPT !.pc = IF rest.want = {} THEN "judge" ELSE "outage"])
          /\ UNCHANGED siRetired
  /\ UNCHANGED <<siRows, siDb, siCache, siBindings, siItems, siLeft>>
AfterDisable == TaskNow(IF siProc[SiTask].want = {} THEN "judge" ELSE "outage")
Disable ==
  /\ TaskAt("disable") /\ Quiet(SiTask, Switching(siProc[SiTask].cur, FALSE, AfterDisable))
  /\ UNCHANGED <<siRows, siChannelVars, siLeft>>

\* An error of the database is logged and the task goes on, except that without the
\* bindings the round is over.
OutlierFail ==
  /\ Break
  /\ \/ TaskAt("recover") /\ siProc[SiTask].saw = {} /\ Quiet(SiTask, Idle)
     \/ TaskAt("recover") /\ siProc[SiTask].saw # {} /\ Quiet(SiTask, [TaskNow("recover") EXCEPT !.saw = {}])
     \/ (TaskAt("mark") \/ TaskAt("clear")) /\ Quiet(SiTask, TaskNow("recover"))
     \/ (TaskAt("retire") \/ TaskAt("disable")) /\ Quiet(SiTask, AfterDisable)
     \/ /\ TaskAt("switch")
        /\ Quiet(SiTask, [TaskNow(IF siProc[SiTask].switch.to THEN "recover" ELSE siProc[SiTask].switch.back)
                            EXCEPT !.switch = NoSwitch])
  /\ UNCHANGED <<siRows, siChannelVars>>

Outliers ==
  \/ OutlierStart \/ Gather \/ Mark \/ Enable \/ Clear
  \/ \E c \in siProc[SiTask].saw : Recover(c)
  \/ \E c \in siProc[SiTask].todo : Judge(c)
  \/ Judged \/ Retire \/ Disable
  \/ \E c \in siProc[SiTask].want : TakeOff(c)
  \/ SiSwitch(SiTask) \/ OutlierFail

SoNext == SiNext \/ Outliers
SoSpec == SiInit /\ [][SoNext]_siVars

-----------------------------------------------------------------------------
(* The last of the channels a round listed that is on is not retired as an *)
(* outlier of its own, however long its probe took: where the round saw no *)
(* outage, and nobody else changed anything since the channel was judged,  *)
(* another is on when it has been switched off in the table and the cache. *)
SparesOne ==
  /\ TaskAt("cache") /\ ~siProc[SiTask].switch.to /\ siProc'[SiTask].pc = "judge"
  /\ siProc[SiTask].clean /\ siProc[SiTask].made = {}
  => \E c \in Siblings : IsOn(c)'
RetireSparesOne == [][SparesOne]_siVars
=============================================================================
