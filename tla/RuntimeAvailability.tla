------------------------ MODULE RuntimeAvailability ------------------------
(***************************************************************************)
(* The process-wide health table of internal/relay/availability            *)
(* (runtime.go, reset_channel.go) and the relay attempts that use it.      *)
(*                                                                         *)
(* The table has one entry per provider and one per (provider, model).     *)
(* An attempt acquires a candidate - and, for every expired cooldown it    *)
(* crosses, a half-open lease -, talks to the upstream, records at most    *)
(* one verdict (a model-capacity verdict is recorded by two calls) and     *)
(* releases its lease.  Every function of the package holds one mutex, so  *)
(* each is one step; attempts interleave between the calls.                *)
(*                                                                         *)
(* Deadlines are kept as the time left until them, so that time can pass   *)
(* without bound in a finite state space.  A missing entry is the zero     *)
(* entry: every reader treats both alike (stateAt(nil) is AVAILABLE) and   *)
(* every writer but recordSuccess creates the zero entry first.            *)
(***************************************************************************)
EXTENDS Integers

CONSTANTS
  Channels,               \* providers
  Models,                 \* upstream model names
  Provider,               \* the model field of a provider-wide key
  Requests,               \* goroutines that run relay attempts
  MaxStreak,              \* first streak from which both tables are flat
  ProviderCooldown,       \* providerCooldown, as a table
  ModelCooldown,          \* modelCooldown, as a table
  SuspectWindow,          \* suspectEscalationWindow
  MaxExplicitCooldown,    \* maxExplicitCooldown
  RetryAfters             \* the Retry-After hints upstreams send; 0 is none

ASSUME AvailabilityAssumption ==
  /\ Provider \notin Models
  /\ MaxStreak \in Nat \ {0, 1}
  /\ ProviderCooldown \in [1..MaxStreak -> Nat \ {0}]
  /\ ModelCooldown \in [1..MaxStreak -> Nat \ {0}]
  /\ SuspectWindow \in Nat
  /\ MaxExplicitCooldown \in Nat \ {0}
  /\ RetryAfters \subseteq Nat
  /\ 0 \in RetryAfters

VARIABLES
  entry,    \* runtimeKey -> health entry
  pc,       \* where each attempt is
  cand,     \* the candidate an attempt runs on
  lease     \* Lease.keys of an attempt

vars == <<entry, pc, cand, lease>>

Candidates == Channels \X Models
Keys == Channels \X (Models \cup {Provider})
providerKey(c) == <<c[1], Provider>>
modelKey(c) == c
NoCandidate == <<>>
KeysOf(c) == {providerKey(c), modelKey(c)}

States == {"Available", "Suspect", "Cooldown", "HalfOpen"}

Entry == [state: States,      \* entry.state
          left: Nat,          \* time until cooldownUntil, 0 once it is past
          streak: 0..MaxStreak,  \* failureStreak, cut off at MaxStreak
          window: Nat,        \* a second ambiguous failure escalates while > 0
          inFlight: BOOLEAN]  \* halfOpenInFlight

NoEntry ==
  [state |-> "Available", left |-> 0, streak |-> 0, window |-> 0, inFlight |-> FALSE]

SuspectEntry ==
  [state |-> "Suspect", left |-> 0, streak |-> 0, window |-> SuspectWindow + 1,
   inFlight |-> FALSE]

Min2(a, b) == IF a < b THEN a ELSE b

stateAt(e) ==
  CASE e.state = "Cooldown" -> IF e.left > 0 \/ e.inFlight THEN "Cooldown" ELSE "HalfOpen"
    [] e.state = "HalfOpen" -> IF e.inFlight THEN "Cooldown" ELSE "HalfOpen"
    [] OTHER -> e.state

\* combineState: the worse of the provider's and the model's state.
CandidateState(c) ==
  LET both == {stateAt(entry[k]) : k \in KeysOf(c)}
  IN  IF "Cooldown" \in both THEN "Cooldown"
      ELSE IF "HalfOpen" \in both THEN "HalfOpen"
      ELSE IF "Suspect" \in both THEN "Suspect"
      ELSE "Available"

Acquirable(c) == \A k \in KeysOf(c) : stateAt(entry[k]) # "Cooldown"

\* CandidateInfo: the later of the two deadlines.
CooldownUntil(c) ==
  LET p == entry[providerKey(c)].left
      m == entry[modelKey(c)].left
  IN  IF m > p THEN m ELSE p

\* Faulty variant: reports the last candidate to recover instead of the first.
LatestRecovery(group) ==
  IF \A c \in group : CandidateState(c) = "Cooldown" /\ CooldownUntil(c) > 0
  THEN CHOOSE t \in {CooldownUntil(c) : c \in group} :
         \A c \in group : t >= CooldownUntil(c)
  ELSE 0

\* nearestRuntimeRecovery over a group of candidates; 0 when there is none to
\* report because some candidate is not in a timed cooldown.
nearestRuntimeRecovery(group) ==
  IF /\ group # {}
     /\ \A c \in group : CandidateState(c) = "Cooldown" /\ CooldownUntil(c) > 0
  THEN CHOOSE t \in {CooldownUntil(c) : c \in group} :
         \A c \in group : t <= CooldownUntil(c)
  ELSE 0

explicitCooldown(retryAfter) == Min2(retryAfter, MaxExplicitCooldown)

recordCooldown(e, table, retryAfter) ==
  LET streak == Min2(e.streak + 1, MaxStreak)
  IN  [state |-> "Cooldown",
       left |-> IF retryAfter > 0 THEN explicitCooldown(retryAfter) ELSE table[streak],
       streak |-> streak,
       window |-> 0,
       inFlight |-> FALSE]

-----------------------------------------------------------------------------

Init ==
  /\ entry = [k \in Keys |-> NoEntry]
  /\ pc = [r \in Requests |-> "idle"]
  /\ cand = [r \in Requests |-> NoCandidate]
  /\ lease = [r \in Requests |-> {}]

\* Faulty variant: leases the provider before it looks at the model, and does
\* not give the lease back when the model turns out to be cooling.
LeaseBeforeCheck(r, c) ==
  LET p == providerKey(c)
      m == modelKey(c)
      half == {k \in KeysOf(c) : stateAt(entry[k]) = "HalfOpen"}
      trial == IF stateAt(entry[m]) = "Cooldown" THEN {p} \cap half ELSE half
      ok == stateAt(entry[m]) # "Cooldown"
  IN  /\ pc[r] = "idle"
      /\ stateAt(entry[p]) # "Cooldown"
      /\ entry' = [k \in Keys |-> IF k \in trial
                     THEN [entry[k] EXCEPT !.state = "HalfOpen", !.inFlight = TRUE]
                     ELSE entry[k]]
      /\ pc' = IF ok THEN [pc EXCEPT ![r] = "attempt"] ELSE pc
      /\ cand' = IF ok THEN [cand EXCEPT ![r] = c] ELSE cand
      /\ lease' = IF ok THEN [lease EXCEPT ![r] = trial] ELSE lease

\* Faulty variant: a trial starts from a clean streak.
LeaseForgetsStreak(r, c) ==
  LET trial == {k \in KeysOf(c) : stateAt(entry[k]) = "HalfOpen"}
  IN  /\ pc[r] = "idle"
      /\ Acquirable(c)
      /\ entry' = [k \in Keys |-> IF k \in trial
                     THEN [NoEntry EXCEPT !.state = "HalfOpen", !.inFlight = TRUE]
                     ELSE entry[k]]
      /\ pc' = [pc EXCEPT ![r] = "attempt"]
      /\ cand' = [cand EXCEPT ![r] = c]
      /\ lease' = [lease EXCEPT ![r] = trial]

\* All keys are checked before any is leased; a refused candidate changes nothing.
AcquireCandidate(r, c) ==
  LET trial == {k \in KeysOf(c) : stateAt(entry[k]) = "HalfOpen"}
  IN  /\ pc[r] = "idle"
      /\ Acquirable(c)
      /\ entry' = [k \in Keys |-> IF k \in trial
                     THEN [entry[k] EXCEPT !.state = "HalfOpen", !.inFlight = TRUE]
                     ELSE entry[k]]
      /\ pc' = [pc EXCEPT ![r] = "attempt"]
      /\ cand' = [cand EXCEPT ![r] = c]
      /\ lease' = [lease EXCEPT ![r] = trial]

\* Faulty variant: an attempt without a verdict keeps its trial in flight.
NeutralKeepsTrial(r) ==
  /\ pc[r] \in {"attempt", "done"}
  /\ pc' = [pc EXCEPT ![r] = "idle"]
  /\ cand' = [cand EXCEPT ![r] = NoCandidate]
  /\ lease' = [lease EXCEPT ![r] = {}]
  /\ UNCHANGED entry

\* The deferred ReleaseLease, after a verdict or with none (a neutral outcome).
ReleaseLease(r) ==
  /\ pc[r] \in {"attempt", "done"}
  /\ entry' = [k \in Keys |-> IF k \in lease[r] /\ entry[k].state = "HalfOpen"
                 THEN [entry[k] EXCEPT !.inFlight = FALSE]
                 ELSE entry[k]]
  /\ pc' = [pc EXCEPT ![r] = "idle"]
  /\ cand' = [cand EXCEPT ![r] = NoCandidate]
  /\ lease' = [lease EXCEPT ![r] = {}]

Verdict(r, from, to) ==
  /\ pc[r] \in from
  /\ pc' = [pc EXCEPT ![r] = to]
  /\ UNCHANGED <<cand, lease>>

RecordProviderFailure(r, retryAfter) ==
  /\ Verdict(r, {"attempt"}, "done")
  /\ entry' = [entry EXCEPT ![providerKey(cand[r])] =
                 recordCooldown(@, ProviderCooldown, retryAfter)]

\* A first-token timeout or a failure of the committed stream.
RecordModelFailure(r) ==
  /\ Verdict(r, {"attempt"}, "done")
  /\ entry' = [entry EXCEPT ![modelKey(cand[r])] = recordCooldown(@, ModelCooldown, 0)]

\* The fast failover path of runSameChannelAttempts records model capacity
\* first; the runtime updater sees the same attempt next.
RecordModelCapacity(r) ==
  /\ Verdict(r, {"attempt"}, "capacity")
  /\ entry' = [entry EXCEPT ![modelKey(cand[r])] = recordCooldown(@, ModelCooldown, 0)]

EnsureModelFailure(r, retryAfter) ==
  /\ Verdict(r, {"attempt", "capacity"}, "done")
  /\ entry' = [entry EXCEPT ![modelKey(cand[r])] =
                 IF @.state = "Cooldown" /\ @.left > 0
                 THEN IF retryAfter > 0
                      THEN [@ EXCEPT !.left = explicitCooldown(retryAfter)]
                      ELSE @
                 ELSE recordCooldown(@, ModelCooldown, retryAfter)]

\* Faulty variant: ambiguous evidence leaves the deadline of the entry in place.
SuspectKeepsDeadline(r) ==
  /\ Verdict(r, {"attempt"}, "done")
  /\ entry' = [entry EXCEPT ![modelKey(cand[r])] =
                 [@ EXCEPT !.state = "Suspect", !.window = SuspectWindow + 1]]

RecordModelSuspect(r) ==
  /\ Verdict(r, {"attempt"}, "done")
  /\ entry' = [entry EXCEPT ![modelKey(cand[r])] =
                 IF @.state = "Suspect" /\ @.window > 0
                 THEN recordCooldown(@, ModelCooldown, 0)
                 ELSE SuspectEntry]

RecordSuccess(r) ==
  /\ Verdict(r, {"attempt"}, "done")
  /\ entry' = [k \in Keys |-> IF k \in KeysOf(cand[r]) THEN NoEntry ELSE entry[k]]

\* A channel configuration change forgets the channel's entries; leases of
\* attempts in flight survive it.
ResetChannel(ch) ==
  /\ entry' = [k \in Keys |-> IF k[1] = ch THEN NoEntry ELSE entry[k]]
  /\ UNCHANGED <<pc, cand, lease>>

Passed(t) == IF t > 0 THEN t - 1 ELSE 0

\* One unit of time passes.
Tick ==
  /\ entry' = [k \in Keys |-> [entry[k] EXCEPT !.left = Passed(@), !.window = Passed(@)]]
  /\ UNCHANGED <<pc, cand, lease>>

Finish(r) ==
  \/ ReleaseLease(r)
  \/ \E retryAfter \in RetryAfters : RecordProviderFailure(r, retryAfter)
  \/ RecordModelFailure(r)
  \/ RecordModelCapacity(r)
  \/ \E retryAfter \in RetryAfters : EnsureModelFailure(r, retryAfter)
  \/ RecordModelSuspect(r)
  \/ RecordSuccess(r)

Next ==
  \/ \E r \in Requests : Finish(r) \/ \E c \in Candidates : AcquireCandidate(r, c)
  \/ \E ch \in Channels : ResetChannel(ch)
  \/ Tick

Spec == Init /\ [][Next]_vars

\* Time passes, and every attempt ends: its wires have timeouts, a canceled
\* context ends the rest, and the lease is released by a deferred call.
Fairness == WF_vars(Tick) /\ \A r \in Requests : WF_vars(Finish(r))

FairSpec == Spec /\ Fairness

-----------------------------------------------------------------------------

\* Type correctness of the table and of the attempts that use it: an attempt has
\* a candidate and leases keys of that candidate only, an idle request has neither.
TypeOK ==
  /\ entry \in [Keys -> Entry]
  /\ pc \in [Requests -> {"idle", "attempt", "capacity", "done"}]
  /\ cand \in [Requests -> Candidates \cup {NoCandidate}]
  /\ lease \in [Requests -> SUBSET Keys]
  /\ \A r \in Requests :
       IF pc[r] = "idle" THEN cand[r] = NoCandidate /\ lease[r] = {}
       ELSE cand[r] \in Candidates /\ lease[r] \subseteq KeysOf(cand[r])

\* The fields of an entry agree with its state: only a cooldown has a deadline
\* ahead of it, only a half-open entry has a trial in flight, only a suspect one
\* can escalate, and exactly the entries that came from a cooldown remember a
\* failure streak.
EntryConsistent ==
  \A k \in Keys :
    LET e == entry[k]
    IN  /\ e.left > 0 => e.state = "Cooldown"
        /\ e.inFlight => e.state = "HalfOpen"
        /\ e.window > 0 => e.state = "Suspect"
        /\ e.streak > 0 <=> e.state \in {"Cooldown", "HalfOpen"}

\* A half-open entry is closed to other requests only while some attempt holds a
\* lease on it.  Refused acquisitions, verdicts of other attempts, configuration
\* resets and releases of leases that are out of date never leave an entry that
\* no running attempt will reopen (AcquireCandidate, ReleaseLease).
HalfOpenTrialIsHeld ==
  \A k \in Keys : entry[k].inFlight => \E r \in Requests : k \in lease[r]

\* A trial that fails sends its entry to a later cooldown stage than the first:
\* no step from HALF_OPEN back to COOLDOWN starts again from a streak of one
\* (recordCooldown after AcquireCandidate kept the streak).
RelapseAdvancesStage ==
  [][\A k \in Keys :
       entry[k].state = "HalfOpen" /\ entry'[k].state = "Cooldown"
         => entry'[k].streak >= 2]_vars

\* The Retry-After a client is given when every candidate of its group is cooling
\* (nearestRuntimeRecovery) is not later than needed: while it is more than one
\* unit ahead, the passing of that unit opens no candidate of the group.
RetryAfterIsEarliest ==
  [][Tick /\ nearestRuntimeRecovery(Candidates) > 1
       => \A c \in Candidates : ~Acquirable(c)']_vars

\* What docs/plans/adaptive-relay-routing-shared-health-policy.md:281 says of a
\* half-open entry: at most one real request holds its lease.  Only leases of
\* attempts that have not given their verdict yet are counted.
HalfOpenSingleFlight ==
  \A k \in Keys :
    LET trials == {r \in Requests : pc[r] = "attempt" /\ k \in lease[r]}
    IN  entry[k].state = "HalfOpen" => \A r1, r2 \in trials : r1 = r2

\* No candidate is sidelined for good: cooldowns run out, trials end, and a
\* candidate that is refused now can be acquired later, however the attempts on
\* the other models of its provider go.
NoPermanentSideline ==
  \A c \in Candidates : []<>Acquirable(c)

=============================================================================
