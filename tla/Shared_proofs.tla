--------------------------- MODULE Shared_proofs ---------------------------
(***************************************************************************)
(* What attempts share: the health of providers and models, for any        *)
(* providers, models, attempts and cooldown tables; the in-flight counter  *)
(* of a channel, for any number of goroutines, any limit and any           *)
(* configuration changes; and the ledger of credentials, for any           *)
(* credentials and bursts.                                                 *)
(*                                                                         *)
(* TypeOK, EntryConsistent and HalfOpenTrialIsHeld are inductive together: *)
(* the streak of a half-open entry is positive because it was positive as  *)
(* a cooldown, and a trial in flight belongs to a lease because only the   *)
(* acquisition that hands out the lease sets it.                           *)
(*                                                                         *)
(* LoadNotOverstated compares a counter with a set of goroutines that may  *)
(* work on other counters, so it is not inductive. CountedByHolders        *)
(* strengthens it: the counter in the map is at most the number of         *)
(* goroutines that hold a slot and refer to that very counter. A new       *)
(* counter starts at zero, a successful swap adds a holder with the unit,  *)
(* and a goroutine that leaves without giving its unit back found the      *)
(* counter at zero or gone from the map.                                   *)
(*                                                                         *)
(* What the ledger promises rests on FairInv: nobody is ahead of the       *)
(* watermark or of the sequence, and the run that the ledger counts is the *)
(* real one.  EqualShare needs Level as well: as long as no preference     *)
(* decided, who is eligible stands at the watermark or one below it, because *)
(* a candidate behind comes before one at the watermark.                   *)
(***************************************************************************)
EXTENDS MCShared, FiniteSetTheorems, WellFoundedInduction, TLAPS

(* ---- the health of providers and models (RuntimeAvailability) ---- *)

\* The entries that satisfy EntryConsistent.
Consistent(e) ==
  /\ e.left > 0 => e.state = "Cooldown"
  /\ e.inFlight => e.state = "HalfOpen"
  /\ e.window > 0 => e.state = "Suspect"
  /\ e.streak > 0 <=> e.state \in {"Cooldown", "HalfOpen"}

\* A new verdict puts a well-formed entry into a well-formed cooldown.
LEMMA RecordCooldown ==
  ASSUME NEW e \in Entry, NEW table \in [1..MaxStreak -> Nat \ {0}],
         NEW retryAfter \in RetryAfters
  PROVE  /\ recordCooldown(e, table, retryAfter) \in Entry
         /\ Consistent(recordCooldown(e, table, retryAfter))
         /\ ~recordCooldown(e, table, retryAfter).inFlight
         /\ recordCooldown(e, table, retryAfter).streak >= 1
         /\ e.streak >= 1 => recordCooldown(e, table, retryAfter).streak >= 2
<1> DEFINE stage == Min2(e.streak + 1, MaxStreak)
<1>1. stage \in 1..MaxStreak /\ (e.streak >= 1 => stage >= 2)
  BY SMTT(30), AvailabilityAssumption DEF Entry, Min2
<1>2. table[stage] \in Nat \ {0}
  BY <1>1
<1>3. explicitCooldown(retryAfter) \in Nat
  BY AvailabilityAssumption DEF explicitCooldown, Min2
<1> HIDE DEF stage
<1>4. recordCooldown(e, table, retryAfter) =
        [state |-> "Cooldown",
         left |-> IF retryAfter > 0 THEN explicitCooldown(retryAfter) ELSE table[stage],
         streak |-> stage, window |-> 0, inFlight |-> FALSE]
  BY DEF recordCooldown, stage
<1>5. QED
  BY <1>1, <1>2, <1>3, <1>4, AvailabilityAssumption DEF Entry, States, Consistent

RaInv == TypeOK /\ EntryConsistent /\ HalfOpenTrialIsHeld

\* EntryConsistent, entry by entry.
LEMMA ConsistentEntries == EntryConsistent <=> \A k \in Keys : Consistent(entry[k])
BY DEF EntryConsistent, Consistent

\* A key nothing is known of has no trial and no deadline.
LEMMA NoEntryIsWellFormed == NoEntry \in Entry /\ Consistent(NoEntry) /\ ~NoEntry.inFlight
BY AvailabilityAssumption DEF NoEntry, Entry, States, Consistent

\* A candidate is judged by its provider's entry and its model's: two keys of the
\* table.
LEMMA CandidateKeys ==
  ASSUME NEW c \in Candidates
  PROVE  /\ providerKey(c) \in Keys
         /\ modelKey(c) \in Keys
         /\ KeysOf(c) \subseteq Keys
BY DEF Candidates, Keys, providerKey, modelKey, KeysOf

\* Nothing that RaInv is about changes with pc and cand when entries only get
\* well-formed values that are in flight no more often than before.
LEMMA QuietUpdate ==
  ASSUME EntryConsistent, HalfOpenTrialIsHeld, entry' \in [Keys -> Entry],
         \A k \in Keys : Consistent(entry'[k]),
         \A k \in Keys : entry'[k].inFlight => entry[k].inFlight,
         UNCHANGED lease
  PROVE  EntryConsistent' /\ HalfOpenTrialIsHeld'
BY DEF EntryConsistent, Consistent, HalfOpenTrialIsHeld

\* A verdict replaces one entry by a well-formed one without a trial in flight.
LEMMA VerdictStep ==
  ASSUME RaInv, NEW r \in Requests, NEW from, "idle" \notin from,
         NEW to \in {"capacity", "done"}, Verdict(r, from, to),
         NEW k \in Keys, NEW e \in Entry, Consistent(e), e.inFlight => entry[k].inFlight,
         entry' = [entry EXCEPT ![k] = e]
  PROVE  RaInv'
<1>1. TypeOK'
  <2>1. cand[r] \in Candidates
    BY DEF RaInv, TypeOK, Verdict
  <2>2. QED
    BY <2>1 DEF RaInv, TypeOK, Verdict
<1>2. \A j \in Keys : entry'[j] = IF j = k THEN e ELSE entry[j]
  BY DEF RaInv, TypeOK
<1>3. QED
  BY <1>1, <1>2, QuietUpdate, ConsistentEntries DEF RaInv, TypeOK, Verdict

\* AcquireCandidate leases only half-open entries nobody has, for the attempt that
\* then runs; a candidate it refuses keeps what was there.
LEMMA AcquireStep ==
  ASSUME RaInv, NEW r \in Requests, NEW c \in Candidates, AcquireCandidate(r, c)
  PROVE  RaInv'
<1> DEFINE trial == {k \in KeysOf(c) : stateAt(entry[k]) = "HalfOpen"}
<1>1. trial \in SUBSET Keys /\ trial \subseteq KeysOf(c)
  BY CandidateKeys
<1>2. \A k \in trial : entry[k].state \in {"Cooldown", "HalfOpen"} /\ entry[k].left = 0
  <2> SUFFICES ASSUME NEW k \in trial
               PROVE  entry[k].state \in {"Cooldown", "HalfOpen"} /\ entry[k].left = 0
    OBVIOUS
  <2>1. entry[k] \in Entry /\ Consistent(entry[k]) /\ stateAt(entry[k]) = "HalfOpen"
    BY <1>1, ConsistentEntries DEF RaInv, TypeOK
  <2>2. QED
    BY <2>1 DEF Entry, States, Consistent, stateAt
<1>3. /\ entry' = [k \in Keys |-> IF k \in trial
                     THEN [entry[k] EXCEPT !.state = "HalfOpen", !.inFlight = TRUE]
                     ELSE entry[k]]
      /\ lease' = [lease EXCEPT ![r] = trial]
      /\ cand' = [cand EXCEPT ![r] = c]
      /\ pc' = [pc EXCEPT ![r] = "attempt"]
      /\ pc[r] = "idle"
  BY DEF AcquireCandidate
<1> HIDE DEF trial
<1>4. entry' \in [Keys -> Entry] /\ \A k \in Keys : Consistent(entry'[k])
  <2> SUFFICES ASSUME NEW k \in Keys
               PROVE  entry'[k] \in Entry /\ Consistent(entry'[k])
    BY <1>3
  <2>1. entry[k] \in Entry /\ Consistent(entry[k])
    BY ConsistentEntries DEF RaInv, TypeOK
  <2>2. CASE k \in trial
    <3>1. entry'[k] = [state |-> "HalfOpen", left |-> entry[k].left,
                       streak |-> entry[k].streak, window |-> entry[k].window,
                       inFlight |-> TRUE]
      BY <1>3, <2>1, <2>2 DEF Entry
    <3>2. QED
      BY <1>2, <2>1, <2>2, <3>1 DEF Entry, States, Consistent
  <2>3. CASE k \notin trial
    BY <1>3, <2>1, <2>3
  <2>4. QED
    BY <2>2, <2>3
<1>5. TypeOK'
  BY <1>1, <1>3, <1>4 DEF RaInv, TypeOK
<1>6. HalfOpenTrialIsHeld'
  <2> SUFFICES ASSUME NEW k \in Keys, entry'[k].inFlight
               PROVE  \E q \in Requests : k \in lease'[q]
    BY DEF HalfOpenTrialIsHeld
  <2>1. CASE k \in trial
    BY <1>3, <2>1 DEF RaInv, TypeOK
  <2>2. CASE k \notin trial
    <3>1. entry[k].inFlight
      BY <1>3, <2>2
    <3>2. PICK q \in Requests : k \in lease[q]
      BY <3>1 DEF RaInv, HalfOpenTrialIsHeld
    <3>3. CASE q # r
      BY <1>3, <3>2, <3>3 DEF RaInv, TypeOK
    <3>4. CASE q = r
      BY <1>3, <3>2, <3>4 DEF RaInv, TypeOK
    <3>5. QED
      BY <3>3, <3>4
  <2>3. QED
    BY <2>1, <2>2
<1>7. QED
  BY <1>4, <1>5, <1>6 DEF RaInv, EntryConsistent, Consistent

\* ReleaseLease reopens the trials of the lease it is given and touches nothing else.
LEMMA ReleaseStep ==
  ASSUME RaInv, NEW r \in Requests, ReleaseLease(r)
  PROVE  RaInv'
<1>1. \A k \in Keys : entry[k] \in Entry /\ Consistent(entry[k])
  BY ConsistentEntries DEF RaInv, TypeOK
<1>2. ASSUME NEW k \in Keys
      PROVE  /\ entry'[k] \in Entry /\ Consistent(entry'[k])
             /\ entry'[k].inFlight => entry[k].inFlight /\ k \notin lease[r]
  <2>1. CASE k \in lease[r] /\ entry[k].state = "HalfOpen"
    <3>1. entry'[k] = [entry[k] EXCEPT !.inFlight = FALSE]
      BY <2>1 DEF ReleaseLease
    <3>2. QED
      BY <1>1, <3>1 DEF Entry, Consistent
  <2>2. CASE ~(k \in lease[r] /\ entry[k].state = "HalfOpen")
    <3>1. entry'[k] = entry[k]
      BY <2>2 DEF ReleaseLease
    <3>2. QED
      BY <1>1, <2>2, <3>1 DEF Consistent
  <2>3. QED
    BY <2>1, <2>2
<1>3. entry' \in [Keys -> Entry]
  BY <1>2 DEF ReleaseLease
<1>4. TypeOK'
  BY <1>3 DEF RaInv, TypeOK, ReleaseLease
<1>5. HalfOpenTrialIsHeld'
  <2> SUFFICES ASSUME NEW k \in Keys, entry'[k].inFlight
               PROVE  \E q \in Requests : k \in lease'[q]
    BY DEF HalfOpenTrialIsHeld
  <2>1. PICK q \in Requests : k \in lease[q]
    BY <1>2 DEF RaInv, HalfOpenTrialIsHeld
  <2>2. q # r
    BY <1>2, <2>1
  <2>3. QED
    BY <2>1, <2>2 DEF RaInv, TypeOK, ReleaseLease
<1>6. QED
  BY <1>2, <1>4, <1>5, ConsistentEntries DEF RaInv, EntryConsistent, Consistent

\* Every verdict of an attempt in flight preserves the invariant.
LEMMA FinishStep ==
  ASSUME RaInv, NEW r \in Requests, Finish(r)
  PROVE  RaInv'
<1> USE AvailabilityAssumption
<1>1. ASSUME ReleaseLease(r) PROVE RaInv'
  BY <1>1, ReleaseStep
<1>2. ASSUME NEW retryAfter \in RetryAfters, RecordProviderFailure(r, retryAfter)
      PROVE RaInv'
  <2>1. cand[r] \in Candidates
    BY <1>2 DEF RaInv, TypeOK, RecordProviderFailure, Verdict
  <2> DEFINE k == providerKey(cand[r])
             e == recordCooldown(entry[k], ProviderCooldown, retryAfter)
  <2>2. k \in Keys /\ entry[k] \in Entry
    BY <2>1, CandidateKeys DEF RaInv, TypeOK
  <2>3. e \in Entry /\ Consistent(e) /\ ~e.inFlight
    BY <2>2, RecordCooldown
  <2>4. entry' = [entry EXCEPT ![k] = e] /\ Verdict(r, {"attempt"}, "done")
    BY <1>2, <2>2 DEF RecordProviderFailure, RaInv, TypeOK
  <2> HIDE DEF k, e
  <2>5. QED
    BY <2>2, <2>3, <2>4, VerdictStep
<1>3. ASSUME RecordModelFailure(r) \/ RecordModelCapacity(r) PROVE RaInv'
  <2>1. cand[r] \in Candidates
    BY <1>3 DEF RaInv, TypeOK, RecordModelFailure, RecordModelCapacity, Verdict
  <2> DEFINE k == modelKey(cand[r])
             e == recordCooldown(entry[k], ModelCooldown, 0)
  <2>2. k \in Keys /\ entry[k] \in Entry
    BY <2>1, CandidateKeys DEF RaInv, TypeOK
  <2>3. e \in Entry /\ Consistent(e) /\ ~e.inFlight
    BY <2>2, RecordCooldown
  <2>4. PICK to \in {"done", "capacity"} :
          entry' = [entry EXCEPT ![k] = e] /\ Verdict(r, {"attempt"}, to)
    BY <1>3, <2>2 DEF RecordModelFailure, RecordModelCapacity, RaInv, TypeOK
  <2> HIDE DEF k, e
  <2>5. QED
    BY <2>2, <2>3, <2>4, VerdictStep
<1>4. ASSUME NEW retryAfter \in RetryAfters, EnsureModelFailure(r, retryAfter)
      PROVE RaInv'
  <2>1. cand[r] \in Candidates
    BY <1>4 DEF RaInv, TypeOK, EnsureModelFailure, Verdict
  <2> DEFINE k == modelKey(cand[r])
             new == recordCooldown(entry[k], ModelCooldown, retryAfter)
             e == IF entry[k].state = "Cooldown" /\ entry[k].left > 0
                  THEN IF retryAfter > 0
                       THEN [entry[k] EXCEPT !.left = explicitCooldown(retryAfter)]
                       ELSE entry[k]
                  ELSE new
  <2>2. k \in Keys /\ entry[k] \in Entry /\ Consistent(entry[k])
    BY <2>1, CandidateKeys, ConsistentEntries DEF RaInv, TypeOK
  <2>3. new \in Entry /\ Consistent(new) /\ ~new.inFlight
    BY <2>2, RecordCooldown
  <2>4. explicitCooldown(retryAfter) \in Nat
    BY DEF explicitCooldown, Min2
  <2> HIDE DEF new
  <2>5. e \in Entry /\ Consistent(e) /\ (e.inFlight => entry[k].inFlight)
    BY <2>2, <2>3, <2>4 DEF Entry, States, Consistent
  <2>6. entry' = [entry EXCEPT ![k] = e] /\ Verdict(r, {"attempt", "capacity"}, "done")
    BY <1>4, <2>2 DEF EnsureModelFailure, RaInv, TypeOK, new
  <2> HIDE DEF k, e
  <2>7. QED
    BY <2>2, <2>5, <2>6, VerdictStep
<1>5. ASSUME RecordModelSuspect(r) PROVE RaInv'
  <2>1. cand[r] \in Candidates
    BY <1>5 DEF RaInv, TypeOK, RecordModelSuspect, Verdict
  <2> DEFINE k == modelKey(cand[r])
             new == recordCooldown(entry[k], ModelCooldown, 0)
             soft == SuspectEntry
             e == IF entry[k].state = "Suspect" /\ entry[k].window > 0 THEN new ELSE soft
  <2>2. k \in Keys /\ entry[k] \in Entry
    BY <2>1, CandidateKeys DEF RaInv, TypeOK
  <2>3. new \in Entry /\ Consistent(new) /\ ~new.inFlight
    BY <2>2, RecordCooldown
  <2>4. soft \in Entry /\ Consistent(soft) /\ ~soft.inFlight
    BY DEF SuspectEntry, Entry, States, Consistent
  <2>5. entry' = [entry EXCEPT ![k] = e] /\ Verdict(r, {"attempt"}, "done")
    BY <1>5, <2>2 DEF RecordModelSuspect, RaInv, TypeOK
  <2>6. e = new \/ e = soft
    OBVIOUS
  <2> HIDE DEF k, e, new, soft
  <2>7. QED
    BY <2>2, <2>3, <2>4, <2>5, <2>6, VerdictStep
<1>6. ASSUME RecordSuccess(r) PROVE RaInv'
  <2>1. \A k \in Keys : entry'[k] = NoEntry \/ entry'[k] = entry[k]
    BY <1>6 DEF RecordSuccess
  <2>2. entry' \in [Keys -> Entry]
    BY <1>6, NoEntryIsWellFormed DEF RecordSuccess, RaInv, TypeOK
  <2>3. EntryConsistent' /\ HalfOpenTrialIsHeld'
    BY <1>6, <2>1, <2>2, NoEntryIsWellFormed, ConsistentEntries, QuietUpdate
       DEF RaInv, RecordSuccess, Verdict
  <2>4. TypeOK'
    BY <1>6, <2>2 DEF RaInv, TypeOK, RecordSuccess, Verdict
  <2>5. QED
    BY <2>3, <2>4 DEF RaInv
<1>7. QED
  BY <1>1, <1>2, <1>3, <1>4, <1>5, <1>6 DEF Finish

\* Time passing and ResetChannel leave no trial without its attempt.
LEMMA EnvironmentStep ==
  ASSUME RaInv, Tick \/ \E ch \in Channels : ResetChannel(ch)
  PROVE  RaInv'
<1>1. \A k \in Keys : entry[k] \in Entry /\ Consistent(entry[k])
  BY ConsistentEntries DEF RaInv, TypeOK
<1>2. ASSUME NEW k \in Keys
      PROVE  /\ entry'[k] \in Entry /\ Consistent(entry'[k])
             /\ entry'[k].inFlight => entry[k].inFlight
  <2>1. CASE Tick
    <3>1. entry'[k] = [state |-> entry[k].state, left |-> Passed(entry[k].left),
                       streak |-> entry[k].streak, window |-> Passed(entry[k].window),
                       inFlight |-> entry[k].inFlight]
      BY <1>1, <2>1 DEF Tick, Entry
    <3>2. QED
      BY <1>1, <3>1 DEF Entry, Consistent, Passed
  <2>2. CASE \E ch \in Channels : ResetChannel(ch)
    BY <1>1, <2>2, NoEntryIsWellFormed DEF ResetChannel
  <2>3. QED
    BY <2>1, <2>2
<1>3. entry' \in [Keys -> Entry] /\ UNCHANGED <<pc, cand, lease>>
  BY <1>2 DEF Tick, ResetChannel
<1>4. EntryConsistent' /\ HalfOpenTrialIsHeld'
  BY <1>2, <1>3, QuietUpdate DEF RaInv
<1>5. QED
  BY <1>3, <1>4 DEF RaInv, TypeOK

\* The conjunction is inductive: every step that starts in it ends in it.
THEOREM RaInvariance == Spec => []RaInv
<1>1. Init => RaInv
  BY NoEntryIsWellFormed
     DEF Init, RaInv, TypeOK, EntryConsistent, HalfOpenTrialIsHeld, NoEntry
<1>2. RaInv /\ [Next]_vars => RaInv'
  <2> SUFFICES ASSUME RaInv, [Next]_vars
               PROVE  RaInv'
    OBVIOUS
  <2>1. CASE \E r \in Requests : Finish(r)
    BY <2>1, FinishStep
  <2>2. CASE \E r \in Requests, c \in Candidates : AcquireCandidate(r, c)
    BY <2>2, AcquireStep
  <2>3. CASE Tick \/ \E ch \in Channels : ResetChannel(ch)
    BY <2>3, EnvironmentStep
  <2>4. CASE UNCHANGED vars
    BY <2>4 DEF vars, RaInv, TypeOK, EntryConsistent, HalfOpenTrialIsHeld
  <2>5. QED
    BY <2>1, <2>2, <2>3, <2>4 DEF Next
<1>3. QED
  BY <1>1, <1>2, PTL DEF Spec

\* The table and the attempts keep their types.
THEOREM RaTypeCorrect == Spec => []TypeOK
BY RaInvariance, PTL DEF RaInv

\* A deadline, a trial, a suspect window and a streak only occur in the states
\* they belong to, whatever attempts overlap.
THEOREM EntriesConsistent == Spec => []EntryConsistent
BY RaInvariance, PTL DEF RaInv

\* No entry stays closed for a trial that no running attempt holds: each attempt
\* that ends reopens what it leased, or somebody's verdict replaced it.
THEOREM NoLostTrial == Spec => []HalfOpenTrialIsHeld
BY RaInvariance, PTL DEF RaInv

\* Every failed recovery trial is punished with a later stage than the first.
THEOREM RelapseAdvances == Spec => RelapseAdvancesStage
<1> DEFINE Relapse == \A k \in Keys :
             entry[k].state = "HalfOpen" /\ entry'[k].state = "Cooldown"
               => entry'[k].streak >= 2
<1>1. ASSUME RaInv, [Next]_vars PROVE [Relapse]_vars
  <2> SUFFICES ASSUME NEW k \in Keys, Next,
                      entry[k].state = "HalfOpen", entry'[k].state = "Cooldown"
               PROVE  entry'[k].streak >= 2
    BY <1>1
  <2>1. entry[k] \in Entry /\ entry[k].streak >= 1
    BY <1>1 DEF RaInv, TypeOK, EntryConsistent, Entry
  <2>2. CASE \E r \in Requests : Finish(r)
    <3>1. PICK r \in Requests : Finish(r)
      BY <2>2
    <3>2. \A table \in {ProviderCooldown, ModelCooldown}, retryAfter \in RetryAfters :
            recordCooldown(entry[k], table, retryAfter).streak >= 2
      BY <2>1, RecordCooldown, AvailabilityAssumption
    <3>3. 0 \in RetryAfters
      BY AvailabilityAssumption
    <3>4. CASE ReleaseLease(r) \/ RecordSuccess(r)
      <4>1. \/ entry'[k] = [entry[k] EXCEPT !.inFlight = FALSE]
            \/ entry'[k] = entry[k]
            \/ entry'[k] = NoEntry
        BY <3>4 DEF ReleaseLease, RecordSuccess
      <4>2. entry'[k].state # "Cooldown"
        BY <2>1, <4>1 DEF Entry, NoEntry
      <4>3. QED
        BY <4>2
    <3>5. CASE ~(ReleaseLease(r) \/ RecordSuccess(r))
      <4>1. cand[r] \in Candidates
        BY <1>1, <3>1, <3>5 DEF RaInv, TypeOK, Finish, RecordProviderFailure,
             RecordModelFailure, RecordModelCapacity, EnsureModelFailure,
             RecordModelSuspect, Verdict
      <4> DEFINE p == providerKey(cand[r])
                 m == modelKey(cand[r])
      <4>2. p \in Keys /\ m \in Keys
        BY <4>1, CandidateKeys
      <4>3. ASSUME NEW retryAfter \in RetryAfters, RecordProviderFailure(r, retryAfter)
            PROVE  entry'[k].streak >= 2
        <5>1. entry'[k] = entry[k]
              \/ entry'[k] = recordCooldown(entry[k], ProviderCooldown, retryAfter)
          BY <1>1, <4>2, <4>3 DEF RecordProviderFailure, RaInv, TypeOK
        <5>2. QED
          BY <3>2, <5>1
      <4>4. ASSUME RecordModelFailure(r) \/ RecordModelCapacity(r)
            PROVE  entry'[k].streak >= 2
        <5>1. entry'[k] = entry[k]
              \/ entry'[k] = recordCooldown(entry[k], ModelCooldown, 0)
          BY <1>1, <4>2, <4>4 DEF RecordModelFailure, RecordModelCapacity, RaInv, TypeOK
        <5>2. QED
          BY <3>2, <3>3, <5>1
      <4>5. ASSUME NEW retryAfter \in RetryAfters, EnsureModelFailure(r, retryAfter)
            PROVE  entry'[k].streak >= 2
        <5>1. entry'[k] = entry[k]
              \/ entry'[k] = recordCooldown(entry[k], ModelCooldown, retryAfter)
          BY <1>1, <4>2, <4>5 DEF EnsureModelFailure, RaInv, TypeOK
        <5>2. QED
          BY <3>2, <5>1
      <4>6. ASSUME RecordModelSuspect(r)
            PROVE  entry'[k].streak >= 2
        <5>1. entry'[k] = entry[k] \/ entry'[k] = SuspectEntry
          BY <1>1, <4>2, <4>6 DEF RecordModelSuspect, RaInv, TypeOK
        <5>2. QED
          BY <5>1 DEF SuspectEntry
      <4>7. QED
        BY <3>1, <3>5, <4>3, <4>4, <4>5, <4>6 DEF Finish
    <3>6. QED
      BY <3>4, <3>5
  <2>3. CASE \E r \in Requests, c \in Candidates : AcquireCandidate(r, c)
    <3>1. \/ entry'[k] = [entry[k] EXCEPT !.state = "HalfOpen", !.inFlight = TRUE]
          \/ entry'[k] = entry[k]
      BY <2>3 DEF AcquireCandidate
    <3>2. QED
      BY <2>1, <3>1 DEF Entry
  <2>4. CASE Tick \/ \E ch \in Channels : ResetChannel(ch)
    <3>1. CASE Tick
      <4>1. entry'[k] = [state |-> entry[k].state, left |-> Passed(entry[k].left),
                         streak |-> entry[k].streak, window |-> Passed(entry[k].window),
                         inFlight |-> entry[k].inFlight]
        BY <2>1, <3>1 DEF Tick, Entry
      <4>2. QED
        BY <4>1
    <3>2. CASE \E ch \in Channels : ResetChannel(ch)
      BY <3>2 DEF ResetChannel, NoEntry
    <3>3. QED
      BY <2>4, <3>1, <3>2
  <2>5. QED
    BY <2>2, <2>3, <2>4 DEF Next
<1>2. QED
  BY <1>1, RaInvariance, PTL DEF Spec, RelapseAdvancesStage

\* A set of naturals has a least.
LEMMA LeastTime ==
  ASSUME NEW T \in SUBSET Nat, T # {}
  PROVE  \E x \in T : \A y \in T : x <= y
<1>1. PICK x \in T : \A y \in T : <<y, x>> \notin OpToRel(<, Nat)
  BY NatLessThanWellFounded, WFMin
<1>2. \A y \in T : ~(y < x)
  BY <1>1 DEF OpToRel
<1> QED  BY <1>2

\* The recovery of a group is not later than any of its deadlines.
LEMMA RecoveryIsFirst ==
  ASSUME TypeOK, NEW group \in SUBSET Candidates, nearestRuntimeRecovery(group) > 1
  PROVE  \A c \in group : CooldownUntil(c) > 1
<1> DEFINE T == {CooldownUntil(c) : c \in group}
<1>1. group # {} /\ \A c \in group : CandidateState(c) = "Cooldown" /\ CooldownUntil(c) > 0
  BY DEF nearestRuntimeRecovery
<1>2. nearestRuntimeRecovery(group) = CHOOSE t \in T : \A c \in group : t <= CooldownUntil(c)
  BY <1>1 DEF nearestRuntimeRecovery
<1>3. \A c \in Candidates : CooldownUntil(c) \in Nat
  BY DEF TypeOK, Candidates, Keys, Entry, CooldownUntil, providerKey, modelKey
<1>4. \E t \in T : \A c \in group : t <= CooldownUntil(c)
  <2>1. T \in SUBSET Nat /\ T # {}
    BY <1>1, <1>3
  <2>2. PICK t \in T : \A y \in T : t <= y
    <3> HIDE DEF T
    <3> QED  BY <2>1, LeastTime
  <2> QED  BY <2>2
<1>5. \A c \in group : nearestRuntimeRecovery(group) <= CooldownUntil(c)
  BY <1>2, <1>4
<1>6. nearestRuntimeRecovery(group) \in Nat
  BY <1>2, <1>3, <1>4
<1> QED  BY <1>3, <1>5, <1>6

\* The Retry-After is no later than needed: while it is more than one unit ahead, each
\* candidate has a deadline that outlasts the unit, and that keeps its entry in cooldown.
THEOREM RetryAfterIsInTime == Spec => RetryAfterIsEarliest
<1>1. ASSUME RaInv, Tick, nearestRuntimeRecovery(Candidates) > 1, NEW c \in Candidates
      PROVE  ~Acquirable(c)'
  <2>1. TypeOK /\ EntryConsistent
    BY <1>1 DEF RaInv
  <2>2. CooldownUntil(c) > 1
    BY <1>1, <2>1, RecoveryIsFirst
  <2>3. providerKey(c) \in Keys /\ modelKey(c) \in Keys
    BY DEF Candidates, Keys, providerKey, modelKey
  <2>4. PICK k \in KeysOf(c) : entry[k].left > 1
    BY <2>2 DEF CooldownUntil, KeysOf
  <2>5. k \in Keys /\ entry[k] \in Entry
    BY <2>1, <2>3 DEF KeysOf, TypeOK
  <2>6. entry[k].state = "Cooldown" /\ entry[k].left \in Nat
    BY <2>1, <2>4, <2>5 DEF EntryConsistent, Entry
  <2>7. entry'[k] = [entry[k] EXCEPT !.left = Passed(@), !.window = Passed(@)]
    BY <1>1, <2>5 DEF Tick
  <2>8. entry'[k].state = "Cooldown" /\ entry'[k].left > 0
    BY <2>4, <2>5, <2>6, <2>7 DEF Entry, Passed
  <2>9. stateAt(entry'[k]) = "Cooldown"
    BY <2>8 DEF stateAt
  <2> QED  BY <2>4, <2>9 DEF Acquirable
<1>2. RaInv => [Tick /\ nearestRuntimeRecovery(Candidates) > 1 => \A c \in Candidates : ~Acquirable(c)']_vars
  BY <1>1
<1> QED  BY <1>2, RaInvariance, PTL DEF RetryAfterIsEarliest, Spec

(* ---- the in-flight counter of a channel (ChannelConcurrency) ---- *)

\* The goroutines whose slot would be given back to counter c.
HoldersOf(c) == {g \in Holding : counter[g] = c}

\* Every unit of the counter in the map belongs to a goroutine that refers to it.
CountedByHolders == mapped # Missing => value[mapped] <= Cardinality(HoldersOf(mapped))

\* A swap of an acquisition only ever installs a value within the limit.
SwapsWithinLimit ==
  maxConcurrency > 0 =>
    \A g \in Goroutines : at[g] = "swap" => current[g] < maxConcurrency

\* A swap of a release only ever takes from a positive value.
ReleasesPositive == \A g \in Goroutines : at[g] = "swapRelease" => current[g] > 0

CcInv ==
  /\ CcTypeOK
  /\ CounterWithinLimit
  /\ SwapsWithinLimit
  /\ ReleasesPositive
  /\ CountedByHolders

\* The holders of any counter, and all holders, are finite and counted.
LEMMA HoldersFinite ==
  ASSUME NEW c
  PROVE  /\ IsFiniteSet(HoldersOf(c)) /\ Cardinality(HoldersOf(c)) \in Nat
         /\ IsFiniteSet(Holding) /\ Cardinality(Holding) \in Nat
         /\ Cardinality(HoldersOf(c)) <= Cardinality(Holding)
BY ConcurrencyAssumption, FS_Subset, FS_CardinalityType DEF HoldersOf, Holding

\* Everything of the invariant but the count of holders.
LEMMA ControlStep ==
  ASSUME CcTypeOK, CounterWithinLimit, SwapsWithinLimit, ReleasesPositive, [CcNext]_ccVars
  PROVE  (CcTypeOK /\ CounterWithinLimit /\ SwapsWithinLimit /\ ReleasesPositive)'
<1> USE ConcurrencyAssumption
    DEF CcTypeOK, CounterWithinLimit, SwapsWithinLimit, ReleasesPositive, InCall,
        Goto, Return
<1>0. maxConcurrency' = maxConcurrency
  BY DEF CcNext, ccVars
<1> USE <1>0
<1>1. ASSUME NEW g \in Goroutines, FetchCounter(g)
      PROVE  (CcTypeOK /\ CounterWithinLimit /\ SwapsWithinLimit /\ ReleasesPositive)'
  BY <1>1 DEF FetchCounter, Garbage
<1>2. ASSUME NEW g \in Goroutines, AddUnlimited(g)
      PROVE  (CcTypeOK /\ CounterWithinLimit /\ SwapsWithinLimit /\ ReleasesPositive)'
  BY <1>2 DEF AddUnlimited
<1>3. ASSUME NEW g \in Goroutines, Load(g)
      PROVE  (CcTypeOK /\ CounterWithinLimit /\ SwapsWithinLimit /\ ReleasesPositive)'
  BY <1>3 DEF Load
<1>4. ASSUME NEW g \in Goroutines, Refuse(g)
      PROVE  (CcTypeOK /\ CounterWithinLimit /\ SwapsWithinLimit /\ ReleasesPositive)'
  BY <1>4 DEF Refuse
<1>5. ASSUME NEW g \in Goroutines, Swap(g)
      PROVE  (CcTypeOK /\ CounterWithinLimit /\ SwapsWithinLimit /\ ReleasesPositive)'
  BY <1>5 DEF Swap
<1>6. ASSUME NEW g \in Goroutines, FetchForRelease(g)
      PROVE  (CcTypeOK /\ CounterWithinLimit /\ SwapsWithinLimit /\ ReleasesPositive)'
  BY <1>6 DEF FetchForRelease
<1>7. ASSUME NEW g \in Goroutines, NothingToRelease(g)
      PROVE  (CcTypeOK /\ CounterWithinLimit /\ SwapsWithinLimit /\ ReleasesPositive)'
  BY <1>7 DEF NothingToRelease
<1>8. ASSUME NEW g \in Goroutines, LoadRelease(g)
      PROVE  (CcTypeOK /\ CounterWithinLimit /\ SwapsWithinLimit /\ ReleasesPositive)'
  BY <1>8 DEF LoadRelease
<1>9. ASSUME NEW g \in Goroutines, SwapRelease(g)
      PROVE  (CcTypeOK /\ CounterWithinLimit /\ SwapsWithinLimit /\ ReleasesPositive)'
  BY <1>9 DEF SwapRelease
<1>10. ASSUME NEW g \in Goroutines, RemoveCounter(g)
       PROVE  (CcTypeOK /\ CounterWithinLimit /\ SwapsWithinLimit /\ ReleasesPositive)'
  BY <1>10 DEF RemoveCounter
<1>11. ASSUME ResetConcurrency
       PROVE  (CcTypeOK /\ CounterWithinLimit /\ SwapsWithinLimit /\ ReleasesPositive)'
  BY <1>11 DEF ResetConcurrency
<1>12. CASE UNCHANGED ccVars
  BY <1>12 DEF ccVars
<1>13. QED
  BY <1>1, <1>2, <1>3, <1>4, <1>5, <1>6, <1>7, <1>8, <1>9, <1>10, <1>11, <1>12
     DEF CcNext, TryAcquireChannel, ReleaseChannel

\* A step that keeps the map and all values, and every holder of the counter in the map,
\* keeps the count.
LEMMA HoldersKept ==
  ASSUME CcTypeOK, CountedByHolders, UNCHANGED <<mapped, value>>,
         mapped # Missing => HoldersOf(mapped) \subseteq HoldersOf(mapped)'
  PROVE  CountedByHolders'
<1> SUFFICES ASSUME mapped # Missing
             PROVE  value[mapped] <= Cardinality(HoldersOf(mapped)')
  BY DEF CountedByHolders, HoldersOf
<1>1. IsFiniteSet(HoldersOf(mapped)')
  BY ConcurrencyAssumption, FS_Subset DEF HoldersOf, Holding
<1>2. Cardinality(HoldersOf(mapped)) <= Cardinality(HoldersOf(mapped)')
  BY <1>1, FS_Subset
<1>3. /\ Cardinality(HoldersOf(mapped)) \in Nat /\ Cardinality(HoldersOf(mapped)') \in Nat
      /\ value[mapped] \in Nat
  BY <1>1, HoldersFinite, FS_CardinalityType DEF CcTypeOK
<1>4. QED
  BY <1>2, <1>3 DEF CountedByHolders

\* The holders of a counter are at least what they were, plus one goroutine.
LEMMA HolderAdded ==
  ASSUME CcTypeOK, NEW c \in Counters, NEW g \in Goroutines, g \notin HoldersOf(c),
         HoldersOf(c) \cup {g} \subseteq HoldersOf(c)'
  PROVE  Cardinality(HoldersOf(c)') >= Cardinality(HoldersOf(c)) + 1
<1>1. IsFiniteSet(HoldersOf(c)')
  BY ConcurrencyAssumption, FS_Subset DEF HoldersOf, Holding
<1>2. /\ IsFiniteSet(HoldersOf(c)) /\ IsFiniteSet(HoldersOf(c) \cup {g})
      /\ Cardinality(HoldersOf(c) \cup {g}) = Cardinality(HoldersOf(c)) + 1
  BY HoldersFinite, FS_AddElement
<1>3. Cardinality(HoldersOf(c) \cup {g}) <= Cardinality(HoldersOf(c)')
  BY <1>1, FS_Subset
<1>4. QED
  BY <1>1, <1>2, <1>3, FS_CardinalityType

\* The holders of a counter are at least what they were, minus one goroutine.
LEMMA HolderRemoved ==
  ASSUME CcTypeOK, NEW c \in Counters, NEW g \in Goroutines,
         HoldersOf(c) \ {g} \subseteq HoldersOf(c)'
  PROVE  Cardinality(HoldersOf(c)') >= Cardinality(HoldersOf(c)) - 1
<1>1. IsFiniteSet(HoldersOf(c)')
  BY ConcurrencyAssumption, FS_Subset DEF HoldersOf, Holding
<1>2. /\ IsFiniteSet(HoldersOf(c)) /\ Cardinality(HoldersOf(c)) \in Nat
      /\ IsFiniteSet(HoldersOf(c) \ {g})
      /\ Cardinality(HoldersOf(c) \ {g}) >= Cardinality(HoldersOf(c)) - 1
  <2>1. IsFiniteSet(HoldersOf(c)) /\ Cardinality(HoldersOf(c)) \in Nat
    BY HoldersFinite
  <2>2. /\ IsFiniteSet(HoldersOf(c) \ {g})
        /\ Cardinality(HoldersOf(c) \ {g})
             = IF g \in HoldersOf(c) THEN Cardinality(HoldersOf(c)) - 1
               ELSE Cardinality(HoldersOf(c))
    BY <2>1, FS_RemoveElement
  <2>3. QED
    BY <2>1, <2>2
<1>3. Cardinality(HoldersOf(c) \ {g}) <= Cardinality(HoldersOf(c)')
  BY <1>1, FS_Subset
<1>4. QED
  BY <1>1, <1>2, <1>3, FS_CardinalityType

\* Every step keeps the counter in the map covered by the goroutines that hold it.
LEMMA CountStep ==
  ASSUME CcInv, [CcNext]_ccVars
  PROVE  CountedByHolders'
<1> USE DEF CcTypeOK, InCall, Goto, Return
<1>1. ASSUME NEW g \in Goroutines, FetchCounter(g)
      PROVE  CountedByHolders'
  <2>1. CASE mapped # Missing
    BY <1>1, <2>1, HoldersKept DEF CcInv, FetchCounter, HoldersOf, Holding
  <2>2. CASE mapped = Missing
    <3>1. mapped' \in Counters /\ value'[mapped'] = 0
      BY <1>1, <2>2 DEF FetchCounter, Garbage, CcInv
    <3>2. IsFiniteSet(HoldersOf(mapped)')
      BY ConcurrencyAssumption, FS_Subset DEF HoldersOf, Holding
    <3>3. QED
      BY <3>1, <3>2, FS_CardinalityType DEF CountedByHolders
  <2>3. QED
    BY <2>1, <2>2
<1>2. ASSUME NEW g \in Goroutines, AddUnlimited(g) \/ Swap(g)
      PROVE  CountedByHolders'
  <2>1. CASE UNCHANGED value
    BY <1>2, <2>1, HoldersKept DEF CcInv, AddUnlimited, Swap, HoldersOf, Holding
  <2>2. CASE value' # value
    <3>1. /\ value' = [value EXCEPT ![counter[g]] = @ + 1]
          /\ at[g] \in {"load", "swap"} /\ at' = [at EXCEPT ![g] = "holding"]
          /\ UNCHANGED <<mapped, counter>>
      BY <1>2, <2>2 DEF CcInv, AddUnlimited, Swap
    <3> SUFFICES ASSUME NEW c \in Counters, c = mapped
                 PROVE  value'[c] <= Cardinality(HoldersOf(c)')
      BY <3>1 DEF CountedByHolders, HoldersOf, CcInv
    <3>0. value[c] \in Nat /\ value[c] <= Cardinality(HoldersOf(c))
      BY ConcurrencyAssumption DEF CcInv, CountedByHolders
    <3>2. HoldersOf(c) \subseteq HoldersOf(c)'
      BY <3>1 DEF CcInv, HoldersOf, Holding
    <3>3. CASE counter[g] = c
      <4>1. g \notin HoldersOf(c) /\ HoldersOf(c) \cup {g} \subseteq HoldersOf(c)'
        BY <3>1, <3>2, <3>3 DEF CcInv, HoldersOf, Holding
      <4>2. value'[c] = value[c] + 1
        BY <3>1, <3>2, <3>3 DEF CcInv
      <4>3. Cardinality(HoldersOf(c)') \in Nat /\ Cardinality(HoldersOf(c)) \in Nat
        BY ConcurrencyAssumption, FS_Subset, FS_CardinalityType DEF HoldersOf, Holding
      <4>4. Cardinality(HoldersOf(c)') >= Cardinality(HoldersOf(c)) + 1
        BY <3>2, <4>1, HolderAdded DEF CcInv
      <4>5. QED
        BY <3>0, <4>2, <4>3, <4>4
    <3>4. CASE counter[g] # c
      <4>1. value'[c] = value[c]
        BY <3>1, <3>2, <3>4 DEF CcInv
      <4>2. IsFiniteSet(HoldersOf(c)')
        BY ConcurrencyAssumption, FS_Subset DEF HoldersOf, Holding
      <4>3. Cardinality(HoldersOf(c)) <= Cardinality(HoldersOf(c)')
        BY <3>2, <4>2, FS_Subset
      <4>4. Cardinality(HoldersOf(c)) \in Nat /\ Cardinality(HoldersOf(c)') \in Nat
        BY <4>2, HoldersFinite, FS_CardinalityType DEF CcInv
      <4>5. QED
        BY <3>0, <4>1, <4>3, <4>4
    <3>5. QED
      BY <3>3, <3>4
  <2>3. QED
    BY <2>1, <2>2
<1>3. ASSUME NEW g \in Goroutines, Load(g) \/ Refuse(g) \/ FetchForRelease(g) \/ LoadRelease(g)
      PROVE  CountedByHolders'
  BY <1>3, HoldersKept
     DEF CcInv, Load, Refuse, FetchForRelease, LoadRelease, HoldersOf, Holding
<1>4. ASSUME NEW g \in Goroutines, NothingToRelease(g)
      PROVE  CountedByHolders'
  \* A goroutine that leaves held nothing of the counter in the map, or left it at zero.
  <2>1. CASE mapped # Missing /\ counter[g] = mapped
    <3>1. value'[mapped'] = 0
      BY <1>4, <2>1 DEF CcInv, NothingToRelease
    <3>2. IsFiniteSet(HoldersOf(mapped)')
      BY ConcurrencyAssumption, FS_Subset DEF HoldersOf, Holding
    <3>3. QED
      BY <3>1, <3>2, FS_CardinalityType DEF CountedByHolders
  <2>2. CASE mapped = Missing \/ counter[g] # mapped
    BY <1>4, <2>2, HoldersKept DEF CcInv, NothingToRelease, HoldersOf, Holding
  <2>3. QED
    BY <2>1, <2>2
<1>5. ASSUME NEW g \in Goroutines, SwapRelease(g)
      PROVE  CountedByHolders'
  <2>1. CASE UNCHANGED value
    <3>1. Goto(g, "swapRelease", "loadRelease") /\ UNCHANGED <<mapped, counter>>
      BY <1>5, <2>1 DEF CcInv, SwapRelease, ReleasesPositive
    <3>2. QED
      BY <2>1, <3>1, HoldersKept DEF CcInv, HoldersOf, Holding
  <2>2. CASE value' # value
    <3>1. /\ value' = [value EXCEPT ![counter[g]] = @ - 1]
          /\ at[g] = "swapRelease" /\ at' \in [Goroutines -> InCall \cup {"idle"}]
          /\ \A h \in Goroutines \ {g} : at'[h] = at[h] /\ counter'[h] = counter[h]
          /\ UNCHANGED mapped
      BY <1>5, <2>2 DEF CcInv, SwapRelease
    <3> SUFFICES ASSUME NEW c \in Counters, c = mapped
                 PROVE  value'[c] <= Cardinality(HoldersOf(c)')
      BY <3>1 DEF CountedByHolders, HoldersOf, CcInv
    <3>2. HoldersOf(c) \ {g} \subseteq HoldersOf(c)'
      BY <3>1 DEF CcInv, HoldersOf, Holding
    <3>3. /\ Cardinality(HoldersOf(c)') \in Nat /\ Cardinality(HoldersOf(c)) \in Nat
          /\ value[c] \in Nat /\ value[c] <= Cardinality(HoldersOf(c))
      BY <3>2, ConcurrencyAssumption, FS_Subset, FS_CardinalityType
         DEF CcInv, CountedByHolders, HoldersOf, Holding
    <3>4. CASE counter[g] = c
      <4>1. value'[c] = value[c] - 1
        BY <3>1, <3>2, <3>4 DEF CcInv
      <4>2. Cardinality(HoldersOf(c)') >= Cardinality(HoldersOf(c)) - 1
        BY <3>2, HolderRemoved DEF CcInv
      <4>3. QED
        BY <3>3, <4>1, <4>2
    <3>5. CASE counter[g] # c
      <4>1. value'[c] = value[c]
        BY <3>1, <3>2, <3>5 DEF CcInv
      <4>2. HoldersOf(c) \subseteq HoldersOf(c)'
        BY <3>2, <3>5 DEF HoldersOf
      <4>3. IsFiniteSet(HoldersOf(c)')
        BY ConcurrencyAssumption, FS_Subset DEF HoldersOf, Holding
      <4>4. Cardinality(HoldersOf(c)) <= Cardinality(HoldersOf(c)')
        BY <4>2, <4>3, FS_Subset
      <4>5. QED
        BY <3>3, <4>1, <4>4
    <3>6. QED
      BY <3>4, <3>5
  <2>3. QED
    BY <2>1, <2>2
<1>6. ASSUME NEW g \in Goroutines, RemoveCounter(g)
      PROVE  CountedByHolders'
  <2>1. CASE mapped' = Missing
    BY <2>1 DEF CountedByHolders
  <2>2. CASE mapped' # Missing
    BY <1>6, <2>2, HoldersKept DEF CcInv, RemoveCounter, HoldersOf, Holding
  <2>3. QED
    BY <2>1, <2>2
<1>7. ASSUME ResetConcurrency
      PROVE  CountedByHolders'
  BY <1>7 DEF ResetConcurrency, CountedByHolders
<1>8. CASE UNCHANGED ccVars
  BY <1>8, HoldersKept DEF ccVars, CcInv, HoldersOf, Holding
<1>9. QED
  BY <1>1, <1>2, <1>3, <1>4, <1>5, <1>6, <1>7, <1>8
     DEF CcNext, TryAcquireChannel, ReleaseChannel

\* CcInv is an inductive invariant of the counter's acquire and release loops.
THEOREM CcInvariance == CcSpec => []CcInv
<1>1. CcInit => CcInv
  BY ConcurrencyAssumption DEF CcInit, CcInv, CcTypeOK, InCall, CounterWithinLimit,
     SwapsWithinLimit, ReleasesPositive, CountedByHolders
<1>2. CcInv /\ [CcNext]_ccVars => CcInv'
  BY ControlStep, CountStep DEF CcInv
<1>3. QED
  BY <1>1, <1>2, PTL DEF CcSpec

\* The counter, the map and the goroutines keep their types.
THEOREM CcTypeCorrect == CcSpec => []CcTypeOK
BY CcInvariance, PTL DEF CcInv

\* No counter passes the channel's limit, for any number of goroutines.
THEOREM CountersWithinLimit == CcSpec => []CounterWithinLimit
BY CcInvariance, PTL DEF CcInv

\* The reported load never exceeds the requests that hold a slot: no slot leaks,
\* for any number of goroutines, any limit and any configuration changes.
THEOREM NoSlotLeak == CcSpec => []LoadNotOverstated
<1>1. CcInv => LoadNotOverstated
  <2> SUFFICES ASSUME CcInv
               PROVE  LoadNotOverstated
    OBVIOUS
  <2>1. /\ Cardinality(HoldersOf(mapped)) \in Nat /\ Cardinality(Holding) \in Nat
        /\ Cardinality(HoldersOf(mapped)) <= Cardinality(Holding)
    BY HoldersFinite
  <2>2. mapped # Missing => value[mapped] \in Nat
    BY DEF CcInv, CcTypeOK
  <2>3. QED
    BY <2>1, <2>2 DEF CcInv, CountedByHolders, LoadNotOverstated, CurrentChannelConcurrency
<1>2. QED
  BY <1>1, CcInvariance, PTL

(* ---- the ledger of credentials (CredentialFairness) ---- *)

\* Every non-empty set of naturals has a least element.
LEMMA LeastNatural ==
  ASSUME NEW T \in SUBSET Nat, T # {}
  PROVE  \E x \in T : \A y \in T : x <= y
<1>1. PICK x \in T : \A y \in T : <<y, x>> \notin OpToRel(<, Nat)
  BY NatLessThanWellFounded, WFMin
<1>2. \A y \in T : ~(y < x)
  BY <1>1 DEF OpToRel
<1>3. QED
  BY <1>2

Rank == [progress : Nat, lastSelected : Nat]

\* The order of selection leaves no two credentials level: among any candidates one
\* comes before all others.
LEMMA SomeoneIsFirst ==
  ASSUME NEW D, NEW rank \in [D -> Rank],
         NEW S \in SUBSET D, S \subseteq Nat, S # {}
  PROVE  \E i \in S : \A j \in S \ {i} : Less(rank, i, j)
<1>1. PICK p \in S : \A j \in S : rank[p].progress <= rank[j].progress
  <2>1. PICK x \in {rank[j].progress : j \in S} :
          \A y \in {rank[j].progress : j \in S} : x <= y
    <3>1. {rank[j].progress : j \in S} \in SUBSET Nat /\ {rank[j].progress : j \in S} # {}
      BY DEF Rank
    <3>2. QED
      BY <3>1, LeastNatural
  <2>2. PICK p \in S : rank[p].progress = x
    BY <2>1
  <2>3. \A j \in S : rank[p].progress <= rank[j].progress
    BY <2>1, <2>2
  <2>4. QED
    BY <2>3
<1> DEFINE P == {j \in S : rank[j].progress = rank[p].progress}
<1>2. PICK q \in P : \A j \in P : rank[q].lastSelected <= rank[j].lastSelected
  <2>1. PICK x \in {rank[j].lastSelected : j \in P} :
          \A y \in {rank[j].lastSelected : j \in P} : x <= y
    <3>1. {rank[j].lastSelected : j \in P} \in SUBSET Nat /\ {rank[j].lastSelected : j \in P} # {}
      BY DEF Rank
    <3>2. QED
      BY <3>1, LeastNatural
  <2>2. PICK q \in P : rank[q].lastSelected = x
    BY <2>1
  <2>3. \A j \in P : rank[q].lastSelected <= rank[j].lastSelected
    BY <2>1, <2>2
  <2>4. QED
    BY <2>3
<1> DEFINE Q == {j \in P : rank[j].lastSelected = rank[q].lastSelected}
<1>3. PICK i \in Q : \A j \in Q : i <= j
  BY LeastNatural
<1>4. ASSUME NEW j \in S \ {i}
      PROVE  Less(rank, i, j)
  <2>1. rank[i] \in Rank /\ rank[j] \in Rank
    OBVIOUS
  <2>2. rank[i].progress <= rank[j].progress
    BY <1>1
  <2>3. CASE j \notin P
    BY <1>1, <2>1, <2>2, <2>3 DEF Less, Rank
  <2>4. CASE j \in P
    <3>1. rank[i].progress = rank[j].progress
      BY <2>4
    <3>2. rank[i].lastSelected <= rank[j].lastSelected
      BY <1>2, <2>4
    <3>3. CASE j \in Q
      <4>1. i < j
        BY <1>3, <3>3
      <4>2. QED
        BY <3>1, <3>3, <4>1 DEF Less
    <3>4. CASE j \notin Q
      BY <2>1, <2>4, <3>1, <3>2, <3>4 DEF Less, Rank
    <3>5. QED
      BY <3>3, <3>4
  <2>5. QED
    BY <2>3, <2>4
<1>5. QED
  BY <1>4

\* Fairest returns that candidate.
LEMMA FairestIsFirst ==
  ASSUME NEW D, NEW rank \in [D -> Rank],
         NEW S \in SUBSET D, S \subseteq Nat, S # {}
  PROVE  /\ Fairest(rank, S) \in S
         /\ \A j \in S \ {Fairest(rank, S)} : Less(rank, Fairest(rank, S), j)
BY SomeoneIsFirst DEF Fairest

-----------------------------------------------------------------------------
(* One selection *)

\* A call brings some of the channel's keys.
LEMMA CandidatesAreKeys ==
  ASSUME NEW cands \in CandidateSets
  PROVE  /\ DOMAIN cands \in SUBSET KeyIDs /\ DOMAIN cands \in SUBSET Nat
         /\ DOMAIN cands # {}
         /\ \A k \in DOMAIN cands : cands[k] \in Nat
<1>1. PICK S \in (SUBSET KeyIDs) \ {{}} : cands \in [S -> Revisions]
  BY DEF CandidateSets
<1>2. DOMAIN cands = S /\ \A k \in S : cands[k] \in Revisions
  BY <1>1
<1>3. QED
  BY <1>1, <1>2, FairnessAssumption DEF FairnessAssumption

\* What a candidate's member becomes when the candidate takes part.
LEMMA JoinedMember ==
  ASSUME FairTypeOK, NEW k \in KeyIDs, NEW r \in Nat
  PROVE  /\ Joined(k, r) \in Member
         /\ Joined(k, r) =
              [revision |-> normalizeCredentialRevision(r),
               progress |-> IF ~Known(k, r) \/ (~members[k].eligible /\ members[k].progress < watermark)
                            THEN watermark ELSE members[k].progress,
               lastSelected |-> IF Known(k, r) THEN members[k].lastSelected ELSE 0,
               eligible |-> TRUE]
<1>1. normalizeCredentialRevision(r) \in Nat \ {0}
  BY DEF normalizeCredentialRevision
<1>2. CASE ~Known(k, r)
  BY <1>1, <1>2 DEF Joined, Newcomer, Member, FairTypeOK
<1>3. CASE Known(k, r)
  <2>1. members[k] \in Member
    BY <1>1, <1>3 DEF Known, FairTypeOK, Absent
  <2>2. Joined(k, r) =
          [members[k] EXCEPT
             !.progress = IF ~members[k].eligible /\ members[k].progress < watermark
                          THEN watermark ELSE members[k].progress,
             !.eligible = TRUE]
    BY <1>3 DEF Joined
  <2> DEFINE p == IF ~members[k].eligible /\ members[k].progress < watermark
                  THEN watermark ELSE members[k].progress
  <2>3. p \in Nat
    BY <2>1 DEF Member, FairTypeOK
  <2>4. Joined(k, r) = [revision |-> members[k].revision, progress |-> p,
                        lastSelected |-> members[k].lastSelected, eligible |-> TRUE]
    BY <2>1, <2>2 DEF Member
  <2>5. QED
    BY <1>3, <2>1, <2>3, <2>4 DEF Member, Known
<1>4. QED
  BY <1>2, <1>3

\* The ranks a selection compares are numbers, and it selects one of its candidates.
LEMMA SelectedIsCandidate ==
  ASSUME FairTypeOK, NEW cands \in CandidateSets, NEW preferred \in Preferences
  PROVE  /\ SelectRank(cands) \in [DOMAIN cands -> Rank]
         /\ Selected(cands, preferred) \in DOMAIN cands
<1>1. SelectRank(cands) \in [DOMAIN cands -> Rank]
  <2>1. ASSUME NEW k \in DOMAIN cands
        PROVE  Joined(k, cands[k]) \in Member
    BY CandidatesAreKeys, JoinedMember
  <2>2. QED
    BY <2>1 DEF SelectRank, Rank, Member
<1> DEFINE S == DOMAIN cands
           first == Fairest(SelectRank(cands), S)
<1>2. first \in S
  BY <1>1, FairestIsFirst, CandidatesAreKeys
<1>3. S # {first} => Fairest(SelectRank(cands), S \ {first}) \in S
  <2>1. SUFFICES ASSUME S # {first} PROVE Fairest(SelectRank(cands), S \ {first}) \in S
    OBVIOUS
  <2> DEFINE T == S \ {first}
  <2>2. T \in SUBSET Nat /\ T # {}
    BY <2>1, <1>2, CandidatesAreKeys
  <2>3. QED
    BY <1>1, <2>2, FairestIsFirst
<1>4. QED
  BY <1>1, <1>2, <1>3 DEF Selected, Turn

-----------------------------------------------------------------------------
(* The invariant *)

\* Nothing runs ahead of the watermark or of the sequence.
Bounded ==
  \A k \in KeyIDs : members[k].progress <= watermark /\ members[k].lastSelected <= sequence

\* The ledger's run is the real one: it starts again with every new identity.
RunCounted ==
  /\ streak.key = lastMember /\ streak.length = consecutive
  /\ lastMember # 0 => members[lastMember].revision = streak.revision

\* A ledger nothing was selected from is empty.
FreshIsEmpty ==
  sequence = 0 =>
    /\ \A k \in KeyIDs : members[k] = Absent
    /\ watermark = 0 /\ lastMember = 0 /\ consecutive = 0

FairInv == FairTypeOK /\ Bounded /\ LedgerConsistent /\ RunCounted /\ FreshIsEmpty /\ BurstBounded

\* A selection charges one candidate, lets the others take part, and sets the rest
\* aside.
LEMMA SelectionEffect ==
  ASSUME FairTypeOK, NEW cands \in CandidateSets, NEW preferred \in Preferences,
         SelectCredentialFair(cands, preferred),
         NEW k, k = Selected(cands, preferred)
  PROVE  /\ k \in DOMAIN cands /\ k \in KeyIDs /\ cands[k] \in Nat
         /\ members' \in [KeyIDs -> Member \cup {Absent}]
         /\ members'[k] = [revision |-> normalizeCredentialRevision(cands[k]),
                           progress |-> Joined(k, cands[k]).progress + 1,
                           lastSelected |-> sequence + 1,
                           eligible |-> TRUE]
         /\ \A i \in DOMAIN cands \ {k} : members'[i] = Joined(i, cands[i])
         /\ \A i \in KeyIDs \ DOMAIN cands :
              members'[i] = [revision |-> members[i].revision,
                             progress |-> members[i].progress,
                             lastSelected |-> members[i].lastSelected,
                             eligible |-> FALSE]
<1>1. k \in DOMAIN cands /\ k \in KeyIDs /\ cands[k] \in Nat
  BY SelectedIsCandidate, CandidatesAreKeys
<1>2. \A i \in DOMAIN cands :
        i \in KeyIDs /\ Joined(i, cands[i]) \in Member
  BY CandidatesAreKeys, JoinedMember
<1>3. ASSUME NEW i \in KeyIDs \ DOMAIN cands
      PROVE  /\ Membership(cands)[i] = [revision |-> members[i].revision,
                                        progress |-> members[i].progress,
                                        lastSelected |-> members[i].lastSelected,
                                        eligible |-> FALSE]
             /\ Membership(cands)[i] \in Member \cup {Absent}
  <2>1. Membership(cands)[i] = [members[i] EXCEPT !.eligible = FALSE]
    BY <1>3 DEF Membership
  <2>2. members[i] \in [revision : Nat, progress : Nat, lastSelected : Nat, eligible : BOOLEAN]
    <3>1. members[i] \in Member \cup {Absent}
      BY DEF FairTypeOK
    <3>2. CASE members[i] \in Member
      BY <3>2 DEF Member
    <3>3. CASE members[i] = Absent
      BY <3>3 DEF Absent
    <3>4. QED
      BY <3>1, <3>2, <3>3
  <2>3. Membership(cands)[i] = [revision |-> members[i].revision,
                                progress |-> members[i].progress,
                                lastSelected |-> members[i].lastSelected,
                                eligible |-> FALSE]
    BY <2>1, <2>2
  <2>4. Membership(cands)[i] \in Member \cup {Absent}
    <3>1. CASE members[i] \in Member
      BY <2>3, <3>1 DEF Member
    <3>2. CASE members[i] = Absent
      BY <2>3, <3>2 DEF Absent
    <3>3. QED
      BY <3>1, <3>2 DEF FairTypeOK
  <2>5. QED
    BY <2>3, <2>4
<1>4. \A i \in DOMAIN cands : Membership(cands)[i] = Joined(i, cands[i])
  BY CandidatesAreKeys DEF Membership
<1>5. Membership(cands) \in [KeyIDs -> Member \cup {Absent}]
  <2>1. \A i \in KeyIDs : Membership(cands)[i] \in Member \cup {Absent}
    BY <1>2, <1>3, <1>4
  <2>2. QED
    BY <2>1 DEF Membership
<1>6. members' = [Membership(cands) EXCEPT ![k] = Charged(k, cands[k])]
  BY DEF SelectCredentialFair
<1>7. Charged(k, cands[k]) \in Member
  <2>1. Joined(k, cands[k]).progress \in Nat
    BY <1>1, <1>2 DEF Member
  <2>2. QED
    BY <1>1, <2>1 DEF Charged, Member, FairTypeOK, normalizeCredentialRevision
<1>8. members' \in [KeyIDs -> Member \cup {Absent}]
  BY <1>5, <1>6, <1>7
<1>9. members'[k] = Charged(k, cands[k])
  BY <1>1, <1>5, <1>6
<1>10. \A i \in KeyIDs \ {k} : members'[i] = Membership(cands)[i]
  BY <1>5, <1>6
<1>11. QED
  BY <1>1, <1>3, <1>4, <1>8, <1>9, <1>10, CandidatesAreKeys DEF Charged

\* The invariant survives every selection.
LEMMA SelectionKeepsInvariant ==
  ASSUME FairInv, NEW cands \in CandidateSets, NEW preferred \in Preferences,
         SelectCredentialFair(cands, preferred)
  PROVE  FairInv'
<1>1. PICK k : k = Selected(cands, preferred)
  OBVIOUS
<1> DEFINE S == DOMAIN cands
           r == normalizeCredentialRevision(cands[k])
           P == Joined(k, cands[k]).progress
<1>2. /\ k \in S /\ k \in KeyIDs /\ cands[k] \in Nat
      /\ members' \in [KeyIDs -> Member \cup {Absent}]
      /\ members'[k] = [revision |-> r, progress |-> P + 1,
                        lastSelected |-> sequence + 1, eligible |-> TRUE]
      /\ \A i \in S \ {k} : members'[i] = Joined(i, cands[i])
      /\ \A i \in KeyIDs \ S :
           members'[i] = [revision |-> members[i].revision,
                          progress |-> members[i].progress,
                          lastSelected |-> members[i].lastSelected,
                          eligible |-> FALSE]
  BY <1>1, SelectionEffect DEF FairInv
<1>3. /\ sequence' = sequence + 1 /\ lastMember' = k
      /\ watermark' = IF P + 1 > watermark THEN P + 1 ELSE watermark
      /\ consecutive' = IF LastMember(cands) = k THEN Consecutive(cands) + 1 ELSE 1
      /\ streak' = [key |-> k, revision |-> r,
                    length |-> IF streak.key = k /\ streak.revision = r
                               THEN streak.length + 1 ELSE 1,
                    free |-> preferred \notin S /\ S # {k}]
      /\ sticky' = (sticky \/ preferred \in S)
  BY <1>1 DEF SelectCredentialFair, Charged, Raised
<1>4. /\ watermark \in Nat /\ sequence \in Nat /\ consecutive \in Nat
      /\ lastMember \in KeyIDs \cup {0}
      /\ streak \in [key : KeyIDs \cup {0}, revision : Nat, length : Nat, free : BOOLEAN]
      /\ KeyIDs \subseteq Nat \ {0} /\ r \in Nat \ {0} /\ MaxConsecutive \in Nat \ {0}
  BY <1>2, FairnessAssumption DEF FairInv, FairTypeOK, FairnessAssumption, normalizeCredentialRevision
<1>5. \A i \in S :
        /\ Joined(i, cands[i]).progress \in Nat
        /\ members[i].progress <= Joined(i, cands[i]).progress
        /\ Joined(i, cands[i]).progress <= watermark
        /\ Joined(i, cands[i]).lastSelected <= sequence
        /\ Joined(i, cands[i]).lastSelected \in Nat
  <2>1. SUFFICES ASSUME NEW i \in S
                 PROVE  /\ Joined(i, cands[i]).progress \in Nat
                        /\ members[i].progress <= Joined(i, cands[i]).progress
                        /\ Joined(i, cands[i]).progress <= watermark
                        /\ Joined(i, cands[i]).lastSelected <= sequence
                        /\ Joined(i, cands[i]).lastSelected \in Nat
    OBVIOUS
  <2>2. i \in KeyIDs /\ cands[i] \in Nat
    BY CandidatesAreKeys
  <2>3. members[i].progress <= watermark /\ members[i].lastSelected <= sequence
    BY <2>2 DEF FairInv, Bounded
  <2>4. Joined(i, cands[i]) \in Member
    BY <2>2, JoinedMember DEF FairInv
  <2>5. /\ Joined(i, cands[i]).progress \in {watermark, members[i].progress}
        /\ Joined(i, cands[i]).lastSelected \in {0, members[i].lastSelected}
    BY <2>2, JoinedMember DEF FairInv
  <2>6. QED
    BY <1>4, <2>3, <2>4, <2>5 DEF Member
<1>6. \A i \in KeyIDs \ S : members[i].progress <= watermark /\ members[i].lastSelected <= sequence
  BY DEF FairInv, Bounded
<1>7. FairTypeOK'
  <2>1. watermark' \in Nat /\ sequence' \in Nat /\ lastMember' \in KeyIDs \cup {0}
    BY <1>2, <1>3, <1>4, <1>5
  <2>2. consecutive' \in Nat
    BY <1>3, <1>4 DEF Consecutive
  <2>3. streak' \in [key : KeyIDs \cup {0}, revision : Nat, length : Nat, free : BOOLEAN]
    BY <1>2, <1>3, <1>4
  <2>4. sticky' \in BOOLEAN
    BY <1>3 DEF FairInv, FairTypeOK
  <2>5. QED
    BY <1>2, <2>1, <2>2, <2>3, <2>4 DEF FairTypeOK
<1>8. Bounded'
  <2>1. SUFFICES ASSUME NEW i \in KeyIDs
                 PROVE  members'[i].progress <= watermark' /\ members'[i].lastSelected <= sequence'
    BY DEF Bounded
  <2>2. watermark <= watermark' /\ P + 1 <= watermark' /\ watermark' \in Nat
    BY <1>2, <1>3, <1>4, <1>5
  <2>3. CASE i = k
    BY <1>2, <1>3, <1>4, <2>2, <2>3
  <2>4. CASE i \in S \ {k}
    BY <1>2, <1>3, <1>4, <1>5, <2>2, <2>4
  <2>5. CASE i \in KeyIDs \ S
    <3>1. members[i].progress \in Nat /\ members[i].lastSelected \in Nat
      BY DEF FairInv, FairTypeOK, Member, Absent
    <3>2. QED
      BY <1>2, <1>3, <1>4, <1>6, <2>2, <2>5, <3>1
  <2>6. QED
    BY <2>3, <2>4, <2>5
<1>9. LedgerConsistent'
  <2>1. \A i \in KeyIDs : members'[i].progress <= watermark'
    BY <1>8 DEF Bounded
  <2>2. \E i \in KeyIDs : members'[i].progress = watermark'
    <3>1. CASE P + 1 > watermark
      BY <1>2, <1>3, <3>1
    <3>2. CASE ~(P + 1 > watermark)
      <4>1. watermark' = watermark
        BY <1>3, <3>2
      <4>2. PICK i \in KeyIDs : members[i].progress = watermark
        <5>1. sequence > 0
          BY <1>2, <1>4, <1>5, <3>2 DEF FairInv, FreshIsEmpty
        <5>2. QED
          BY <5>1 DEF FairInv, LedgerConsistent
      <4>3. i # k
        BY <1>2, <1>4, <1>5, <3>2, <4>2
      <4>4. members'[i].progress = watermark
        BY <1>2, <1>4, <1>5, <4>2, <4>3
      <4>5. QED
        BY <4>1, <4>4
    <3>3. QED
      BY <3>1, <3>2
  <2>3. members'[lastMember'].lastSelected = sequence'
    BY <1>2, <1>3
  <2>4. \A i \in KeyIDs \ {k} : members'[i].lastSelected < sequence + 1
    <3>1. ASSUME NEW i \in S \ {k}
          PROVE  members'[i].lastSelected < sequence + 1
      BY <1>2, <1>4, <1>5
    <3>2. ASSUME NEW i \in KeyIDs \ S
          PROVE  members'[i].lastSelected < sequence + 1
      <4>1. members[i].lastSelected \in Nat
        BY <3>2 DEF FairInv, FairTypeOK, Member, Absent
      <4>2. QED
        BY <1>2, <1>4, <1>6, <4>1
    <3>3. QED
      BY <3>1, <3>2
  <2>5. QED
    BY <1>3, <2>1, <2>2, <2>3, <2>4 DEF LedgerConsistent
<1>10. RunCounted'
  <2>1. LastMember(cands) = k <=> streak.key = k /\ streak.revision = r
    BY <1>2, <1>4 DEF LastMember, Replaced, Known, FairInv, RunCounted
  <2>2. LastMember(cands) = k => Consecutive(cands) = streak.length
    BY <1>2, <1>4 DEF LastMember, Consecutive, FairInv, RunCounted
  <2>3. streak'.key = lastMember' /\ streak'.length = consecutive'
    BY <1>3, <2>1, <2>2
  <2>4. QED
    BY <1>2, <1>3, <2>3 DEF RunCounted
<1>11. FreshIsEmpty'
  BY <1>3, <1>4 DEF FreshIsEmpty
<1>12. BurstBounded'
  <2>1. SUFFICES ASSUME preferred \notin S, S # {k}
                 PROVE  consecutive' <= MaxConsecutive
    BY <1>3, <1>10 DEF BurstBounded, RunCounted
  <2>2. SUFFICES ASSUME LastMember(cands) = k
                 PROVE  Consecutive(cands) < MaxConsecutive
    BY <1>3, <1>4 DEF Consecutive
  <2> DEFINE rank == SelectRank(cands)
             first == Fairest(rank, S)
  <2>3. k = Turn(rank, S, LastMember(cands), Consecutive(cands))
    BY <1>1, <2>1 DEF Selected
  <2>4. rank \in [S -> Rank] /\ S \subseteq Nat /\ S # {}
    BY SelectedIsCandidate, CandidatesAreKeys DEF FairInv
  <2>5. first \in S
    BY <2>4, FairestIsFirst
  <2>6. CASE k = first
    <3>1. S \ {first} # {}
      BY <2>1, <2>5, <2>6
    <3>2. Fairest(rank, S \ {first}) # first
      BY <2>4, <3>1, FairestIsFirst
    <3>3. ~(Consecutive(cands) >= MaxConsecutive)
      BY <2>1, <2>2, <2>3, <2>6, <3>2 DEF Turn
    <3>4. Consecutive(cands) \in Nat
      BY <1>4 DEF Consecutive
    <3>5. QED
      BY <1>4, <3>3, <3>4
  <2>7. CASE k # first
    <3>1. LastMember(cands) = first
      BY <2>3, <2>7 DEF Turn
    <3>2. QED
      BY <2>2, <2>7, <3>1
  <2>8. QED
    BY <2>6, <2>7
<1>13. QED
  BY <1>7, <1>8, <1>9, <1>10, <1>11, <1>12 DEF FairInv

\* The inductive invariant holds in every reachable state.
THEOREM FairInvariance == LedgerSpec => []FairInv
<1>1. FairInit => FairInv
  <2>1. SUFFICES ASSUME FairInit PROVE FairInv
    OBVIOUS
  <2>2. sticky \in BOOLEAN
    BY <2>1 DEF FairInit
  <2>3. /\ members = [k \in KeyIDs |-> Absent]
        /\ watermark = 0 /\ sequence = 0 /\ lastMember = 0 /\ consecutive = 0
        /\ streak = [key |-> 0, revision |-> 0, length |-> 0, free |-> FALSE]
    BY <2>1 DEF FairInit
  <2>4. FairTypeOK
    BY <2>2, <2>3 DEF FairTypeOK
  <2>5. Bounded /\ LedgerConsistent /\ RunCounted /\ FreshIsEmpty /\ BurstBounded
    BY <2>3 DEF Bounded, LedgerConsistent, RunCounted, FreshIsEmpty, BurstBounded, Absent
  <2>6. QED
    BY <2>4, <2>5 DEF FairInv
<1>2. FairInv /\ [FairNext]_fairVars => FairInv'
  <2>1. SUFFICES ASSUME FairInv, [FairNext]_fairVars PROVE FairInv'
    OBVIOUS
  <2>2. ASSUME NEW cands \in CandidateSets, NEW preferred \in Preferences,
               SelectCredentialFair(cands, preferred)
        PROVE  FairInv'
    BY <2>1, <2>2, SelectionKeepsInvariant
  <2>3. CASE ResetLedger
    <3>1. /\ members' = [k \in KeyIDs |-> Absent]
          /\ watermark' = 0 /\ sequence' = 0 /\ lastMember' = 0 /\ consecutive' = 0
          /\ streak' = [key |-> 0, revision |-> 0, length |-> 0, free |-> FALSE]
      BY <2>3 DEF ResetLedger
    <3>2. sticky' \in BOOLEAN
      BY <2>3 DEF ResetLedger
    <3>3. FairTypeOK'
      BY <3>1, <3>2 DEF FairTypeOK
    <3>4. (Bounded /\ LedgerConsistent /\ RunCounted /\ FreshIsEmpty /\ BurstBounded)'
      BY <3>1 DEF Bounded, LedgerConsistent, RunCounted, FreshIsEmpty, BurstBounded, Absent
    <3>5. QED
      BY <3>3, <3>4 DEF FairInv
  <2>4. CASE UNCHANGED fairVars
    BY <2>1, <2>4 DEF fairVars, ledgerVars, FairInv, FairTypeOK, Bounded, LedgerConsistent, RunCounted,
                      FreshIsEmpty, BurstBounded
  <2>5. QED
    BY <2>1, <2>2, <2>3, <2>4 DEF FairNext
<1>3. QED
  BY <1>1, <1>2, PTL DEF LedgerSpec

\* The ledger's shape, for every set of keys and revisions.
THEOREM FairTypeCorrect == LedgerSpec => []FairTypeOK
<1>1. FairInv => FairTypeOK
  BY DEF FairInv
<1>2. QED
  BY <1>1, FairInvariance, PTL

\* The watermark, the sequence and the last member agree with the members.
THEOREM LedgerIsConsistent == LedgerSpec => []LedgerConsistent
<1>1. FairInv => LedgerConsistent
  BY DEF FairInv
<1>2. QED
  BY <1>1, FairInvariance, PTL

\* No credential is chosen more than MaxConsecutive times in a row over another.
THEOREM BurstsAreBounded == LedgerSpec => []BurstBounded
<1>1. FairInv => BurstBounded
  BY DEF FairInv
<1>2. QED
  BY <1>1, FairInvariance, PTL

-----------------------------------------------------------------------------
(* Peek and select *)

\* What a preview says of a candidate is what joining makes of it.
LEMMA PreviewRankIsSelectRank ==
  ASSUME FairTypeOK, NEW cands \in CandidateSets
  PROVE  PreviewRank(cands) = SelectRank(cands)
<1>1. ASSUME NEW k \in DOMAIN cands
      PROVE  previewCredentialMember(k, cands[k]) =
               [progress |-> Joined(k, cands[k]).progress,
                lastSelected |-> Joined(k, cands[k]).lastSelected]
  BY CandidatesAreKeys, JoinedMember DEF previewCredentialMember
<1>2. QED
  BY <1>1 DEF PreviewRank, SelectRank

\* Before anything was selected, the smallest ID is first.
LEMMA SmallestIsFirst ==
  ASSUME FairInv, sequence = 0, NEW cands \in CandidateSets
  PROVE  (CHOOSE i \in DOMAIN cands : \A j \in DOMAIN cands : i <= j) =
           Turn(SelectRank(cands), DOMAIN cands, LastMember(cands), Consecutive(cands))
<1> DEFINE S == DOMAIN cands
           rank == SelectRank(cands)
           least == CHOOSE i \in S : \A j \in S : i <= j
<1>1. S \in SUBSET KeyIDs /\ S \subseteq Nat \ {0} /\ S # {} /\ S \in SUBSET Nat
  BY CandidatesAreKeys, FairnessAssumption DEF FairnessAssumption
<1>2. least \in S /\ \A j \in S : least <= j
  BY <1>1, LeastNatural
<1>3. rank \in [S -> Rank]
  <2>1. \A k \in S : Joined(k, cands[k]) \in Member
    BY CandidatesAreKeys, JoinedMember DEF FairInv
  <2>2. QED
    BY <2>1 DEF SelectRank, Rank, Member
<1>4. ASSUME NEW j \in S
      PROVE  rank[j].progress = 0 /\ rank[j].lastSelected = 0
  <2>1. members[j] = Absent /\ watermark = 0
    BY <1>1 DEF FairInv, FreshIsEmpty
  <2>2. ~Known(j, cands[j])
    BY <2>1, CandidatesAreKeys DEF Known, Absent, normalizeCredentialRevision
  <2>3. Joined(j, cands[j]).progress = 0 /\ Joined(j, cands[j]).lastSelected = 0
    BY <2>1, <2>2 DEF Joined, Newcomer
  <2>4. QED
    BY <2>3 DEF SelectRank
<1>5. \A j \in S \ {least} : Less(rank, least, j)
  BY <1>1, <1>2, <1>4 DEF Less
<1>6. least = Fairest(rank, S)
  <2> HIDE DEF rank, least, S
  <2> DEFINE f == Fairest(rank, S)
  <2>1. S \subseteq Nat /\ S # {} /\ S \in SUBSET S /\ least \in S
    BY <1>1, <1>2
  <2>2. f \in S /\ \A j \in S \ {f} : Less(rank, f, j)
    BY <1>3, <2>1, FairestIsFirst
  <2>3. SUFFICES ASSUME least # f PROVE FALSE
    OBVIOUS
  <2>4. Less(rank, least, f) /\ Less(rank, f, least)
    BY <1>5, <2>1, <2>2, <2>3
  <2>5. rank[least] \in Rank /\ rank[f] \in Rank /\ least \in Nat /\ f \in Nat
    BY <1>3, <2>1, <2>2
  <2>6. QED
    BY <2>3, <2>4, <2>5 DEF Less, Rank
<1>7. LastMember(cands) = 0
  BY <1>1 DEF LastMember, FairInv, FreshIsEmpty
<1>8. least # 0
  BY <1>1, <1>2
<1>9. QED
  BY <1>6, <1>7, <1>8 DEF Turn

\* What the warmup expects is what the next request with the same snapshot gets.
THEOREM PeekPredictsSelect == LedgerSpec => []PeekMatchesSelect
<1>1. FairInv => PeekMatchesSelect
  <2>1. SUFFICES ASSUME FairInv, NEW cands \in CandidateSets, NEW preferred \in Preferences
                 PROVE  PeekCredentialFair(cands, preferred) = Selected(cands, preferred)
    BY DEF PeekMatchesSelect
  <2>2. CASE preferred \in DOMAIN cands
    BY <2>2 DEF PeekCredentialFair, Selected
  <2>3. CASE preferred \notin DOMAIN cands /\ sequence = 0
    BY <2>1, <2>3, SmallestIsFirst DEF PeekCredentialFair, Selected
  <2>4. CASE preferred \notin DOMAIN cands /\ sequence # 0
    BY <2>1, <2>4, PreviewRankIsSelectRank DEF PeekCredentialFair, Selected, FairInv
  <2>5. QED
    BY <2>2, <2>3, <2>4
<1>2. QED
  BY <1>1, FairInvariance, PTL

\* In what attempts share, the ledger takes the ledger's steps and no others.
LEMMA SharedTakesLedgerSteps == SharedSpec => LedgerSpec
<1>1. SharedInit => FairInit
  BY DEF SharedInit
<1>2. [SharedNext]_<<part, vars, ccVars, fairVars>> => [FairNext]_fairVars
  BY DEF SharedNext
<1>3. QED
  BY <1>1, <1>2, PTL DEF SharedSpec, LedgerSpec

\* So the warmup expects what the next request gets whatever the health of the providers and
\* the slots of the channels do meanwhile.
THEOREM WarmupExpectsTheSelected == SharedSpec => []PeekPredicts
<1>1. PeekMatchesSelect => PeekPredicts
  BY DEF PeekPredicts
<1>2. QED
  BY <1>1, SharedTakesLedgerSteps, PeekPredictsSelect, PTL

-----------------------------------------------------------------------------
(* Equal shares *)

\* As long as no sticky key decided, eligible credentials are at the watermark or one
\* below it, and the one that was selected last is at it.
Level ==
  ~sticky =>
    /\ \A i \in KeyIDs : members[i].eligible => members[i].progress + 1 >= watermark
    /\ lastMember # 0 => members[lastMember].progress = watermark

\* Without a preference the turn goes to the first candidate: the guard against
\* long runs has nothing to break, since the last member is behind nobody.
LEMMA TurnIsFirst ==
  ASSUME FairInv, Level, ~sticky, NEW cands \in CandidateSets,
         NEW preferred \in Preferences, preferred \notin DOMAIN cands
  PROVE  Selected(cands, preferred) = Fairest(SelectRank(cands), DOMAIN cands)
<1> DEFINE S == DOMAIN cands
           rank == SelectRank(cands)
           first == Fairest(rank, S)
<1>1. S \in SUBSET KeyIDs /\ S \subseteq Nat \ {0} /\ S # {} /\ S \in SUBSET Nat
  BY CandidatesAreKeys, FairnessAssumption DEF FairnessAssumption
<1>2. rank \in [S -> Rank]
  BY SelectedIsCandidate DEF FairInv
<1>3. first \in S /\ \A j \in S \ {first} : Less(rank, first, j)
  <2> HIDE DEF rank, S
  <2>1. QED
    BY <1>1, <1>2, FairestIsFirst
<1>4. preferred \notin S
  OBVIOUS
<1>5. SUFFICES ASSUME S # {first}, LastMember(cands) = first
               PROVE  FALSE
  BY <1>4 DEF Selected, Turn
<1>6. PICK j \in S : j # first
  BY <1>1, <1>5
<1>7. lastMember = first /\ first # 0 /\ Known(first, cands[first]) /\ first \in KeyIDs
  BY <1>1, <1>3, <1>5 DEF LastMember, Replaced
<1>8. sequence > 0
  BY <1>7 DEF FairInv, FreshIsEmpty, FairTypeOK
<1>9. rank[first].progress = watermark /\ rank[first].lastSelected = sequence
  <2>1. members[first].progress = watermark /\ members[first].lastSelected = sequence
    BY <1>7 DEF Level, FairInv, LedgerConsistent
  <2>2. Joined(first, cands[first]).progress = watermark
        /\ Joined(first, cands[first]).lastSelected = sequence
    BY <1>3, <1>7, <2>1, JoinedMember, CandidatesAreKeys DEF FairInv
  <2>3. QED
    BY <1>3, <2>2 DEF SelectRank
<1>10. rank[j].progress <= watermark /\ rank[j].lastSelected < sequence
  <2>1. j \in KeyIDs /\ cands[j] \in Nat
    BY CandidatesAreKeys
  <2>2. members[j].progress <= watermark /\ members[j].lastSelected < sequence
    BY <1>6, <1>7, <1>8, <2>1 DEF FairInv, LedgerConsistent
  <2>3. /\ Joined(j, cands[j]).progress \in {watermark, members[j].progress}
        /\ Joined(j, cands[j]).lastSelected \in {0, members[j].lastSelected}
    BY <2>1, JoinedMember DEF FairInv
  <2>4. QED
    BY <1>8, <2>2, <2>3 DEF SelectRank, FairInv, FairTypeOK
<1>11. Less(rank, first, j)
  BY <1>3, <1>6
<1>12. watermark \in Nat /\ sequence \in Nat /\ rank[j] \in Rank
  BY <1>2 DEF FairInv, FairTypeOK
<1>13. QED
  BY <1>9, <1>10, <1>11, <1>12 DEF Less, Rank

\* A selection keeps the shares level.
LEMMA SelectionKeepsLevel ==
  ASSUME FairInv, Level, NEW cands \in CandidateSets,
         NEW preferred \in Preferences, SelectCredentialFair(cands, preferred)
  PROVE  Level'
<1>0. SUFFICES ASSUME ~sticky, preferred \notin DOMAIN cands
               PROVE  Level'
  BY DEF Level, SelectCredentialFair
<1>1. PICK k : k = Selected(cands, preferred)
  OBVIOUS
<1> DEFINE S == DOMAIN cands
           rank == SelectRank(cands)
           P == Joined(k, cands[k]).progress
<1>2. /\ k \in S /\ k \in KeyIDs
      /\ members'[k] = [revision |-> normalizeCredentialRevision(cands[k]), progress |-> P + 1,
                        lastSelected |-> sequence + 1, eligible |-> TRUE]
      /\ \A i \in S \ {k} : members'[i] = Joined(i, cands[i])
      /\ \A i \in KeyIDs \ S : ~members'[i].eligible
  <2>1. \A i \in KeyIDs \ S :
          members'[i] = [revision |-> members[i].revision,
                         progress |-> members[i].progress,
                         lastSelected |-> members[i].lastSelected,
                         eligible |-> FALSE]
    BY <1>1, SelectionEffect DEF FairInv
  <2>2. ASSUME NEW i \in KeyIDs \ S
        PROVE  members'[i].eligible = FALSE
    <3>1. members'[i] = [revision |-> members[i].revision,
                         progress |-> members[i].progress,
                         lastSelected |-> members[i].lastSelected,
                         eligible |-> FALSE]
      BY <2>1
    <3>2. QED
      BY <3>1
  <2>3. QED
    BY <1>1, <2>2, SelectionEffect DEF FairInv
<1>3. lastMember' = k /\ watermark' = IF P + 1 > watermark THEN P + 1 ELSE watermark
  BY <1>1 DEF SelectCredentialFair, Charged, Raised
<1>4. S \in SUBSET KeyIDs /\ S \in SUBSET Nat /\ S # {}
  BY CandidatesAreKeys
<1>5. \A i \in S : /\ Joined(i, cands[i]).progress \in Nat
                   /\ Joined(i, cands[i]).progress <= watermark
                   /\ Joined(i, cands[i]).progress + 1 >= watermark
  <2>1. SUFFICES ASSUME NEW i \in S
                 PROVE  /\ Joined(i, cands[i]).progress \in Nat
                        /\ Joined(i, cands[i]).progress <= watermark
                        /\ Joined(i, cands[i]).progress + 1 >= watermark
    OBVIOUS
  <2>2. i \in KeyIDs /\ cands[i] \in Nat /\ watermark \in Nat
    BY CandidatesAreKeys DEF FairInv, FairTypeOK
  <2>3. Joined(i, cands[i]).progress =
          IF ~Known(i, cands[i]) \/ (~members[i].eligible /\ members[i].progress < watermark)
          THEN watermark ELSE members[i].progress
    BY <2>2, JoinedMember DEF FairInv
  <2>4. members[i].progress \in Nat /\ members[i].progress <= watermark
    BY <2>2 DEF FairInv, Bounded, FairTypeOK, Member, Absent
  <2>5. members[i].eligible => members[i].progress + 1 >= watermark
    BY <1>0, <2>2 DEF Level
  <2>6. QED
    BY <2>2, <2>3, <2>4, <2>5
<1>6. \A i \in S : P <= Joined(i, cands[i]).progress
  <2>1. k = Fairest(rank, S)
    BY <1>0, <1>1, TurnIsFirst
  <2>2. rank \in [S -> Rank]
    BY SelectedIsCandidate DEF FairInv
  <2>3. \A i \in S \ {k} : Less(rank, k, i)
    <3> HIDE DEF rank, S
    <3>1. QED
      BY <1>4, <2>1, <2>2, FairestIsFirst
  <2>4. \A i \in S : rank[k].progress <= rank[i].progress
    BY <1>2, <2>2, <2>3 DEF Less, Rank
  <2>5. QED
    BY <1>2, <2>4 DEF SelectRank
<1>7. watermark \in Nat
  BY DEF FairInv, FairTypeOK
<1>8. P + 1 = watermark'
  BY <1>2, <1>3, <1>5, <1>7
<1>9. ASSUME NEW i \in KeyIDs, members'[i].eligible
      PROVE  members'[i].progress + 1 >= watermark'
  <2>1. i \in S
    BY <1>2, <1>9
  <2>2. CASE i = k
    BY <1>2, <1>5, <1>8, <2>2
  <2>3. CASE i # k
    BY <1>2, <1>5, <1>6, <1>8, <2>1, <2>3
  <2>4. QED
    BY <2>2, <2>3
<1>10. QED
  BY <1>2, <1>3, <1>8, <1>9 DEF Level

\* As long as no sticky key decided no eligible credential falls more than one allocation behind.
THEOREM SharesAreEqual == LedgerSpec => []EqualShare
<1>1. FairInit => Level
  BY DEF FairInit, Level, Absent
<1>2. FairInv /\ Level /\ [FairNext]_fairVars => Level'
  <2>1. SUFFICES ASSUME FairInv, Level, [FairNext]_fairVars PROVE Level'
    OBVIOUS
  <2>2. ASSUME NEW cands \in CandidateSets, NEW preferred \in Preferences,
               SelectCredentialFair(cands, preferred)
        PROVE  Level'
    BY <2>1, <2>2, SelectionKeepsLevel
  <2>3. CASE ResetLedger
    BY <2>3 DEF ResetLedger, Level, Absent
  <2>4. CASE UNCHANGED fairVars
    BY <2>1, <2>4 DEF fairVars, ledgerVars, Level
  <2>5. QED
    BY <2>1, <2>2, <2>3, <2>4 DEF FairNext
<1>3. FairInv /\ Level => EqualShare
  <2>1. SUFFICES ASSUME FairInv, Level, ~sticky, NEW i \in KeyIDs, NEW j \in KeyIDs,
                        members[i].eligible, members[j].eligible
                 PROVE  members[i].progress <= members[j].progress + 1
    BY DEF EqualShare
  <2>2. members[i].progress <= watermark /\ members[j].progress + 1 >= watermark
    BY <2>1 DEF FairInv, Bounded, Level
  <2>3. members[i].progress \in Nat /\ members[j].progress \in Nat /\ watermark \in Nat
    BY <2>1 DEF FairInv, FairTypeOK, Member, Absent
  <2>4. QED
    BY <2>2, <2>3
<1>4. QED
  BY <1>1, <1>2, <1>3, FairInvariance, PTL DEF LedgerSpec
=============================================================================
