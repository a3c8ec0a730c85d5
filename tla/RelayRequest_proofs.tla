-------------------------- MODULE RelayRequest_proofs --------------------------
EXTENDS RelayRequest, FiniteSetTheorems, WellFoundedInduction, TLAPS

(***************************************************************************)
(* The invariant                                                           *)
(***************************************************************************)

Working == {"admit", "reserve", "select", "rpm", "dial", "wire"}
Judging == {"judge", "settle"}

\* Outside the walk's own step a candidate is worked on, one of a channel the request
\* has not given up.  ReturnResult gives a busy channel up before the result is settled.
OnCandidate ==
  /\ pc \in Working \cup Judging => index \in 1 .. Len(Candidates)
  /\ pc \in Working \cup {"judge"} => Provider \notin skipped
  /\ pc = "settle" /\ result.kind \notin {"busy", "missing"} => Provider \notin skipped

\* A credential is in use from its selection to the verdict that may rotate it.
KeyChosen == pc \in {"rpm", "dial", "wire"} \cup Judging => key \in Keys

\* The provider budget is looked at on admission and charged when a wire starts: no
\* step in between may spend what was left.
BudgetLeft ==
  pc \in (Working \ {"admit"}) \cup Judging =>
    Provider \in charged \/ Cardinality(charged) < MaxProviders

\* Every channel left with an unknown outcome has been paid for with a replay, but
\* for the one whose result is being judged; and when nothing was paid because no
\* other channel was left, then none is.
UnknownPaid ==
  /\ Cardinality(unknown) <= unknownReplays + 1
  /\ pc \in Working => Cardinality(unknown) <= unknownReplays
  /\ pc \in Judging /\ ~UnknownOutcome(result) => Cardinality(unknown) <= unknownReplays
  /\ pc = "route" =>
       \/ Cardinality(unknown) <= unknownReplays
       \/ \A i \in index + 1 .. Len(Candidates) : Candidates[i] \in skipped

\* What the client has is what the result says it was sent.
AnswerTold ==
  /\ pc \in Working \cup {"route"} => answer = "none"
  /\ pc \in Judging => answer = IF result.written THEN "payload" ELSE "none"
  /\ result.kind = "success" => result.written
  /\ result.kind = "policy" => ~result.written
  /\ result.kind \in {"canceled", "interrupted"} => ctx = result.kind

IInv ==
  /\ TypeOK /\ HeldWhileInside /\ OnCandidate /\ KeyChosen
  /\ WithinBudget /\ BudgetLeft
  /\ UnknownPaid /\ AnswerTold /\ EnvelopeAfterPayloadOnlyOnReset /\ SettledOnce

-----------------------------------------------------------------------------
(* The operators *)

\* Every non-empty set of naturals has a least element.
LEMMA LeastNatural ==
  ASSUME NEW T \in SUBSET Nat, T # {}
  PROVE  \E x \in T : \A y \in T : x <= y
<1>1. PICK x \in T : \A y \in T : <<y, x>> \notin OpToRel(<, Nat)
  BY NatLessThanWellFounded, WFMin
<1>2. \A y \in T : ~(y < x)
  BY <1>1 DEF OpToRel
<1>3. QED
  BY <1>2

LEMMA CandidateFacts ==
  /\ Len(Candidates) \in Nat
  /\ \A i \in 1 .. Len(Candidates) : Candidates[i] \in Providers
BY RequestAssumption DEF RequestAssumption

\* Iterator.Next stops at a later candidate of a channel not given up, or past the end
\* when there is none.
LEMMA NextIndexFacts ==
  ASSUME index \in 0 .. Len(Candidates) + 1
  PROVE  \/ /\ NextIndex \in index + 1 .. Len(Candidates)
            /\ Candidates[NextIndex] \notin skipped
         \/ NextIndex = Len(Candidates) + 1
<1> DEFINE later == {i \in index + 1 .. Len(Candidates) : Candidates[i] \notin skipped}
<1>1. CASE later = {}
  BY <1>1 DEF NextIndex
<1>2. CASE later # {}
  <2>1. later \in SUBSET Nat
    BY CandidateFacts
  <2>2. \E i \in later : \A j \in later : i <= j
    BY <1>2, <2>1, LeastNatural
  <2>3. NextIndex = CHOOSE i \in later : \A j \in later : i <= j
    BY <1>2 DEF NextIndex
  <2>4. NextIndex \in later
    BY <2>2, <2>3
  <2>5. QED
    BY <2>4
<1>3. QED
  BY <1>1, <1>2

\* The channels and credentials of a request are finitely many.
LEMMA FiniteParts ==
  ASSUME TypeOK
  PROVE  /\ IsFiniteSet(charged) /\ IsFiniteSet(unknown) /\ IsFiniteSet(excluded)
         /\ Cardinality(charged) \in Nat /\ Cardinality(unknown) \in Nat
         /\ Cardinality(Keys) \in Nat
BY FS_Subset, FS_CardinalityType, RequestAssumption DEF RequestAssumption, TypeOK

LEMMA AddOne ==
  ASSUME NEW S, IsFiniteSet(S), NEW x
  PROVE  /\ Cardinality(S \cup {x}) \in Nat /\ Cardinality(S) \in Nat
         /\ Cardinality(S \cup {x}) <= Cardinality(S) + 1
         /\ x \in S => S \cup {x} = S
<1>1. x \in S => S \cup {x} = S
  OBVIOUS
<1>2. IsFiniteSet(S \cup {x}) /\ Cardinality(S) \in Nat
  BY FS_AddElement, FS_CardinalityType
<1>3. QED
  BY <1>1, <1>2, FS_AddElement, FS_CardinalityType

\* The classes a wire attempt's result can have, by the state of the context.
LEMMA OutcomeFacts ==
  ASSUME TypeOK, NEW r \in Outcomes
  PROVE  /\ r \in Results
         /\ r.kind = "success" => r.written
         /\ r.kind = "policy" => ~r.written
         /\ r.kind \in {"canceled", "interrupted"} => ctx = r.kind
<1> DEFINE failure(kinds, sent, written) == [kind : kinds, sent : sent, written : written]
<1>1. CASE r = [kind |-> "success", sent |-> TRUE, written |-> TRUE]
  BY <1>1 DEF Results
<1>2. CASE r # [kind |-> "success", sent |-> TRUE, written |-> TRUE] /\ ctx = "active"
  <2>1. r \in failure(Failures, {TRUE}, {FALSE})
              \cup failure({"ambiguous", "timeout", "transport"}, {FALSE}, {FALSE})
              \cup failure({"ambiguous", "timeout", "broken", "reset"}, {TRUE}, {TRUE})
    BY <1>2 DEF Outcomes
  <2>2. CASE r \in failure(Failures, {TRUE}, {FALSE})
    BY <2>2 DEF Results, Failures
  <2>3. CASE r \in failure({"ambiguous", "timeout", "transport"}, {FALSE}, {FALSE})
    BY <2>3 DEF Results, Failures
  <2>4. CASE r \in failure({"ambiguous", "timeout", "broken", "reset"}, {TRUE}, {TRUE})
    BY <2>4 DEF Results, Failures
  <2>5. QED
    BY <2>1, <2>2, <2>3, <2>4
<1>3. CASE r # [kind |-> "success", sent |-> TRUE, written |-> TRUE] /\ ctx = "canceled"
  <2>1. r \in failure({"canceled", "timeout"}, {TRUE}, BOOLEAN)
    BY <1>3 DEF Outcomes
  <2>2. QED
    BY <1>3, <2>1 DEF Results, Failures
<1>4. CASE r # [kind |-> "success", sent |-> TRUE, written |-> TRUE] /\ ctx = "interrupted"
  <2>1. r \in failure({"interrupted"}, {TRUE}, BOOLEAN)
    BY <1>4 DEF Outcomes
  <2>2. QED
    BY <1>4, <2>1 DEF Results, Failures
<1>5. QED
  BY <1>1, <1>2, <1>3, <1>4 DEF TypeOK

\* The end of the request keeps what the client has or makes it an error.
LEMMA FinishFacts ==
  ASSUME TypeOK, NEW reply \in {"none", "error"}, Finish(reply)
  PROVE  /\ pc' = "done" /\ lease' \in BOOLEAN /\ saved' = saved + 1
         /\ answer' \in {"none", "payload", "error", "garbled"}
         /\ reply = "none" => answer' = answer
         /\ reply = "error" /\ answer = "none" => answer' = "error"
         /\ reply = "error" /\ answer # "none" => answer' = "garbled"
<1>1. lease' \in BOOLEAN
  BY Zenon DEF Finish
<1>2. pc' = "done" /\ saved' = saved + 1
  BY DEF Finish
<1>3. CASE reply = "none"
  BY <1>3 DEF Finish, TypeOK
<1>4. CASE reply = "error" /\ answer = "none"
  BY <1>4 DEF Finish
<1>5. CASE reply = "error" /\ answer # "none"
  BY <1>5 DEF Finish
<1>6. QED
  BY <1>1, <1>2, <1>3, <1>4, <1>5

-----------------------------------------------------------------------------
(* Every step keeps each part *)

\* The shape of the state.
LEMMA StepTypeOK ==
  ASSUME IInv, [Next]_vars
  PROVE  TypeOK'
<1>1. CASE NextCandidate
  <2>1. index' \in 0 .. Len(Candidates) + 1
    BY <1>1, NextIndexFacts, CandidateFacts DEF NextCandidate, IInv, TypeOK
  <2>2. CASE \E reply \in {"none", "error"} : Finish(reply)
    <3>1. pc' = "done" /\ lease' \in BOOLEAN /\ saved' = saved + 1
          /\ answer' \in {"none", "payload", "error", "garbled"}
      BY <2>2, FinishFacts DEF IInv
    <3>2. QED
      BY <1>1, <2>1, <3>1
      DEF NextCandidate, TypeOK, IInv,
          iterVars, budgetVars, holdVars, credentialVars, planVars, historyVars
  <2>3. CASE pc' = "admit" /\ UNCHANGED <<lease, answer, saved>>
    BY <1>1, <2>1, <2>3
    DEF NextCandidate, TypeOK, IInv,
        iterVars, budgetVars, holdVars, credentialVars, planVars, historyVars
  <2>4. QED
    BY <1>1, <2>2, <2>3 DEF NextCandidate
<1>2. CASE PassOver
  BY <1>2, CandidateFacts
  DEF PassOver, LeaveCandidate, TypeOK, Provider, OnCandidate, Working, Judging, IInv,
      iterVars, budgetVars, holdVars, credentialVars, planVars, historyVars
<1>3. CASE Admit
  BY <1>3, CandidateFacts, FiniteParts, RequestAssumption
  DEF Admit, TypeOK, IInv,
      iterVars, budgetVars, holdVars, credentialVars, planVars, historyVars
<1>4. CASE ReserveCapacity
  BY <1>4, CandidateFacts
  DEF ReserveCapacity, LeaveCandidate, TypeOK, IInv,
      iterVars, budgetVars, holdVars, credentialVars, planVars, historyVars
<1>5. CASE SelectCredential
  <2>1. lease' \in BOOLEAN /\ slot' \in BOOLEAN
    BY <1>5, Zenon DEF SelectCredential, LeaveCandidate, IInv, TypeOK, holdVars
  <2>2. QED
    BY <1>5, <2>1, CandidateFacts
    DEF SelectCredential, LeaveCandidate, TypeOK, Provider, OnCandidate, Working, Judging, IInv,
        iterVars, budgetVars, holdVars, credentialVars, planVars, historyVars
<1>6. CASE ConsumeRPM
  <2>1. lease' \in BOOLEAN /\ slot' \in BOOLEAN
    BY <1>6, Zenon DEF ConsumeRPM, LeaveCandidate, IInv, TypeOK, holdVars
  <2>2. QED
    BY <1>6, <2>1, CandidateFacts
    DEF ConsumeRPM, LeaveCandidate, TypeOK, IInv,
        iterVars, budgetVars, holdVars, credentialVars, planVars, historyVars
<1>7. CASE StartWire
  BY <1>7, CandidateFacts
  DEF StartWire, TypeOK, Provider, OnCandidate, Working, Judging, IInv,
      iterVars, budgetVars, holdVars, credentialVars, planVars, historyVars
<1>8. CASE NotStarted
  BY <1>8, CandidateFacts
  DEF NotStarted, TypeOK, Results, Failures, wireExhausted, IInv,
      iterVars, budgetVars, holdVars, credentialVars, planVars, historyVars
<1>9. CASE FinishWire
  BY <1>9, CandidateFacts, OutcomeFacts
  DEF FinishWire, TypeOK, Provider, OnCandidate, Working, Judging, IInv,
      iterVars, budgetVars, holdVars, credentialVars, planVars, historyVars
<1>10. CASE ProtocolFallback
  BY <1>10, CandidateFacts
  DEF ProtocolFallback, TypeOK, IInv,
      iterVars, budgetVars, holdVars, credentialVars, planVars, historyVars
<1>11. CASE ReturnResult
  BY <1>11, CandidateFacts
  DEF ReturnResult, TypeOK, Provider, OnCandidate, Working, Judging, IInv,
      iterVars, budgetVars, holdVars, credentialVars, planVars, historyVars
<1>12. CASE RotateCredential
  <2>1. lease' \in BOOLEAN
    BY <1>12, Zenon DEF RotateCredential, LeaveCandidate, IInv, TypeOK
  <2>2. skipped' \subseteq Providers /\ pc' \in {"route", "reserve"}
    BY <1>12, CandidateFacts
    DEF RotateCredential, LeaveCandidate, IInv, TypeOK, OnCandidate, Judging, Provider
  <2>3. excluded' \subseteq Keys
    <3>1. key \in Keys
      BY <1>12 DEF RotateCredential, IInv, KeyChosen, Judging
    <3>2. QED
      BY <1>12, <3>1 DEF RotateCredential, IInv, TypeOK
  <2>4. QED
    BY <1>12, <2>1, <2>2, <2>3
    DEF RotateCredential, TypeOK, IInv,
        iterVars, budgetVars, holdVars, credentialVars, planVars, historyVars
<1>13. CASE StopInterrupted
  <2>1. \E reply \in {"none", "error"} : Finish(reply)
    BY <1>13 DEF StopInterrupted
  <2>2. pc' = "done" /\ lease' \in BOOLEAN /\ saved' = saved + 1
        /\ answer' \in {"none", "payload", "error", "garbled"}
    BY <2>1, FinishFacts DEF IInv
  <2>3. QED
    BY <1>13, <2>2, CandidateFacts
    DEF StopInterrupted, TypeOK, IInv, iterVars, budgetVars, holdVars, credentialVars,
        planVars, historyVars
<1>14. CASE RefuseReplay
  <2>1. \E reply \in {"none", "error"} : Finish(reply)
    BY <1>14 DEF RefuseReplay
  <2>2. pc' = "done" /\ lease' \in BOOLEAN /\ saved' = saved + 1
        /\ answer' \in {"none", "payload", "error", "garbled"}
    BY <2>1, FinishFacts DEF IInv
  <2>3. QED
    BY <1>14, <2>2, CandidateFacts
    DEF RefuseReplay, TypeOK, IInv, iterVars, budgetVars, holdVars, credentialVars, planVars,
        historyVars
<1>15. CASE HandleResult
  <2>1. skipped' \subseteq Providers /\ unknownReplays' \in Nat
    BY <1>15, CandidateFacts DEF HandleResult, IInv, TypeOK, OnCandidate, Working, Judging,
        Provider
  <2>2. CASE \E reply \in {"none", "error"} : Finish(reply)
    <3>1. pc' = "done" /\ lease' \in BOOLEAN /\ saved' = saved + 1
          /\ answer' \in {"none", "payload", "error", "garbled"}
      BY <2>2, FinishFacts DEF IInv
    <3>2. QED
      BY <1>15, <2>1, <3>1
      DEF HandleResult, TypeOK, IInv,
          iterVars, budgetVars, holdVars, credentialVars, planVars, historyVars
  <2>3. CASE LeaveCandidate /\ UNCHANGED <<answer, saved>>
    BY <1>15, <2>1, <2>3
    DEF HandleResult, LeaveCandidate, TypeOK, IInv,
        iterVars, budgetVars, holdVars, credentialVars, planVars, historyVars
  <2>4. QED
    BY <1>15, <2>2, <2>3 DEF HandleResult
<1>16. CASE EndContext
  BY <1>16, CandidateFacts
  DEF EndContext, TypeOK, IInv,
      iterVars, budgetVars, holdVars, credentialVars, planVars, historyVars
<1>17. CASE UNCHANGED vars
  BY <1>17 DEF TypeOK, IInv, vars,
      iterVars, budgetVars, holdVars, credentialVars, planVars, historyVars
<1>18. QED
  BY <1>1, <1>2, <1>3, <1>4, <1>5, <1>6, <1>7, <1>8, <1>9, <1>10, <1>11, <1>12, <1>13, <1>14,
      <1>15, <1>16, <1>17 DEF Next, Handler

\* Leases and slots.
LEMMA StepHeld ==
  ASSUME IInv, [Next]_vars
  PROVE  HeldWhileInside'
<1>1. CASE NextCandidate
  BY <1>1
  DEF NextCandidate, Finish, HeldWhileInside, IInv,
      iterVars, budgetVars, holdVars, credentialVars, planVars, historyVars
<1>2. CASE PassOver
  BY <1>2
  DEF PassOver, LeaveCandidate, HeldWhileInside, IInv,
      iterVars, budgetVars, holdVars, credentialVars, planVars, historyVars
<1>3. CASE Admit
  BY <1>3
  DEF Admit, HeldWhileInside, IInv,
      iterVars, budgetVars, holdVars, credentialVars, planVars, historyVars
<1>4. CASE ReserveCapacity
  <2>1. CASE slot' = TRUE /\ pc' = "select" /\ UNCHANGED lease
    BY <1>4, <2>1 DEF ReserveCapacity, HeldWhileInside, IInv
  <2>2. CASE LeaveCandidate /\ UNCHANGED slot
    BY <1>4, <2>2 DEF ReserveCapacity, LeaveCandidate, HeldWhileInside, IInv
  <2>3. QED
    BY <1>4, <2>1, <2>2 DEF ReserveCapacity
<1>5. CASE SelectCredential
  BY <1>5
  DEF SelectCredential, LeaveCandidate, HeldWhileInside, IInv,
      iterVars, budgetVars, holdVars, credentialVars, planVars, historyVars
<1>6. CASE ConsumeRPM
  BY <1>6
  DEF ConsumeRPM, LeaveCandidate, HeldWhileInside, IInv,
      iterVars, budgetVars, holdVars, credentialVars, planVars, historyVars
<1>7. CASE StartWire
  BY <1>7
  DEF StartWire, HeldWhileInside, IInv,
      iterVars, budgetVars, holdVars, credentialVars, planVars, historyVars
<1>8. CASE NotStarted
  BY <1>8
  DEF NotStarted, HeldWhileInside, IInv,
      iterVars, budgetVars, holdVars, credentialVars, planVars, historyVars
<1>9. CASE FinishWire
  BY <1>9
  DEF FinishWire, HeldWhileInside, IInv,
      iterVars, budgetVars, holdVars, credentialVars, planVars, historyVars
<1>10. CASE ProtocolFallback
  BY <1>10
  DEF ProtocolFallback, HeldWhileInside, IInv,
      iterVars, budgetVars, holdVars, credentialVars, planVars, historyVars
<1>11. CASE ReturnResult
  BY <1>11
  DEF ReturnResult, HeldWhileInside, IInv,
      iterVars, budgetVars, holdVars, credentialVars, planVars, historyVars
<1>12. CASE RotateCredential
  BY <1>12
  DEF RotateCredential, LeaveCandidate, HeldWhileInside, IInv,
      iterVars, budgetVars, holdVars, credentialVars, planVars, historyVars
<1>13. CASE StopInterrupted
  BY <1>13
  DEF StopInterrupted, Finish, HeldWhileInside, IInv,
      iterVars, budgetVars, holdVars, credentialVars, planVars, historyVars
<1>14. CASE RefuseReplay
  BY <1>14
  DEF RefuseReplay, Finish, HeldWhileInside, IInv,
      iterVars, budgetVars, holdVars, credentialVars, planVars, historyVars
<1>15. CASE HandleResult
  BY <1>15
  DEF HandleResult, LeaveCandidate, Finish, HeldWhileInside, IInv,
      iterVars, budgetVars, holdVars, credentialVars, planVars, historyVars
<1>16. CASE EndContext
  BY <1>16
  DEF EndContext, HeldWhileInside, IInv,
      iterVars, budgetVars, holdVars, credentialVars, planVars, historyVars
<1>17. CASE UNCHANGED vars
  BY <1>17 DEF HeldWhileInside, IInv, vars,
      iterVars, budgetVars, holdVars, credentialVars, planVars, historyVars
<1>18. QED
  BY <1>1, <1>2, <1>3, <1>4, <1>5, <1>6, <1>7, <1>8, <1>9, <1>10, <1>11, <1>12, <1>13, <1>14,
      <1>15, <1>16, <1>17 DEF Next, Handler

\* The candidate worked on.
LEMMA StepOnCandidate ==
  ASSUME IInv, [Next]_vars
  PROVE  OnCandidate'
<1>1. CASE NextCandidate
  BY <1>1, CandidateFacts, NextIndexFacts
  DEF NextCandidate, Finish, OnCandidate, Working, Judging, Provider, TypeOK, IInv,
      iterVars, budgetVars, holdVars, credentialVars, planVars, historyVars
<1>2. CASE PassOver
  BY <1>2, CandidateFacts
  DEF PassOver, LeaveCandidate, OnCandidate, Working, Judging, Provider, TypeOK, IInv,
      iterVars, budgetVars, holdVars, credentialVars, planVars, historyVars
<1>3. CASE Admit
  BY <1>3, CandidateFacts
  DEF Admit, OnCandidate, Working, Judging, Provider, TypeOK, IInv,
      iterVars, budgetVars, holdVars, credentialVars, planVars, historyVars
<1>4. CASE ReserveCapacity
  BY <1>4, CandidateFacts
  DEF ReserveCapacity, LeaveCandidate, OnCandidate, Working, Judging, Provider, TypeOK, IInv,
      iterVars, budgetVars, holdVars, credentialVars, planVars, historyVars
<1>5. CASE SelectCredential
  BY <1>5, CandidateFacts
  DEF SelectCredential, LeaveCandidate, OnCandidate, Working, Judging, Provider, TypeOK, IInv,
      iterVars, budgetVars, holdVars, credentialVars, planVars, historyVars
<1>6. CASE ConsumeRPM
  BY <1>6, CandidateFacts
  DEF ConsumeRPM, LeaveCandidate, OnCandidate, Working, Judging, Provider, TypeOK, IInv,
      iterVars, budgetVars, holdVars, credentialVars, planVars, historyVars
<1>7. CASE StartWire
  BY <1>7, CandidateFacts
  DEF StartWire, OnCandidate, Working, Judging, Provider, TypeOK, IInv,
      iterVars, budgetVars, holdVars, credentialVars, planVars, historyVars
<1>8. CASE NotStarted
  BY <1>8, CandidateFacts
  DEF NotStarted, OnCandidate, Working, Judging, Provider, TypeOK, IInv,
      iterVars, budgetVars, holdVars, credentialVars, planVars, historyVars
<1>9. CASE FinishWire
  BY <1>9, CandidateFacts
  DEF FinishWire, OnCandidate, Working, Judging, Provider, TypeOK, IInv,
      iterVars, budgetVars, holdVars, credentialVars, planVars, historyVars
<1>10. CASE ProtocolFallback
  BY <1>10, CandidateFacts
  DEF ProtocolFallback, OnCandidate, Working, Judging, Provider, TypeOK, IInv,
      iterVars, budgetVars, holdVars, credentialVars, planVars, historyVars
<1>11. CASE ReturnResult
  BY <1>11, CandidateFacts
  DEF ReturnResult, OnCandidate, Working, Judging, Provider, TypeOK, IInv,
      iterVars, budgetVars, holdVars, credentialVars, planVars, historyVars
<1>12. CASE RotateCredential
  BY <1>12, CandidateFacts
  DEF RotateCredential, LeaveCandidate, OnCandidate, Working, Judging, Provider, TypeOK,
      CredentialFailure, IInv,
      iterVars, budgetVars, holdVars, credentialVars, planVars, historyVars
<1>13. CASE StopInterrupted
  BY <1>13, CandidateFacts
  DEF StopInterrupted, Finish, OnCandidate, Working, Judging, Provider, TypeOK, IInv,
      iterVars, budgetVars, holdVars, credentialVars, planVars, historyVars
<1>14. CASE RefuseReplay
  BY <1>14, CandidateFacts
  DEF RefuseReplay, Finish, OnCandidate, Working, Judging, Provider, TypeOK, IInv,
      iterVars, budgetVars, holdVars, credentialVars, planVars, historyVars
<1>15. CASE HandleResult
  BY <1>15, CandidateFacts
  DEF HandleResult, LeaveCandidate, Finish, OnCandidate, Working, Judging, Provider, TypeOK,
      IInv,
      iterVars, budgetVars, holdVars, credentialVars, planVars, historyVars
<1>16. CASE EndContext
  BY <1>16, CandidateFacts
  DEF EndContext, OnCandidate, Working, Judging, Provider, TypeOK, IInv,
      iterVars, budgetVars, holdVars, credentialVars, planVars, historyVars
<1>17. CASE UNCHANGED vars
  BY <1>17 DEF OnCandidate, Working, Judging, Provider, TypeOK, IInv, vars,
      iterVars, budgetVars, holdVars, credentialVars, planVars, historyVars
<1>18. QED
  BY <1>1, <1>2, <1>3, <1>4, <1>5, <1>6, <1>7, <1>8, <1>9, <1>10, <1>11, <1>12, <1>13, <1>14,
      <1>15, <1>16, <1>17 DEF Next, Handler

\* The credential in use.
LEMMA StepKeyChosen ==
  ASSUME IInv, [Next]_vars
  PROVE  KeyChosen'
<1>1. CASE NextCandidate
  BY <1>1
  DEF NextCandidate, Finish, KeyChosen, Working, Judging, IInv,
      iterVars, budgetVars, holdVars, credentialVars, planVars, historyVars
<1>2. CASE PassOver
  BY <1>2
  DEF PassOver, LeaveCandidate, KeyChosen, Working, Judging, IInv,
      iterVars, budgetVars, holdVars, credentialVars, planVars, historyVars
<1>3. CASE Admit
  BY <1>3
  DEF Admit, KeyChosen, Working, Judging, IInv,
      iterVars, budgetVars, holdVars, credentialVars, planVars, historyVars
<1>4. CASE ReserveCapacity
  BY <1>4
  DEF ReserveCapacity, LeaveCandidate, KeyChosen, Working, Judging, IInv,
      iterVars, budgetVars, holdVars, credentialVars, planVars, historyVars
<1>5. CASE SelectCredential
  BY <1>5
  DEF SelectCredential, LeaveCandidate, KeyChosen, Working, Judging, IInv,
      iterVars, budgetVars, holdVars, credentialVars, planVars, historyVars
<1>6. CASE ConsumeRPM
  BY <1>6
  DEF ConsumeRPM, LeaveCandidate, KeyChosen, Working, Judging, IInv,
      iterVars, budgetVars, holdVars, credentialVars, planVars, historyVars
<1>7. CASE StartWire
  BY <1>7
  DEF StartWire, KeyChosen, Working, Judging, IInv,
      iterVars, budgetVars, holdVars, credentialVars, planVars, historyVars
<1>8. CASE NotStarted
  BY <1>8
  DEF NotStarted, KeyChosen, Working, Judging, IInv,
      iterVars, budgetVars, holdVars, credentialVars, planVars, historyVars
<1>9. CASE FinishWire
  BY <1>9
  DEF FinishWire, KeyChosen, Working, Judging, IInv,
      iterVars, budgetVars, holdVars, credentialVars, planVars, historyVars
<1>10. CASE ProtocolFallback
  BY <1>10
  DEF ProtocolFallback, KeyChosen, Working, Judging, IInv,
      iterVars, budgetVars, holdVars, credentialVars, planVars, historyVars
<1>11. CASE ReturnResult
  BY <1>11
  DEF ReturnResult, KeyChosen, Working, Judging, IInv,
      iterVars, budgetVars, holdVars, credentialVars, planVars, historyVars
<1>12. CASE RotateCredential
  BY <1>12
  DEF RotateCredential, LeaveCandidate, KeyChosen, Working, Judging, IInv,
      iterVars, budgetVars, holdVars, credentialVars, planVars, historyVars
<1>13. CASE StopInterrupted
  BY <1>13
  DEF StopInterrupted, Finish, KeyChosen, Working, Judging, IInv,
      iterVars, budgetVars, holdVars, credentialVars, planVars, historyVars
<1>14. CASE RefuseReplay
  BY <1>14
  DEF RefuseReplay, Finish, KeyChosen, Working, Judging, IInv,
      iterVars, budgetVars, holdVars, credentialVars, planVars, historyVars
<1>15. CASE HandleResult
  BY <1>15
  DEF HandleResult, LeaveCandidate, Finish, KeyChosen, Working, Judging, IInv,
      iterVars, budgetVars, holdVars, credentialVars, planVars, historyVars
<1>16. CASE EndContext
  BY <1>16
  DEF EndContext, KeyChosen, Working, Judging, IInv,
      iterVars, budgetVars, holdVars, credentialVars, planVars, historyVars
<1>17. CASE UNCHANGED vars
  BY <1>17 DEF KeyChosen, Working, Judging, IInv, vars,
      iterVars, budgetVars, holdVars, credentialVars, planVars, historyVars
<1>18. QED
  BY <1>1, <1>2, <1>3, <1>4, <1>5, <1>6, <1>7, <1>8, <1>9, <1>10, <1>11, <1>12, <1>13, <1>14,
      <1>15, <1>16, <1>17 DEF Next, Handler

\* The three budgets.
LEMMA StepWithinBudget ==
  ASSUME IInv, [Next]_vars
  PROVE  WithinBudget'
<1>1. CASE NextCandidate
  BY <1>1
  DEF NextCandidate, Finish, WithinBudget, TypeOK, IInv,
      iterVars, budgetVars, holdVars, credentialVars, planVars, historyVars
<1>2. CASE PassOver
  BY <1>2
  DEF PassOver, LeaveCandidate, WithinBudget, TypeOK, IInv,
      iterVars, budgetVars, holdVars, credentialVars, planVars, historyVars
<1>3. CASE Admit
  BY <1>3
  DEF Admit, WithinBudget, TypeOK, IInv,
      iterVars, budgetVars, holdVars, credentialVars, planVars, historyVars
<1>4. CASE ReserveCapacity
  BY <1>4
  DEF ReserveCapacity, LeaveCandidate, WithinBudget, TypeOK, IInv,
      iterVars, budgetVars, holdVars, credentialVars, planVars, historyVars
<1>5. CASE SelectCredential
  BY <1>5
  DEF SelectCredential, LeaveCandidate, WithinBudget, TypeOK, IInv,
      iterVars, budgetVars, holdVars, credentialVars, planVars, historyVars
<1>6. CASE ConsumeRPM
  BY <1>6
  DEF ConsumeRPM, LeaveCandidate, WithinBudget, TypeOK, IInv,
      iterVars, budgetVars, holdVars, credentialVars, planVars, historyVars
<1>7. CASE StartWire
  <2>1. /\ Cardinality(charged') \in Nat /\ Cardinality(charged) \in Nat
        /\ Cardinality(charged') <= Cardinality(charged) + 1
        /\ Provider \in charged => charged' = charged
    BY <1>7, FiniteParts, AddOne DEF StartWire, IInv
  <2>2. Provider \in charged \/ Cardinality(charged) < MaxProviders
    BY <1>7 DEF StartWire, IInv, BudgetLeft, Working, Judging
  <2>3. /\ wires \in Nat /\ wires < MaxWires /\ wires' = wires + 1
        /\ unknownReplays' = unknownReplays
    BY <1>7, RequestAssumption DEF StartWire, wireExhausted, IInv, TypeOK, RequestAssumption
  <2>4. QED
    BY <2>1, <2>2, <2>3, RequestAssumption DEF WithinBudget, IInv, RequestAssumption
<1>8. CASE NotStarted
  BY <1>8
  DEF NotStarted, WithinBudget, TypeOK, IInv,
      iterVars, budgetVars, holdVars, credentialVars, planVars, historyVars
<1>9. CASE FinishWire
  BY <1>9
  DEF FinishWire, WithinBudget, TypeOK, IInv,
      iterVars, budgetVars, holdVars, credentialVars, planVars, historyVars
<1>10. CASE ProtocolFallback
  BY <1>10
  DEF ProtocolFallback, WithinBudget, TypeOK, IInv,
      iterVars, budgetVars, holdVars, credentialVars, planVars, historyVars
<1>11. CASE ReturnResult
  BY <1>11
  DEF ReturnResult, WithinBudget, TypeOK, IInv,
      iterVars, budgetVars, holdVars, credentialVars, planVars, historyVars
<1>12. CASE RotateCredential
  BY <1>12
  DEF RotateCredential, LeaveCandidate, WithinBudget, TypeOK, IInv,
      iterVars, budgetVars, holdVars, credentialVars, planVars, historyVars
<1>13. CASE StopInterrupted
  BY <1>13
  DEF StopInterrupted, Finish, WithinBudget, TypeOK, IInv,
      iterVars, budgetVars, holdVars, credentialVars, planVars, historyVars
<1>14. CASE RefuseReplay
  BY <1>14
  DEF RefuseReplay, Finish, WithinBudget, TypeOK, IInv,
      iterVars, budgetVars, holdVars, credentialVars, planVars, historyVars
<1>15. CASE HandleResult
  <2>1. unknownReplays' <= MaxUnknownReplays
    BY <1>15, RequestAssumption
    DEF HandleResult, UnknownReplayAllowed, IInv, WithinBudget, TypeOK, RequestAssumption
  <2>2. QED
    BY <1>15, <2>1 DEF HandleResult, IInv, WithinBudget
<1>16. CASE EndContext
  BY <1>16
  DEF EndContext, WithinBudget, TypeOK, IInv,
      iterVars, budgetVars, holdVars, credentialVars, planVars, historyVars
<1>17. CASE UNCHANGED vars
  BY <1>17 DEF WithinBudget, TypeOK, IInv, vars,
      iterVars, budgetVars, holdVars, credentialVars, planVars, historyVars
<1>18. QED
  BY <1>1, <1>2, <1>3, <1>4, <1>5, <1>6, <1>7, <1>8, <1>9, <1>10, <1>11, <1>12, <1>13, <1>14,
      <1>15, <1>16, <1>17 DEF Next, Handler

\* What the admission promised.
LEMMA StepBudgetLeft ==
  ASSUME IInv, [Next]_vars
  PROVE  BudgetLeft'
<1>1. CASE NextCandidate
  BY <1>1
  DEF NextCandidate, Finish, BudgetLeft, Working, Judging, Provider, IInv,
      iterVars, budgetVars, holdVars, credentialVars, planVars, historyVars
<1>2. CASE PassOver
  BY <1>2
  DEF PassOver, LeaveCandidate, BudgetLeft, Working, Judging, Provider, IInv,
      iterVars, budgetVars, holdVars, credentialVars, planVars, historyVars
<1>3. CASE Admit
  BY <1>3
  DEF Admit, BudgetLeft, Working, Judging, Provider, IInv,
      iterVars, budgetVars, holdVars, credentialVars, planVars, historyVars
<1>4. CASE ReserveCapacity
  BY <1>4
  DEF ReserveCapacity, LeaveCandidate, BudgetLeft, Working, Judging, Provider, IInv,
      iterVars, budgetVars, holdVars, credentialVars, planVars, historyVars
<1>5. CASE SelectCredential
  BY <1>5
  DEF SelectCredential, LeaveCandidate, BudgetLeft, Working, Judging, Provider, IInv,
      iterVars, budgetVars, holdVars, credentialVars, planVars, historyVars
<1>6. CASE ConsumeRPM
  BY <1>6
  DEF ConsumeRPM, LeaveCandidate, BudgetLeft, Working, Judging, Provider, IInv,
      iterVars, budgetVars, holdVars, credentialVars, planVars, historyVars
<1>7. CASE StartWire
  BY <1>7
  DEF StartWire, BudgetLeft, Working, Judging, Provider, IInv,
      iterVars, budgetVars, holdVars, credentialVars, planVars, historyVars
<1>8. CASE NotStarted
  BY <1>8
  DEF NotStarted, BudgetLeft, Working, Judging, Provider, IInv,
      iterVars, budgetVars, holdVars, credentialVars, planVars, historyVars
<1>9. CASE FinishWire
  BY <1>9
  DEF FinishWire, BudgetLeft, Working, Judging, Provider, IInv,
      iterVars, budgetVars, holdVars, credentialVars, planVars, historyVars
<1>10. CASE ProtocolFallback
  BY <1>10
  DEF ProtocolFallback, BudgetLeft, Working, Judging, Provider, IInv,
      iterVars, budgetVars, holdVars, credentialVars, planVars, historyVars
<1>11. CASE ReturnResult
  BY <1>11
  DEF ReturnResult, BudgetLeft, Working, Judging, Provider, IInv,
      iterVars, budgetVars, holdVars, credentialVars, planVars, historyVars
<1>12. CASE RotateCredential
  BY <1>12
  DEF RotateCredential, LeaveCandidate, BudgetLeft, Working, Judging, Provider, IInv,
      iterVars, budgetVars, holdVars, credentialVars, planVars, historyVars
<1>13. CASE StopInterrupted
  BY <1>13
  DEF StopInterrupted, Finish, BudgetLeft, Working, Judging, Provider, IInv,
      iterVars, budgetVars, holdVars, credentialVars, planVars, historyVars
<1>14. CASE RefuseReplay
  BY <1>14
  DEF RefuseReplay, Finish, BudgetLeft, Working, Judging, Provider, IInv,
      iterVars, budgetVars, holdVars, credentialVars, planVars, historyVars
<1>15. CASE HandleResult
  BY <1>15
  DEF HandleResult, LeaveCandidate, Finish, BudgetLeft, Working, Judging, Provider, IInv,
      iterVars, budgetVars, holdVars, credentialVars, planVars, historyVars
<1>16. CASE EndContext
  BY <1>16
  DEF EndContext, BudgetLeft, Working, Judging, Provider, IInv,
      iterVars, budgetVars, holdVars, credentialVars, planVars, historyVars
<1>17. CASE UNCHANGED vars
  BY <1>17 DEF BudgetLeft, Working, Judging, Provider, IInv, vars,
      iterVars, budgetVars, holdVars, credentialVars, planVars, historyVars
<1>18. QED
  BY <1>1, <1>2, <1>3, <1>4, <1>5, <1>6, <1>7, <1>8, <1>9, <1>10, <1>11, <1>12, <1>13, <1>14,
      <1>15, <1>16, <1>17 DEF Next, Handler

\* Unknown outcomes.
LEMMA StepUnknownPaid ==
  ASSUME IInv, [Next]_vars
  PROVE  UnknownPaid'
<1>1. CASE NextCandidate
  <2>1. CASE pc' = "done"
    BY <1>1, <2>1 DEF NextCandidate, UnknownPaid, Working, Judging, IInv, historyVars,
        budgetVars
  <2>2. CASE pc' = "admit"
    <3>1. NextIndex \in index + 1 .. Len(Candidates) /\ Candidates[NextIndex] \notin skipped
      BY <1>1, <2>2, NextIndexFacts, CandidateFacts DEF NextCandidate, Finish, IInv, TypeOK
    <3>2. Cardinality(unknown) <= unknownReplays
      BY <1>1, <3>1 DEF NextCandidate, IInv, UnknownPaid
    <3>3. QED
      BY <1>1, <2>2, <3>2 DEF NextCandidate, UnknownPaid, Working, Judging, IInv, historyVars,
          budgetVars
  <2>3. QED
    BY <1>1, <2>1, <2>2 DEF NextCandidate, Finish
<1>2. CASE PassOver
  BY <1>2, FiniteParts
  DEF PassOver, LeaveCandidate, UnknownPaid, Working, Judging, TypeOK, IInv,
      iterVars, budgetVars, holdVars, credentialVars, planVars, historyVars
<1>3. CASE Admit
  BY <1>3, FiniteParts
  DEF Admit, UnknownPaid, Working, Judging, TypeOK, IInv,
      iterVars, budgetVars, holdVars, credentialVars, planVars, historyVars
<1>4. CASE ReserveCapacity
  BY <1>4, FiniteParts
  DEF ReserveCapacity, LeaveCandidate, UnknownPaid, Working, Judging, TypeOK, IInv,
      iterVars, budgetVars, holdVars, credentialVars, planVars, historyVars
<1>5. CASE SelectCredential
  BY <1>5, FiniteParts
  DEF SelectCredential, LeaveCandidate, UnknownPaid, Working, Judging, TypeOK, IInv,
      iterVars, budgetVars, holdVars, credentialVars, planVars, historyVars
<1>6. CASE ConsumeRPM
  BY <1>6, FiniteParts
  DEF ConsumeRPM, LeaveCandidate, UnknownPaid, Working, Judging, TypeOK, IInv,
      iterVars, budgetVars, holdVars, credentialVars, planVars, historyVars
<1>7. CASE StartWire
  BY <1>7, FiniteParts
  DEF StartWire, UnknownPaid, Working, Judging, TypeOK, IInv,
      iterVars, budgetVars, holdVars, credentialVars, planVars, historyVars
<1>8. CASE NotStarted
  BY <1>8, FiniteParts
  DEF NotStarted, UnknownPaid, Working, Judging, TypeOK, IInv,
      iterVars, budgetVars, holdVars, credentialVars, planVars, historyVars
<1>9. CASE FinishWire
  <2>1. PICK r \in Outcomes :
          /\ result' = r
          /\ unknown' = IF UnknownOutcome(r) THEN unknown \cup {Provider} ELSE unknown
          /\ pc' = "judge" \/ (pc' = "dial" /\ Retries(r, Alternative))
    BY <1>9 DEF FinishWire
  <2>2. Cardinality(unknown) <= unknownReplays /\ unknownReplays' = unknownReplays
    BY <1>9 DEF FinishWire, IInv, UnknownPaid, Working, budgetVars
  <2>3. CASE UnknownOutcome(r)
    <3>1. pc' = "judge" /\ UnknownOutcome(result')
      BY <2>1, <2>3 DEF Retries, UnknownOutcome
    <3>2. Cardinality(unknown') <= unknownReplays' + 1
      <4>1. IsFiniteSet(unknown) /\ unknown' = unknown \cup {Provider}
        BY <2>1, <2>3, FiniteParts DEF IInv
      <4>2. /\ Cardinality(unknown') \in Nat /\ Cardinality(unknown) \in Nat
            /\ Cardinality(unknown') <= Cardinality(unknown) + 1
        BY <4>1, AddOne
      <4>3. unknownReplays \in Nat
        BY DEF IInv, TypeOK
      <4>4. QED
        BY <2>2, <4>2, <4>3
    <3>3. QED
      BY <3>1, <3>2 DEF UnknownPaid, Working, Judging, UnknownOutcome, Committed
  <2>4. CASE ~UnknownOutcome(r)
    BY <2>1, <2>2, <2>4, FiniteParts DEF UnknownPaid, Working, Judging, IInv, TypeOK
  <2>5. QED
    BY <2>3, <2>4
<1>10. CASE ProtocolFallback
  <2>1. ~UnknownOutcome(result)
    BY <1>10 DEF ProtocolFallback, UnknownOutcome
  <2>2. QED
    BY <1>10, <2>1 DEF ProtocolFallback, UnknownPaid, Working, Judging, IInv, historyVars,
        budgetVars
<1>11. CASE ReturnResult
  BY <1>11, FiniteParts
  DEF ReturnResult, UnknownPaid, Working, Judging, TypeOK, IInv,
      iterVars, budgetVars, holdVars, credentialVars, planVars, historyVars
<1>12. CASE RotateCredential
  <2>1. ~UnknownOutcome(result)
    BY <1>12 DEF RotateCredential, CredentialFailure, UnknownOutcome
  <2>2. Cardinality(unknown) <= unknownReplays
    BY <1>12, <2>1 DEF RotateCredential, UnknownPaid, Judging, IInv
  <2>3. QED
    BY <1>12, <2>2, FiniteParts
    DEF RotateCredential, LeaveCandidate, UnknownPaid, Working, Judging, IInv, historyVars,
        budgetVars, TypeOK
<1>13. CASE StopInterrupted
  BY <1>13, FiniteParts
  DEF StopInterrupted, Finish, UnknownPaid, Working, Judging, TypeOK, IInv,
      iterVars, budgetVars, holdVars, credentialVars, planVars, historyVars
<1>14. CASE RefuseReplay
  BY <1>14, FiniteParts
  DEF RefuseReplay, Finish, UnknownPaid, Working, Judging, TypeOK, IInv,
      iterVars, budgetVars, holdVars, credentialVars, planVars, historyVars
<1>15. CASE HandleResult
  <2>1. unknown' = unknown /\ index' = index /\ pc' \in {"done", "route"}
    BY <1>15 DEF HandleResult, Finish, LeaveCandidate, historyVars
  <2>2. Cardinality(unknown) \in Nat /\ unknownReplays \in Nat
    BY FiniteParts DEF IInv, TypeOK
  <2>3. Cardinality(unknown) <= unknownReplays + 1
    BY DEF IInv, UnknownPaid
  <2>4. CASE CrossesUnknown
    <3>1. unknownReplays' = unknownReplays + 1
      BY <1>15, <2>4 DEF HandleResult
    <3>2. QED
      BY <2>1, <2>2, <2>3, <3>1 DEF UnknownPaid, Working, Judging
  <2>5. CASE ~CrossesUnknown /\ ~UnknownOutcome(result)
    <3>1. unknownReplays' = unknownReplays
      BY <1>15, <2>2, <2>5 DEF HandleResult
    <3>2. Cardinality(unknown) <= unknownReplays
      BY <1>15, <2>5 DEF HandleResult, IInv, UnknownPaid, Judging
    <3>3. QED
      BY <2>1, <2>3, <3>1, <3>2 DEF UnknownPaid, Working, Judging
  <2>6. CASE ~CrossesUnknown /\ UnknownOutcome(result)
    <3>1. unknownReplays' = unknownReplays
      BY <1>15, <2>2, <2>6 DEF HandleResult
    <3>2. SkipsProvider(result, Alternative)
      BY <2>6 DEF UnknownOutcome, SkipsProvider
    <3>3. ~Alternative /\ skipped' = skipped \cup {Provider}
      BY <1>15, <2>6, <3>2 DEF CrossesUnknown, HandleResult
    <3>4. \A i \in index + 1 .. Len(Candidates) : Candidates[i] \in skipped'
      BY <3>3 DEF Alternative
    <3>5. QED
      BY <2>1, <2>3, <3>1, <3>4 DEF UnknownPaid, Working, Judging
  <2>7. QED
    BY <2>4, <2>5, <2>6
<1>16. CASE EndContext
  BY <1>16, FiniteParts
  DEF EndContext, UnknownPaid, Working, Judging, TypeOK, IInv,
      iterVars, budgetVars, holdVars, credentialVars, planVars, historyVars
<1>17. CASE UNCHANGED vars
  BY <1>17 DEF UnknownPaid, Working, Judging, TypeOK, IInv, vars,
      iterVars, budgetVars, holdVars, credentialVars, planVars, historyVars
<1>18. QED
  BY <1>1, <1>2, <1>3, <1>4, <1>5, <1>6, <1>7, <1>8, <1>9, <1>10, <1>11, <1>12, <1>13, <1>14,
      <1>15, <1>16, <1>17 DEF Next, Handler

\* The client's answer.
LEMMA StepAnswerTold ==
  ASSUME IInv, [Next]_vars
  PROVE  AnswerTold'
<1>1. CASE NextCandidate
  BY <1>1
  DEF NextCandidate, Finish, AnswerTold, Working, Judging, IInv,
      iterVars, budgetVars, holdVars, credentialVars, planVars, historyVars
<1>2. CASE PassOver
  BY <1>2
  DEF PassOver, LeaveCandidate, AnswerTold, Working, Judging, IInv,
      iterVars, budgetVars, holdVars, credentialVars, planVars, historyVars
<1>3. CASE Admit
  BY <1>3
  DEF Admit, AnswerTold, Working, Judging, IInv,
      iterVars, budgetVars, holdVars, credentialVars, planVars, historyVars
<1>4. CASE ReserveCapacity
  BY <1>4
  DEF ReserveCapacity, LeaveCandidate, AnswerTold, Working, Judging, IInv,
      iterVars, budgetVars, holdVars, credentialVars, planVars, historyVars
<1>5. CASE SelectCredential
  BY <1>5
  DEF SelectCredential, LeaveCandidate, AnswerTold, Working, Judging, IInv,
      iterVars, budgetVars, holdVars, credentialVars, planVars, historyVars
<1>6. CASE ConsumeRPM
  BY <1>6
  DEF ConsumeRPM, LeaveCandidate, AnswerTold, Working, Judging, IInv,
      iterVars, budgetVars, holdVars, credentialVars, planVars, historyVars
<1>7. CASE StartWire
  BY <1>7
  DEF StartWire, AnswerTold, Working, Judging, IInv,
      iterVars, budgetVars, holdVars, credentialVars, planVars, historyVars
<1>8. CASE NotStarted
  BY <1>8
  DEF NotStarted, AnswerTold, Working, Judging, TypeOK, IInv,
      iterVars, budgetVars, holdVars, credentialVars, planVars, historyVars
<1>9. CASE FinishWire
  BY <1>9, OutcomeFacts
  DEF FinishWire, AnswerTold, Working, Judging, Retries, Committed, IInv,
      iterVars, budgetVars, holdVars, credentialVars, planVars, historyVars
<1>10. CASE ProtocolFallback
  BY <1>10
  DEF ProtocolFallback, AnswerTold, Working, Judging, Terminal, Committed, IInv,
      iterVars, budgetVars, holdVars, credentialVars, planVars, historyVars
<1>11. CASE ReturnResult
  BY <1>11
  DEF ReturnResult, AnswerTold, Working, Judging, IInv,
      iterVars, budgetVars, holdVars, credentialVars, planVars, historyVars
<1>12. CASE RotateCredential
  BY <1>12
  DEF RotateCredential, LeaveCandidate, AnswerTold, Working, Judging, CredentialFailure,
      Committed, IInv,
      iterVars, budgetVars, holdVars, credentialVars, planVars, historyVars
<1>13. CASE StopInterrupted
  BY <1>13
  DEF StopInterrupted, Finish, AnswerTold, Working, Judging, IInv,
      iterVars, budgetVars, holdVars, credentialVars, planVars, historyVars
<1>14. CASE RefuseReplay
  BY <1>14
  DEF RefuseReplay, Finish, AnswerTold, Working, Judging, IInv,
      iterVars, budgetVars, holdVars, credentialVars, planVars, historyVars
<1>15. CASE HandleResult
  BY <1>15
  DEF HandleResult, LeaveCandidate, Finish, AnswerTold, Working, Judging, IInv,
      iterVars, budgetVars, holdVars, credentialVars, planVars, historyVars
<1>16. CASE EndContext
  BY <1>16
  DEF EndContext, AnswerTold, Working, Judging, TypeOK, IInv,
      iterVars, budgetVars, holdVars, credentialVars, planVars, historyVars
<1>17. CASE UNCHANGED vars
  BY <1>17 DEF AnswerTold, Working, Judging, IInv, vars,
      iterVars, budgetVars, holdVars, credentialVars, planVars, historyVars
<1>18. QED
  BY <1>1, <1>2, <1>3, <1>4, <1>5, <1>6, <1>7, <1>8, <1>9, <1>10, <1>11, <1>12, <1>13, <1>14,
      <1>15, <1>16, <1>17 DEF Next, Handler

\* Payload and error.
LEMMA StepEnvelope ==
  ASSUME IInv, [Next]_vars
  PROVE  EnvelopeAfterPayloadOnlyOnReset'
<1>1. CASE NextCandidate
  BY <1>1
  DEF NextCandidate, Finish, EnvelopeAfterPayloadOnlyOnReset, AnswerTold, Working, Judging,
      IInv,
      iterVars, budgetVars, holdVars, credentialVars, planVars, historyVars
<1>2. CASE PassOver
  BY <1>2
  DEF PassOver, LeaveCandidate, EnvelopeAfterPayloadOnlyOnReset, IInv,
      iterVars, budgetVars, holdVars, credentialVars, planVars, historyVars
<1>3. CASE Admit
  BY <1>3
  DEF Admit, EnvelopeAfterPayloadOnlyOnReset, IInv,
      iterVars, budgetVars, holdVars, credentialVars, planVars, historyVars
<1>4. CASE ReserveCapacity
  BY <1>4
  DEF ReserveCapacity, LeaveCandidate, EnvelopeAfterPayloadOnlyOnReset, IInv,
      iterVars, budgetVars, holdVars, credentialVars, planVars, historyVars
<1>5. CASE SelectCredential
  BY <1>5
  DEF SelectCredential, LeaveCandidate, EnvelopeAfterPayloadOnlyOnReset, IInv,
      iterVars, budgetVars, holdVars, credentialVars, planVars, historyVars
<1>6. CASE ConsumeRPM
  BY <1>6
  DEF ConsumeRPM, LeaveCandidate, EnvelopeAfterPayloadOnlyOnReset, IInv,
      iterVars, budgetVars, holdVars, credentialVars, planVars, historyVars
<1>7. CASE StartWire
  BY <1>7
  DEF StartWire, EnvelopeAfterPayloadOnlyOnReset, IInv,
      iterVars, budgetVars, holdVars, credentialVars, planVars, historyVars
<1>8. CASE NotStarted
  BY <1>8
  DEF NotStarted, EnvelopeAfterPayloadOnlyOnReset, AnswerTold, Working, Judging, IInv,
      iterVars, budgetVars, holdVars, credentialVars, planVars, historyVars
<1>9. CASE FinishWire
  BY <1>9
  DEF FinishWire, EnvelopeAfterPayloadOnlyOnReset, AnswerTold, Working, Judging, IInv,
      iterVars, budgetVars, holdVars, credentialVars, planVars, historyVars
<1>10. CASE ProtocolFallback
  BY <1>10
  DEF ProtocolFallback, EnvelopeAfterPayloadOnlyOnReset, IInv,
      iterVars, budgetVars, holdVars, credentialVars, planVars, historyVars
<1>11. CASE ReturnResult
  BY <1>11
  DEF ReturnResult, EnvelopeAfterPayloadOnlyOnReset, IInv,
      iterVars, budgetVars, holdVars, credentialVars, planVars, historyVars
<1>12. CASE RotateCredential
  BY <1>12
  DEF RotateCredential, LeaveCandidate, EnvelopeAfterPayloadOnlyOnReset, IInv,
      iterVars, budgetVars, holdVars, credentialVars, planVars, historyVars
<1>13. CASE StopInterrupted
  BY <1>13
  DEF StopInterrupted, Finish, EnvelopeAfterPayloadOnlyOnReset, AnswerTold, Working, Judging,
      IInv,
      iterVars, budgetVars, holdVars, credentialVars, planVars, historyVars
<1>14. CASE RefuseReplay
  BY <1>14
  DEF RefuseReplay, Finish, EnvelopeAfterPayloadOnlyOnReset, AnswerTold, Working, Judging,
      CrossesUnknown, UnknownOutcome, Committed, IInv,
      iterVars, budgetVars, holdVars, credentialVars, planVars, historyVars
<1>15. CASE HandleResult
  BY <1>15
  DEF HandleResult, LeaveCandidate, Finish, EnvelopeAfterPayloadOnlyOnReset, AnswerTold,
      Working, Judging, IInv,
      iterVars, budgetVars, holdVars, credentialVars, planVars, historyVars
<1>16. CASE EndContext
  BY <1>16
  DEF EndContext, EnvelopeAfterPayloadOnlyOnReset, IInv,
      iterVars, budgetVars, holdVars, credentialVars, planVars, historyVars
<1>17. CASE UNCHANGED vars
  BY <1>17 DEF EnvelopeAfterPayloadOnlyOnReset, IInv, vars,
      iterVars, budgetVars, holdVars, credentialVars, planVars, historyVars
<1>18. QED
  BY <1>1, <1>2, <1>3, <1>4, <1>5, <1>6, <1>7, <1>8, <1>9, <1>10, <1>11, <1>12, <1>13, <1>14,
      <1>15, <1>16, <1>17 DEF Next, Handler

\* The one record.
LEMMA StepSettled ==
  ASSUME IInv, [Next]_vars
  PROVE  SettledOnce'
<1>1. CASE NextCandidate
  BY <1>1
  DEF NextCandidate, Finish, SettledOnce, TypeOK, AnswerTold, Working, Judging, IInv,
      iterVars, budgetVars, holdVars, credentialVars, planVars, historyVars
<1>2. CASE PassOver
  BY <1>2
  DEF PassOver, LeaveCandidate, SettledOnce, TypeOK, IInv,
      iterVars, budgetVars, holdVars, credentialVars, planVars, historyVars
<1>3. CASE Admit
  BY <1>3
  DEF Admit, SettledOnce, TypeOK, IInv,
      iterVars, budgetVars, holdVars, credentialVars, planVars, historyVars
<1>4. CASE ReserveCapacity
  BY <1>4
  DEF ReserveCapacity, LeaveCandidate, SettledOnce, TypeOK, IInv,
      iterVars, budgetVars, holdVars, credentialVars, planVars, historyVars
<1>5. CASE SelectCredential
  BY <1>5
  DEF SelectCredential, LeaveCandidate, SettledOnce, TypeOK, IInv,
      iterVars, budgetVars, holdVars, credentialVars, planVars, historyVars
<1>6. CASE ConsumeRPM
  BY <1>6
  DEF ConsumeRPM, LeaveCandidate, SettledOnce, TypeOK, IInv,
      iterVars, budgetVars, holdVars, credentialVars, planVars, historyVars
<1>7. CASE StartWire
  BY <1>7
  DEF StartWire, SettledOnce, TypeOK, IInv,
      iterVars, budgetVars, holdVars, credentialVars, planVars, historyVars
<1>8. CASE NotStarted
  BY <1>8
  DEF NotStarted, SettledOnce, TypeOK, IInv,
      iterVars, budgetVars, holdVars, credentialVars, planVars, historyVars
<1>9. CASE FinishWire
  BY <1>9
  DEF FinishWire, SettledOnce, TypeOK, IInv,
      iterVars, budgetVars, holdVars, credentialVars, planVars, historyVars
<1>10. CASE ProtocolFallback
  BY <1>10
  DEF ProtocolFallback, SettledOnce, TypeOK, IInv,
      iterVars, budgetVars, holdVars, credentialVars, planVars, historyVars
<1>11. CASE ReturnResult
  BY <1>11
  DEF ReturnResult, SettledOnce, TypeOK, IInv,
      iterVars, budgetVars, holdVars, credentialVars, planVars, historyVars
<1>12. CASE RotateCredential
  BY <1>12
  DEF RotateCredential, LeaveCandidate, SettledOnce, TypeOK, IInv,
      iterVars, budgetVars, holdVars, credentialVars, planVars, historyVars
<1>13. CASE StopInterrupted
  BY <1>13
  DEF StopInterrupted, Finish, SettledOnce, TypeOK, AnswerTold, Working, Judging, IInv,
      iterVars, budgetVars, holdVars, credentialVars, planVars, historyVars
<1>14. CASE RefuseReplay
  BY <1>14
  DEF RefuseReplay, Finish, SettledOnce, TypeOK, AnswerTold, Working, Judging, IInv,
      iterVars, budgetVars, holdVars, credentialVars, planVars, historyVars
<1>15. CASE HandleResult
  BY <1>15
  DEF HandleResult, LeaveCandidate, Finish, SettledOnce, TypeOK, AnswerTold, Working, Judging,
      IInv,
      iterVars, budgetVars, holdVars, credentialVars, planVars, historyVars
<1>16. CASE EndContext
  BY <1>16
  DEF EndContext, SettledOnce, TypeOK, IInv,
      iterVars, budgetVars, holdVars, credentialVars, planVars, historyVars
<1>17. CASE UNCHANGED vars
  BY <1>17 DEF SettledOnce, TypeOK, IInv, vars,
      iterVars, budgetVars, holdVars, credentialVars, planVars, historyVars
<1>18. QED
  BY <1>1, <1>2, <1>3, <1>4, <1>5, <1>6, <1>7, <1>8, <1>9, <1>10, <1>11, <1>12, <1>13, <1>14,
      <1>15, <1>16, <1>17 DEF Next, Handler

-----------------------------------------------------------------------------
(* The theorems *)

LEMMA Initially == Init => IInv
<1> SUFFICES ASSUME Init PROVE IInv
  OBVIOUS
<1>1. TypeOK
  <2>1. lease \in BOOLEAN /\ slot \in BOOLEAN
    BY Zenon DEF Init
  <2>2. result \in Results
    BY DEF Init, Results
  <2>3. QED
    BY <2>1, <2>2, CandidateFacts DEF Init, TypeOK
<1>2. HeldWhileInside /\ OnCandidate /\ KeyChosen /\ BudgetLeft /\ AnswerTold
  BY DEF Init, HeldWhileInside, OnCandidate, KeyChosen, BudgetLeft, AnswerTold, Working, Judging
<1>3. WithinBudget /\ UnknownPaid
  BY FS_EmptySet, RequestAssumption
  DEF Init, WithinBudget, UnknownPaid, Working, Judging, RequestAssumption
<1>4. EnvelopeAfterPayloadOnlyOnReset /\ SettledOnce
  BY DEF Init, EnvelopeAfterPayloadOnlyOnReset, SettledOnce
<1>5. QED
  BY <1>1, <1>2, <1>3, <1>4 DEF IInv

\* The invariant holds along every behaviour of a request.
THEOREM Invariance == Spec => []IInv
<1>1. IInv /\ [Next]_vars => IInv'
  BY StepTypeOK, StepHeld, StepOnCandidate, StepKeyChosen, StepWithinBudget,
     StepBudgetLeft, StepUnknownPaid, StepAnswerTold, StepEnvelope, StepSettled DEF IInv
<1>2. QED
  BY <1>1, Initially, PTL DEF Spec

\* The fields of a request keep their types (the structures of relay_handler.go).
THEOREM TypeCorrect == Spec => []TypeOK
<1>1. IInv => TypeOK
  BY DEF IInv
<1>2. QED
  BY <1>1, Invariance, PTL

\* No return, refusal or rotation of processCandidate leaks or frees twice a lease or
\* an in-flight slot, for any list of candidates.
THEOREM NothingLeaks == Spec => []HeldWhileInside
<1>1. IInv => HeldWhileInside
  BY DEF IInv
<1>2. QED
  BY <1>1, Invariance, PTL

\* The three budgets of attempt_budget.go are never overrun.
THEOREM BudgetsHold == Spec => []WithinBudget
<1>1. IInv => WithinBudget
  BY DEF IInv
<1>2. QED
  BY <1>1, Invariance, PTL

\* At most MaxUnknownReplays replays follow outcomes the router calls unknown.
THEOREM UnknownReplaysBounded == Spec => []UnknownReplayBounded
<1>1. IInv => UnknownReplayBounded
  BY FiniteParts, RequestAssumption
  DEF IInv, TypeOK, UnknownPaid, WithinBudget, UnknownReplayBounded, RequestAssumption
<1>2. QED
  BY <1>1, Invariance, PTL

\* Only a continuation's reset puts an error behind delivered payload.
THEOREM PayloadUngarbled == Spec => []EnvelopeAfterPayloadOnlyOnReset
<1>1. IInv => EnvelopeAfterPayloadOnlyOnReset
  BY DEF IInv
<1>2. QED
  BY <1>1, Invariance, PTL

\* A request is recorded once, and a client still there is answered.
THEOREM SettledExactlyOnce == Spec => []SettledOnce
<1>1. IInv => SettledOnce
  BY DEF IInv
<1>2. QED
  BY <1>1, Invariance, PTL

\* No wire attempt goes to a channel given up, nor to any once payload was delivered.
THEOREM GivenUpForGood == Spec => NoWireAfterGivingUp
<1>1. IInv /\ [Next]_vars => [wires' > wires => Provider \notin skipped /\ answer = "none"]_vars
  <2>1. SUFFICES ASSUME IInv, [Next]_vars, wires' > wires
                 PROVE  Provider \notin skipped /\ answer = "none"
    OBVIOUS
  <2>2. wires \in Nat
    BY <2>1 DEF IInv, TypeOK
  <2>3. wires' # wires
    BY <2>1, <2>2
  <2>4. StartWire
    BY <2>1, <2>3
    DEF Next, Handler, vars, NextCandidate, PassOver, Admit, ReserveCapacity, SelectCredential,
        ConsumeRPM, NotStarted, FinishWire, ProtocolFallback, ReturnResult, RotateCredential,
        StopInterrupted, RefuseReplay, HandleResult, EndContext, budgetVars
  <2>5. QED
    BY <2>1, <2>4 DEF StartWire, IInv, OnCandidate, AnswerTold, Working
<1>2. QED
  BY <1>1, Invariance, PTL DEF Spec, NoWireAfterGivingUp

=============================================================================
