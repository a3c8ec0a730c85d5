---------------------------- MODULE RelayRequest ----------------------------
(***************************************************************************)
(* One relayed HTTP request (internal/relay/relay_handler.go and           *)
(* relay_handler_support.go): the walk over the candidates the iterator    *)
(* was built with, the admission of a provider, the rotation of its        *)
(* credentials, same-credential retries, the protocol fallback, and the    *)
(* request's budgets (attempt_budget.go).                                  *)
(*                                                                         *)
(* What a wire attempt may report is a record [kind, sent, written]: the   *)
(* class routing_decision.go and failure_domain.go put the result in,      *)
(* whether the transport was entered (DispatchState), and whether anything *)
(* reached the client.  Shared state other requests change (cooldowns,     *)
(* in-flight slots, rate windows, credential cooldowns) answers yes or no; *)
(* RuntimeAvailability and ChannelConcurrency model it.                    *)
(***************************************************************************)
EXTENDS Naturals, Sequences, FiniteSets

CONSTANTS
  Providers,          \* channels
  Keys,               \* the credentials of a channel
  Candidates,         \* the channel of each candidate, in the iterator's order
  MaxProviders,       \* attempt budget: distinct channels
  MaxWires,           \* attempt budget: wire attempts
  MaxUnknownReplays,  \* attempt budget: replays whose upstream outcome is unknown
  MaxCredentials,     \* defaultMaxCredentialsPerProvider
  MaxRetries,         \* same-credential attempts
  None

ASSUME RequestAssumption ==
  /\ IsFiniteSet(Providers) /\ IsFiniteSet(Keys)
  /\ Candidates \in Seq(Providers)
  /\ MaxProviders \in Nat \ {0} /\ MaxWires \in Nat \ {0} /\ MaxUnknownReplays \in Nat
  /\ MaxCredentials \in Nat \ {0} /\ MaxRetries \in Nat \ {0}
  /\ None \notin Keys

VARIABLES
  ctx,       \* the request's context: active, canceled by the client, interrupted
  pc,
  index, skipped,                      \* Iterator
  wires, charged, unknownReplays,      \* relayAttemptBudget
  lease, slot,                         \* AcquireCandidate, TryAcquireChannel
  limit, excluded, key,                \* credential loop of processCandidate
  plans, plan, retry,                  \* protocol plans and retries
  result,
  answer,    \* what the client got: nothing, payload, or an error
  saved,     \* calls of SaveWithChannelStats
  unknown,   \* history: channels left with an unknown outcome
  silent     \* history: channels that broke off after dispatch without an answer

iterVars == <<index, skipped>>
budgetVars == <<wires, charged, unknownReplays>>
holdVars == <<lease, slot>>
credentialVars == <<limit, excluded, key>>
planVars == <<plans, plan, retry>>
historyVars == <<unknown, silent>>
vars == <<ctx, pc, iterVars, budgetVars, holdVars, credentialVars, planVars,
          result, answer, saved, historyVars>>

Provider == Candidates[index]

\* HasAlternativeProvider: a later candidate of another channel not yet skipped.
Alternative ==
  \E i \in index + 1 .. Len(Candidates) :
    Candidates[i] # Provider /\ Candidates[i] \notin skipped

Init ==
  /\ ctx = "active" /\ pc = "route"
  /\ index = 0 /\ skipped = {}
  /\ wires = 0 /\ charged = {} /\ unknownReplays = 0
  /\ lease = FALSE /\ slot = FALSE
  /\ limit = 0 /\ excluded = {} /\ key = None
  /\ plans = 0 /\ plan = 0 /\ retry = 0
  /\ result = [kind |-> "none", sent |-> FALSE, written |-> FALSE]
  /\ answer = "none" /\ saved = 0
  /\ unknown = {} /\ silent = {}

-----------------------------------------------------------------------------
(* RoutingDecision: the verdict on one result *)

\* Failures of a request whose context is alive.  "broken" is a connection that
\* failed after dispatch, "transient" an answer that blames the provider, "busy"
\* and "missing" a capacity verdict with and without a retryable status, "server"
\* another 5xx, "transport" a failure without a status.
Failures ==
  {"ambiguous", "timeout", "broken", "transient", "busy", "missing", "capability",
   "unsupported", "credential", "policy", "invalid", "server", "transport", "reset"}

Results ==
  [kind : Failures \cup {"none", "success", "canceled", "interrupted", "budget"},
   sent : BOOLEAN, written : BOOLEAN]

Committed(r) == r.written \/ r.kind = "reset"

Terminal(r) ==
  \/ r.kind \in {"success", "interrupted", "canceled", "budget", "policy"}
  \/ Committed(r)

\* SkipProvider, given whether another provider is left.
SkipsProvider(r, alternative) ==
  \/ r.kind \in {"ambiguous", "timeout"}
  \/ /\ ~Committed(r)
     /\ \/ r.kind \in {"broken", "transient", "unsupported"}
        \/ alternative /\ r.kind \in {"busy", "missing", "server"}

\* RetrySameCredential
Retries(r, alternative) ==
  /\ ~Committed(r)
  /\ \/ r.kind = "transport"
     \/ ~alternative /\ r.kind \in {"busy", "server"}

CredentialFailure(r) == r.kind = "credential" /\ ~Committed(r)

\* routingReplayUnknownOutcome
UnknownOutcome(r) ==
  r.kind \in {"ambiguous", "timeout"} /\ r.sent /\ ~Committed(r)

\* What a wire attempt can report.  The context is read when the result is
\* classified: a client that left, or an interrupt, turns every failure into its
\* own class, except that a first-token timeout survives the client's leaving.
Outcomes ==
  LET failure(kinds, sent, written) == [kind : kinds, sent : sent, written : written]
  IN  {[kind |-> "success", sent |-> TRUE, written |-> TRUE]} \cup
      CASE ctx = "active" ->
             failure(Failures, {TRUE}, {FALSE})
               \cup failure({"ambiguous", "timeout", "transport"}, {FALSE}, {FALSE})
               \cup failure({"ambiguous", "timeout", "broken", "reset"}, {TRUE}, {TRUE})
        [] ctx = "canceled" ->
             failure({"canceled", "timeout"}, {TRUE}, BOOLEAN)
        [] ctx = "interrupted" ->
             failure({"interrupted"}, {TRUE}, BOOLEAN)

-----------------------------------------------------------------------------

\* processCandidate returns: the deferred ReleaseLease runs.
LeaveCandidate == pc' = "route" /\ lease' = FALSE

\* The request is over.  FlushOrError after payload garbles the response.
Finish(reply) ==
  /\ pc' = "done"
  /\ lease' = FALSE
  /\ saved' = saved + 1
  /\ answer' = CASE reply = "none" -> answer
                 [] reply = "error" /\ answer = "none" -> "error"
                 [] OTHER -> "garbled"

(* relayHandler.run *)

\* Faulty variant: a skipped channel comes up again.
ForgetfulNextIndex == index + 1

\* Iterator.Next passes over the candidates of skipped channels.
NextIndex ==
  LET later == {i \in index + 1 .. Len(Candidates) : Candidates[i] \notin skipped}
  IN  IF later = {} THEN Len(Candidates) + 1
      ELSE CHOOSE i \in later : \A j \in later : i <= j

wireExhausted == wires >= MaxWires

NextCandidate ==
  /\ pc = "route"
  /\ index' = NextIndex
  /\ UNCHANGED <<ctx, skipped, budgetVars, slot, credentialVars, planVars, result, historyVars>>
  /\ \/ /\ NextIndex > Len(Candidates) \/ wireExhausted
        /\ Finish("error")                      \* writeExhaustedRelayError
     \/ /\ NextIndex <= Len(Candidates) /\ ~wireExhausted
        /\ \/ ctx = "canceled" /\ Finish("none")
           \/ ctx = "interrupted" /\ Finish("error")
           \/ ctx = "active" /\ pc' = "admit" /\ UNCHANGED <<lease, answer, saved>>

-----------------------------------------------------------------------------
(* processCandidate *)

\* A channel that is gone or disabled, over the provider budget, or refused by
\* AcquireCandidate is passed over.
PassOver ==
  /\ pc = "admit"
  /\ skipped' = IF Provider \notin charged /\ Cardinality(charged) >= MaxProviders
                THEN skipped \cup {Provider} ELSE skipped
  /\ LeaveCandidate
  /\ UNCHANGED <<ctx, index, budgetVars, slot, credentialVars, planVars, result,
                 answer, saved, historyVars>>

\* Faulty variant: the provider budget is not looked at before a lease is taken.
AdmitUnbudgeted ==
  /\ pc = "admit"
  /\ pc' = "reserve"
  /\ lease' = TRUE
  /\ excluded' = {}
  /\ limit' = IF ~Alternative /\ Cardinality(Keys) > MaxCredentials
              THEN Cardinality(Keys) ELSE MaxCredentials
  /\ UNCHANGED <<ctx, iterVars, budgetVars, slot, key, planVars, result, answer,
                 saved, historyVars>>

Admit ==
  /\ pc = "admit"
  /\ Provider \in charged \/ Cardinality(charged) < MaxProviders
  /\ pc' = "reserve"
  /\ lease' = TRUE
  /\ excluded' = {}
  /\ limit' = IF ~Alternative /\ Cardinality(Keys) > MaxCredentials
              THEN Cardinality(Keys) ELSE MaxCredentials
  /\ UNCHANGED <<ctx, iterVars, budgetVars, slot, key, planVars, result, answer,
                 saved, historyVars>>

\* Faulty variant: a candidate without a free slot is put back in front.
RequeueCapacity ==
  /\ pc = "reserve"
  /\ \/ slot' = TRUE /\ pc' = "select" /\ UNCHANGED <<lease, index>>
     \/ LeaveCandidate /\ index' = index - 1 /\ UNCHANGED slot
  /\ UNCHANGED <<ctx, skipped, budgetVars, credentialVars, planVars, result, answer,
                 saved, historyVars>>

\* TryAcquireChannel: the slot is taken before a credential is charged.
ReserveCapacity ==
  /\ pc = "reserve"
  /\ \/ slot' = TRUE /\ pc' = "select" /\ UNCHANGED lease
     \/ LeaveCandidate /\ UNCHANGED slot
  /\ UNCHANGED <<ctx, iterVars, budgetVars, credentialVars, planVars, result, answer,
                 saved, historyVars>>

SelectCredential ==
  /\ pc = "select"
  /\ \/ /\ key' \in Keys \ excluded
        /\ plans' \in 1..2
        /\ pc' = "rpm"
        /\ UNCHANGED <<skipped, lease, slot>>
     \/ \* no credential is left or none has a plan
        /\ slot' = FALSE
        /\ skipped' = IF excluded = {} THEN skipped ELSE skipped \cup {Provider}
        /\ LeaveCandidate
        /\ UNCHANGED <<key, plans>>
  /\ UNCHANGED <<ctx, index, budgetVars, limit, excluded, plan, retry, result, answer,
                 saved, historyVars>>

\* Faulty variant: a request over the rate limit keeps its slot.
ConsumeRPMKeepingSlot ==
  /\ pc = "rpm"
  /\ \/ pc' = "dial" /\ plan' = 1 /\ retry' = 0 /\ UNCHANGED holdVars
     \/ LeaveCandidate /\ UNCHANGED <<slot, plan, retry>>
  /\ UNCHANGED <<ctx, iterVars, budgetVars, credentialVars, plans, result, answer,
                 saved, historyVars>>

ConsumeRPM ==
  /\ pc = "rpm"
  /\ \/ pc' = "dial" /\ plan' = 1 /\ retry' = 0 /\ UNCHANGED holdVars
     \/ LeaveCandidate /\ slot' = FALSE /\ UNCHANGED <<plan, retry>>
  /\ UNCHANGED <<ctx, iterVars, budgetVars, credentialVars, plans, result, answer,
                 saved, historyVars>>

-----------------------------------------------------------------------------
(* runProtocolRetries *)

\* tryStartWire charges the attempt.  Its own checks cannot fail here: the wire
\* budget was checked just before, the provider budget on admission.
StartWire ==
  /\ pc = "dial" /\ ~wireExhausted /\ ctx = "active"
  /\ wires' = wires + 1
  /\ charged' = charged \cup {Provider}
  /\ pc' = "wire"
  /\ UNCHANGED <<ctx, iterVars, unknownReplays, holdVars, credentialVars, planVars,
                 result, answer, saved, historyVars>>

\* No attempt is made: the wire budget is spent, the request is over, or the
\* attempt cannot be built.
NotStarted ==
  /\ pc = "dial"
  /\ result' = [kind |-> IF wireExhausted THEN "budget"
                         ELSE IF ctx = "active" THEN "server" ELSE ctx,
                sent |-> FALSE, written |-> FALSE]
  /\ pc' = "judge"
  /\ UNCHANGED <<ctx, iterVars, budgetVars, holdVars, credentialVars, planVars,
                 answer, saved, historyVars>>

\* The attempt ends; the same credential is tried again when the verdict says so.
FinishWire ==
  /\ pc = "wire"
  /\ \E r \in Outcomes :
       /\ result' = r
       /\ answer' = IF r.written THEN "payload" ELSE answer
       /\ unknown' = IF UnknownOutcome(r) THEN unknown \cup {Provider} ELSE unknown
       /\ silent' = IF r.sent /\ ~Committed(r) /\ r.kind \in {"ambiguous", "timeout", "broken"}
                    THEN silent \cup {Provider} ELSE silent
       /\ IF Retries(r, Alternative) /\ retry + 1 < MaxRetries
          THEN pc' = "dial" /\ retry' = retry + 1
          ELSE pc' = "judge" /\ UNCHANGED retry
  /\ UNCHANGED <<ctx, iterVars, budgetVars, holdVars, credentialVars, plans, plan, saved>>

-----------------------------------------------------------------------------
(* runSameChannelAttempts *)

\* A pre-execution mismatch is tried once with the other protocol.
ProtocolFallback ==
  /\ pc = "judge"
  /\ ~Terminal(result) /\ ~SkipsProvider(result, Alternative)
  /\ plan = 1 /\ plan < plans
  /\ result.kind \in {"capability", "invalid"}
  /\ pc' = "dial" /\ plan' = 2 /\ retry' = 0
  /\ UNCHANGED <<ctx, iterVars, budgetVars, holdVars, credentialVars, plans, result,
                 answer, saved, historyVars>>

\* It returns, and the deferred ReleaseChannel runs.
ReturnResult ==
  /\ pc = "judge"
  /\ slot' = FALSE
  /\ pc' = "settle"
  /\ skipped' = IF result.kind \in {"busy", "missing"} /\ SkipsProvider(result, Alternative)
                THEN skipped \cup {Provider} ELSE skipped
  /\ UNCHANGED <<ctx, index, budgetVars, lease, credentialVars, planVars, result,
                 answer, saved, historyVars>>

-----------------------------------------------------------------------------
(* The rest of processCandidate, and handleAttemptResult *)

RotateCredential ==
  /\ pc = "settle"
  /\ CredentialFailure(result)
  /\ excluded' = excluded \cup {key}
  /\ IF Cardinality(excluded') >= limit
     THEN LeaveCandidate /\ skipped' = skipped \cup {Provider}
     ELSE pc' = "reserve" /\ UNCHANGED <<lease, skipped>>
  /\ UNCHANGED <<ctx, index, budgetVars, slot, limit, key, planVars, result, answer,
                 saved, historyVars>>

\* Faulty variant: an interrupt always answers with an error.
StopInterruptedLoudly ==
  /\ pc = "settle" /\ result.kind = "interrupted"
  /\ Finish("error")
  /\ UNCHANGED <<ctx, iterVars, budgetVars, slot, credentialVars, planVars, result, historyVars>>

\* An interrupt answers only when neither payload nor an early heartbeat was
\* written; \E heartbeat stands for the latter.
StopInterrupted ==
  /\ pc = "settle" /\ result.kind = "interrupted"
  /\ \E heartbeat \in BOOLEAN :
       Finish(IF result.written \/ heartbeat THEN "none" ELSE "error")
  /\ UNCHANGED <<ctx, iterVars, budgetVars, slot, credentialVars, planVars, result, historyVars>>

CrossesUnknown ==
  UnknownOutcome(result) /\ SkipsProvider(result, Alternative) /\ Alternative

\* Faulty variant: the replay after the last allowed one is let through.
UnknownReplayAllowedOffByOne == unknownReplays <= MaxUnknownReplays

\* tryUnknownCrossProviderReplay
UnknownReplayAllowed == unknownReplays < MaxUnknownReplays

\* Faulty variant: ends the request without telling the client.
RefuseReplaySilently ==
  /\ pc = "settle" /\ CrossesUnknown /\ ~UnknownReplayAllowed
  /\ Finish("none")
  /\ UNCHANGED <<ctx, iterVars, budgetVars, slot, credentialVars, planVars, result, historyVars>>

RefuseReplay ==
  /\ pc = "settle" /\ CrossesUnknown /\ ~UnknownReplayAllowed
  /\ Finish("error")
  /\ UNCHANGED <<ctx, iterVars, budgetVars, slot, credentialVars, planVars, result, historyVars>>

HandleResult ==
  /\ pc = "settle" /\ ~CredentialFailure(result) /\ result.kind # "interrupted"
  /\ CrossesUnknown => UnknownReplayAllowed
  /\ unknownReplays' = unknownReplays + IF CrossesUnknown THEN 1 ELSE 0
  /\ skipped' = IF SkipsProvider(result, Alternative) THEN skipped \cup {Provider} ELSE skipped
  /\ \/ result.kind \in {"success", "canceled"} /\ Finish("none")
     \/ result.kind \in {"reset", "policy"} /\ Finish("error")
     \/ /\ result.kind \notin {"success", "canceled", "reset", "policy"}
        /\ \/ result.written /\ Finish("none")
           \/ ~result.written /\ LeaveCandidate /\ UNCHANGED <<answer, saved>>
  /\ UNCHANGED <<ctx, index, wires, charged, slot, credentialVars, planVars, result,
                 historyVars>>

-----------------------------------------------------------------------------

\* The client leaves, or an administrator interrupts the request: whichever comes
\* first is the context's cause.
EndContext ==
  /\ ctx = "active" /\ pc # "done"
  /\ ctx' \in {"canceled", "interrupted"}
  /\ UNCHANGED <<pc, iterVars, budgetVars, holdVars, credentialVars, planVars, result,
                 answer, saved, historyVars>>

Handler ==
  \/ NextCandidate \/ PassOver \/ Admit
  \/ ReserveCapacity \/ SelectCredential \/ ConsumeRPM
  \/ StartWire \/ NotStarted \/ FinishWire \/ ProtocolFallback \/ ReturnResult
  \/ RotateCredential \/ StopInterrupted \/ RefuseReplay \/ HandleResult

Next == Handler \/ EndContext

Spec == Init /\ [][Next]_vars

\* The handler's goroutine runs, and every wire attempt ends some time.
FairSpec == Spec /\ WF_vars(Handler)

-----------------------------------------------------------------------------

\* The shape of the state; every result has a class and flags (attemptResult).
TypeOK ==
  /\ ctx \in {"active", "canceled", "interrupted"}
  /\ pc \in {"route", "admit", "reserve", "select", "rpm", "dial", "wire", "judge",
             "settle", "done"}
  /\ index \in 0 .. Len(Candidates) + 1 /\ skipped \subseteq Providers
  /\ wires \in Nat /\ charged \subseteq Providers /\ unknownReplays \in Nat
  /\ lease \in BOOLEAN /\ slot \in BOOLEAN
  /\ limit \in Nat /\ excluded \subseteq Keys /\ key \in Keys \cup {None}
  /\ plans \in 0..2 /\ plan \in 0..2 /\ retry \in Nat
  /\ result \in Results
  /\ answer \in {"none", "payload", "error", "garbled"} /\ saved \in Nat
  /\ unknown \subseteq Providers /\ silent \subseteq Providers

\* The lease of a provider is held exactly while its candidate is worked on, and
\* an in-flight slot exactly from its reservation to the return of the attempts:
\* no return, refusal or rotation of processCandidate leaks or double-frees one.
HeldWhileInside ==
  /\ lease <=> pc \notin {"route", "admit", "done"}
  /\ slot <=> pc \in {"select", "rpm", "dial", "wire", "judge"}

\* The request's budgets hold over every mix of candidates, credentials, plans and
\* retries, though they are checked in three places and charged in a fourth.
WithinBudget ==
  /\ wires <= MaxWires
  /\ Cardinality(charged) <= MaxProviders /\ Cardinality(charged) <= wires
  /\ unknownReplays <= MaxUnknownReplays

\* At most MaxUnknownReplays channels are tried after others were left with an
\* outcome the router calls unknown (relay_handler.go:350-366).
UnknownReplayBounded == Cardinality(unknown) <= MaxUnknownReplays + 1

\* A channel the request gave up is never contacted again, not even through a later
\* candidate with another model, nor is any channel once the client got payload.
NoWireAfterGivingUp ==
  [][wires' > wires => Provider \notin skipped /\ answer = "none"]_vars

\* An error is appended to delivered payload only when a continuation's transport
\* breaks off and its reset is reported over the started stream.
EnvelopeAfterPayloadOnlyOnReset == answer = "garbled" => result.kind = "reset"

\* Every request is recorded once, however it ends, and a client that is still
\* there got an answer.
SettledOnce ==
  /\ saved = IF pc = "done" THEN 1 ELSE 0
  /\ pc = "done" /\ ctx = "active" => answer # "none"

\* Every request ends.
Terminates == <>(pc = "done")

\* What the plan promises (adaptive-relay-routing-80-percent-plan.md:410-439, 655 and
\* the comment at relay_handler.go:350): when the upstream may have got the request
\* and its outcome is unknown, at most one replay on another provider.
SilentReplayBounded == Cardinality(silent) <= MaxUnknownReplays + 1

=============================================================================
