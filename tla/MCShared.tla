------------------------------ MODULE MCShared ------------------------------
(* Small instances of what attempts share: the health of providers, the    *)
(* slots of a channel and the ledger of its credentials.  They share no    *)
(* state, so each behaviour exercises one, `part`, and leaves the others   *)
(* as they start; fairness asks something of the part it exercises.        *)
EXTENDS MCRuntimeAvailability, ChannelConcurrency, CredentialFairness

VARIABLE part

SharedInit ==
  /\ part \in {"health", "slots", "ledger"}
  /\ Init /\ FairInit
  /\ CcInit /\ (part = "slots" \/ maxConcurrency = 0)

SharedNext ==
  /\ \/ part = "health" /\ Next /\ UNCHANGED <<ccVars, fairVars>>
     \/ part = "slots" /\ CcNext /\ UNCHANGED <<vars, fairVars>>
     \/ part = "ledger" /\ FairNext /\ UNCHANGED <<vars, ccVars>>
  /\ UNCHANGED part

SharedSpec ==
  /\ SharedInit /\ [][SharedNext]_<<part, vars, ccVars, fairVars>>
  /\ WF_vars(part = "health" /\ Tick)
  /\ \A r \in Requests : WF_vars(part = "health" /\ Finish(r))

\* What the warmup of a websocket expects is what the next request gets (PeekMatchesSelect),
\* in every state of a ledger (credential_fair.go).
PeekPredicts == part = "ledger" => PeekMatchesSelect
=============================================================================
