------------------------------ MODULE MCStores ------------------------------
(* Small instances of the stores all requests write to: the relay log, the *)
(* statistics, the leaderboard's ledger, the store of responses to replay, *)
(* and what conversations record and replay of it.  They share no state,   *)
(* so each behaviour exercises one, `part`, and leaves the others as they  *)
(* start: every interleaving within a store is checked, and no product of  *)
(* stores that could not disturb each other.                               *)
EXTENDS RelayLog, StatsFlush, StatsLedger, ReplayStore, Continuation

VARIABLE part

MCLogTime == <<2, 1>>    \* the request with the later ID started first
MCLogBytes == <<1, 2>>

StoresInit ==
  /\ part \in {"log", "stats", "ledger", "replay", "conversation"}
  /\ LogInit /\ StInit /\ LdInit /\ RsInit
  /\ CtInit /\ (part = "conversation" \/ ctVia = "ws")

StoresNext ==
  /\ \/ part = "log" /\ LogNextStep /\ UNCHANGED <<stVars, ldVars, rsVars, ctVars>>
     \/ part = "stats" /\ StNext /\ UNCHANGED <<logVars, ldVars, rsVars, ctVars>>
     \/ part = "ledger" /\ LdNext /\ UNCHANGED <<logVars, stVars, rsVars, ctVars>>
     \/ part = "replay" /\ RsNextStep /\ UNCHANGED <<logVars, stVars, ldVars, ctVars>>
     \/ part = "conversation" /\ CtNext /\ UNCHANGED <<logVars, stVars, ldVars, rsVars>>
  /\ UNCHANGED part

StoresSpec == StoresInit /\ [][StoresNext]_<<part, logVars, stVars, ldVars, rsVars, ctVars>>
=============================================================================
