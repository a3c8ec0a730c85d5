------------------------------- MODULE LogLife -------------------------------
(***************************************************************************)
(* What the relay log promises of each log it has accepted, whatever       *)
(* flushes, clears and reads go on: it waits in memory until it is stored, *)
(* is gone only after it was cleared or had expired, and never comes back. *)
(***************************************************************************)
CONSTANT Logs

VARIABLE life  \* log -> the stage of its life

LifeInit == life = [l \in Logs |-> "unseen"]

Move(S, to) == life' = [l \in Logs |-> IF l \in S THEN to ELSE life[l]]

Accept(l) == life[l] = "unseen" /\ Move({l}, "waiting")

Store(S) == (\A l \in S : life[l] = "waiting") /\ Move(S, "stored")

Discard(S) == (\A l \in S : life[l] \in {"waiting", "stored"}) /\ Move(S, "gone")

LifeNext ==
  \/ \E l \in Logs : Accept(l)
  \/ \E S \in SUBSET Logs : Store(S) \/ Discard(S)

LifeSpec == LifeInit /\ [][LifeNext]_life
=============================================================================
