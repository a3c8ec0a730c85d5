------------------------------- MODULE WSPool -------------------------------
(***************************************************************************)
(* The upstream WebSocket connections of one pool key                      *)
(* (internal/relay/ws_pool.go): a channel, a credential and a set of       *)
(* headers.  A request takes an idle connection, waits for the one that    *)
(* served its conversation before, or dials a new one, and gives it back   *)
(* or closes it when its attempt ends (relay_websocket.go,                 *)
(* ws_passthrough.go, transport_ws.go).                                    *)
(*                                                                         *)
(* The pool's mutex makes each function one step, with two exceptions: a   *)
(* dial runs without the lock between its reservation and its result, and  *)
(* the preflight of a preferred connection drops the lock for a ping while *)
(* it keeps its pointers.  Entries are identities, as pointers are; one    *)
(* that neither the map nor a ping refers to is garbage.  A connection is  *)
(* dialed once.  Ages are not kept: any time may pass between two steps,   *)
(* so a look at the clock may find any connection too old or long unused.  *)
(* Close, which runs when the process ends, is left out.                   *)
(***************************************************************************)
EXTENDS Naturals, FiniteSets

CONSTANTS
  Goroutines,   \* request handlers
  Conns,        \* bound: the connections that may be dialed
  Entries,      \* identities of *wsPoolEntry
  None,         \* no connection, no entry
  MaxConns,     \* wsMaxConnsPerPoolKey
  MaxIdle       \* wsMaxIdlePerPoolKey

ASSUME PoolAssumption ==
  /\ IsFiniteSet(Goroutines) /\ IsFiniteSet(Conns)
  /\ None \notin Conns /\ None \notin Entries
  /\ MaxConns \in Nat \ {0} /\ MaxIdle \in Nat

VARIABLES
  entry,      \* the map's entry for the pool key
  conns,      \* entry -> its connections
  inFlight,   \* dials reserved
  link,       \* connection -> not dialed, open, closed
  busy,       \* pooledConn.busy
  pc,
  want,       \* preferredConnID
  sees,       \* the entry a ping keeps a pointer to
  uses,       \* the connection a goroutine works with
  overtaken   \* history: a ping came back and the pool had changed under it

connVars == <<link, busy>>
vars == <<entry, conns, inFlight, connVars, pc, want, sees, uses, overtaken>>

Init ==
  /\ entry = None /\ conns = [e \in Entries |-> {}]
  /\ inFlight = 0
  /\ link = [c \in Conns |-> "none"]
  /\ busy = [c \in Conns |-> FALSE]
  /\ pc = [g \in Goroutines |-> "out"]
  /\ want = [g \in Goroutines |-> None]
  /\ sees = [g \in Goroutines |-> None]
  /\ uses = [g \in Goroutines |-> None]
  /\ overtaken = FALSE

Pooled == IF entry = None THEN {} ELSE conns[entry]

Closed(S) == [c \in Conns |-> IF c \in S THEN "closed" ELSE link[c]]

Goto(g, from, to) == pc[g] = from /\ pc' = [pc EXCEPT ![g] = to]

\* The map's entry gets this content; an entry that becomes empty leaves the map.
Store(S) ==
  /\ conns' = [conns EXCEPT ![entry] = S]
  /\ entry' = IF S = {} THEN None ELSE entry

\* A connection enters the pool, with a new entry when there is none.
Insert(c) ==
  IF entry # None
  THEN conns' = [conns EXCEPT ![entry] = @ \cup {c}] /\ UNCHANGED entry
  ELSE \E e \in Entries \ {sees[g] : g \in Goroutines} :
         entry' = e /\ conns' = [conns EXCEPT ![e] = {c}]

Take(g, from, c) ==
  /\ Goto(g, from, "use")
  /\ uses' = [uses EXCEPT ![g] = c]
  /\ want' = [want EXCEPT ![g] = None]
  /\ busy' = [busy EXCEPT ![c] = TRUE]

-----------------------------------------------------------------------------
(* TryUpstreamWSWithPreference *)

\* A continuation prefers the connection of the response before; a redial asks for
\* a new one at once.
Begin(g) ==
  /\ \/ /\ Goto(g, "out", "get")
        /\ \E c \in {d \in Conns : link[d] # "none"} \cup {None} :
             want' = [want EXCEPT ![g] = c]
     \/ Goto(g, "out", "reserve") /\ UNCHANGED want
  /\ UNCHANGED <<entry, conns, inFlight, connVars, sees, uses, overtaken>>

\* pruneExpiredLocked closes what is past wsConnMaxAge, in use or not.
Prune(expired) ==
  /\ expired \subseteq Pooled
  /\ link' = Closed(expired)
  /\ IF entry = None THEN UNCHANGED <<entry, conns>> ELSE Store(Pooled \ expired)

Free(expired) == {c \in Pooled \ expired : ~busy[c]}

\* GetPreferred finds nothing.
GetNothing(g, expired) ==
  /\ Goto(g, "get", "reserve")
  /\ Free(expired) = {}
  /\ Prune(expired)
  /\ UNCHANGED <<inFlight, busy, want, sees, uses, overtaken>>

\* Faulty variant: the preferred connection is taken although another has it.
GetPreferredBusy(g, expired) ==
  /\ pc[g] = "get"
  /\ \E c \in Pooled \ expired :
       /\ want[g] \in Free(expired) \/ busy[c] => c = want[g]
       /\ Take(g, "get", c)
  /\ Prune(expired)
  /\ UNCHANGED <<inFlight, sees, overtaken>>

\* The preferred connection if it is free and was used lately; if it is not free, or
\* there is none, the one used least recently, which may be any.
GetIdle(g, expired) ==
  /\ pc[g] = "get"
  /\ \E c \in Free(expired) :
       /\ want[g] \in Free(expired) => c = want[g]
       /\ Take(g, "get", c)
  /\ Prune(expired)
  /\ UNCHANGED <<inFlight, sees, overtaken>>

\* preflightPreferredConnLocked: a preferred connection past wsHealthCheckIdle is
\* pinged without the lock, and not marked busy.
GetPings(g, expired) ==
  /\ Goto(g, "get", "ping")
  /\ want[g] \in Free(expired)
  /\ Prune(expired)
  /\ sees' = [sees EXCEPT ![g] = entry]
  /\ UNCHANGED <<inFlight, busy, want, uses, overtaken>>

Overtakes(g) ==
  overtaken' = (overtaken \/ entry # sees[g] \/ want[g] \notin Pooled \/ busy[want[g]])

\* The connection is taken without a second look.  The answer may be older than the
\* lock, so the connection may be closed by now.
PingAnswered(g) ==
  /\ pc[g] = "ping"
  /\ Take(g, "ping", want[g])
  /\ sees' = [sees EXCEPT ![g] = None]
  /\ Overtakes(g)
  /\ UNCHANGED <<entry, conns, inFlight, link>>

\* The connection leaves the entry that was seen; the key leaves the map when that
\* entry is empty, whichever entry the map has now.
PingFails(g) ==
  LET left == conns[sees[g]] \ {want[g]}
  IN  /\ Goto(g, "ping", "reserve")
      /\ conns' = [conns EXCEPT ![sees[g]] = left]
      /\ entry' = IF left = {} THEN None ELSE entry
      /\ link' = Closed({want[g]})
      /\ sees' = [sees EXCEPT ![g] = None]
      /\ Overtakes(g)
      /\ UNCHANGED <<inFlight, busy, want, uses>>

reserveDial(g) ==
  /\ Cardinality(Pooled) + inFlight < MaxConns
  /\ Goto(g, "reserve", "dial")
  /\ inFlight' = inFlight + 1
  /\ want' = [want EXCEPT ![g] = None]
  /\ UNCHANGED <<entry, conns, connVars, sees, uses, overtaken>>

\* At the cap a continuation waits and looks again until its deadline.
Refused(g) ==
  /\ Cardinality(Pooled) + inFlight >= MaxConns
  /\ \/ Goto(g, "reserve", "get") /\ want[g] # None /\ UNCHANGED want
     \/ Goto(g, "reserve", "out") /\ want' = [want EXCEPT ![g] = None]
  /\ UNCHANGED <<entry, conns, inFlight, connVars, sees, uses, overtaken>>

Dial(g) ==
  /\ \E c \in Conns :
       /\ link[c] = "none"
       /\ link' = [link EXCEPT ![c] = "open"]
       /\ Insert(c)
       /\ Take(g, "dial", c)
  /\ inFlight' = inFlight - 1
  /\ UNCHANGED <<sees, overtaken>>

DialFails(g) ==
  /\ Goto(g, "dial", "out")
  /\ inFlight' = inFlight - 1
  /\ UNCHANGED <<entry, conns, connVars, want, sees, uses, overtaken>>

-----------------------------------------------------------------------------
(* The end of an attempt *)

\* Faulty variant: an attempt that was canceled before it sent leaves its
\* connection as it is.
Abandon(g) ==
  /\ Goto(g, "use", "out")
  /\ uses' = [uses EXCEPT ![g] = None]
  /\ UNCHANGED <<entry, conns, inFlight, connVars, want, sees, overtaken>>

\* A connection that was dropped from the pool meanwhile comes back.
Put(g) ==
  LET c == uses[g]
  IN  /\ Goto(g, "use", "out")
      /\ busy' = [busy EXCEPT ![c] = FALSE]
      /\ Insert(c)
      /\ uses' = [uses EXCEPT ![g] = None]
      /\ UNCHANGED <<inFlight, link, want, sees, overtaken>>

\* A failed send or stream; a redial may follow (Begin).
RemoveConn(g) ==
  LET c == uses[g]
  IN  /\ Goto(g, "use", "out")
      /\ link' = Closed({c})
      /\ IF entry = None THEN UNCHANGED <<entry, conns>> ELSE Store(Pooled \ {c})
      /\ uses' = [uses EXCEPT ![g] = None]
      /\ UNCHANGED <<inFlight, busy, want, sees, overtaken>>

-----------------------------------------------------------------------------

\* Faulty variant: closes only connections nobody uses, and loses them without
\* closing.
cleanupForgetful ==
  /\ entry # None
  /\ \E S \in SUBSET Free({}) :
       /\ Cardinality(S) >= Cardinality(Free({})) - MaxIdle
       /\ Store(Pooled \ S)
  /\ UNCHANGED <<inFlight, connVars, pc, want, sees, uses, overtaken>>

\* cleanup closes what is past wsConnMaxAge, in use or not, what is past
\* wsConnIdleTimeout, and more free ones: as many as there were free ones beyond
\* MaxIdle, the expired ones among them included.
cleanup ==
  /\ entry # None
  /\ \E expired \in SUBSET Pooled :
       \E S \in SUBSET Free(expired) :
         /\ S = Free(expired) \/ Cardinality(S) >= Cardinality(Free({})) - MaxIdle
         /\ Prune(expired \cup S)
  /\ UNCHANGED <<inFlight, busy, pc, want, sees, uses, overtaken>>

Next ==
  \/ \E g \in Goroutines :
       \/ Begin(g)
       \/ \E expired \in SUBSET Pooled :
            GetNothing(g, expired) \/ GetIdle(g, expired) \/ GetPings(g, expired)
       \/ PingAnswered(g) \/ PingFails(g)
       \/ reserveDial(g) \/ Refused(g) \/ Dial(g) \/ DialFails(g)
       \/ Put(g) \/ RemoveConn(g)
  \/ cleanup

Spec == Init /\ [][Next]_vars

-----------------------------------------------------------------------------

Users(c) == {g \in Goroutines : uses[g] = c}
Open == {c \in Conns : link[c] = "open"}
Dialing == {g \in Goroutines : pc[g] = "dial"}

\* Type correctness; a goroutine works with a connection exactly while its attempt
\* runs and keeps a pointer to an entry exactly during a ping.
TypeOK ==
  /\ entry \in Entries \cup {None}
  /\ conns \in [Entries -> SUBSET Conns]
  /\ inFlight \in 0..MaxConns
  /\ link \in [Conns -> {"none", "open", "closed"}]
  /\ busy \in [Conns -> BOOLEAN]
  /\ pc \in [Goroutines -> {"out", "get", "ping", "reserve", "dial", "use"}]
  /\ want \in [Goroutines -> Conns \cup {None}]
  /\ sees \in [Goroutines -> Entries \cup {None}]
  /\ uses \in [Goroutines -> Conns \cup {None}]
  /\ \A g \in Goroutines :
       /\ pc[g] = "use" <=> uses[g] # None
       /\ pc[g] = "ping" <=> sees[g] # None
       /\ pc[g] = "ping" => want[g] # None
  /\ overtaken \in BOOLEAN

\* The capacity of the pool is never lost: a connection marked busy has a user who
\* will give it back or close it, and a reservation has a dial that will end, however
\* failures, pings, expiry and the cleanup meet.
CapacityHeld ==
  /\ \A c \in Pooled : busy[c] => Users(c) # {}
  /\ inFlight = Cardinality(Dialing)

\* Unless a ping was overtaken, a connection serves one request at a time, though
\* closed and expired ones come back to the pool (GetPreferred, Put).
SingleUseUnlessOvertaken ==
  ~overtaken => \A c \in Conns : \A g, h \in Users(c) : g = h

\* Unless a ping was overtaken, the open connections and the dials in progress stay
\* within the cap, and every open connection is in the pool and can be reused or
\* cleaned up (reserveDial, Dial, cleanup).
CapUnlessOvertaken ==
  ~overtaken =>
    /\ Cardinality(Open) + Cardinality(Dialing) <= MaxConns
    /\ Open \subseteq Pooled

\* What the comment at ws_pool.go:431 says: a busy connection is not returned by
\* GetPreferred until Put toggles it.
SingleUse == \A c \in Conns : \A g, h \in Users(c) : g = h

=============================================================================
