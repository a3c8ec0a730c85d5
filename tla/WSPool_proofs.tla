---------------------------- MODULE WSPool_proofs ----------------------------
(***************************************************************************)
(* What the connection pool guarantees for any number of requests,         *)
(* connections and entries and any cap.                                    *)
(*                                                                         *)
(* A connection can only be handed out while it is not busy, and a dial    *)
(* only brings a connection nobody knows, so single use follows once every *)
(* connection in use is busy (UsedIsBusy) and dialed (KnownIsDialed).      *)
(* Every step that changes the pool is one of three: an entry is shrunk,   *)
(* a connection enters, or a ping comes back to an entry it still has.     *)
(***************************************************************************)
EXTENDS WSPool, FiniteSetTheorems, TLAPS

\* Unless a ping was overtaken, what is in the pool or used was dialed before.
KnownIsDialed ==
  ~overtaken =>
    /\ \A c \in Pooled : link[c] # "none"
    /\ \A g \in Goroutines : uses[g] # None => link[uses[g]] # "none"

\* Unless a ping was overtaken, Put is the only step that ends a connection's being
\* busy, and its caller is the only user.
UsedIsBusy == ~overtaken => \A g \in Goroutines : uses[g] # None => busy[uses[g]]

IInv ==
  /\ TypeOK
  /\ KnownIsDialed
  /\ CapacityHeld
  /\ UsedIsBusy
  /\ SingleUseUnlessOvertaken
  /\ CapUnlessOvertaken

-----------------------------------------------------------------------------
(* The pool's content *)

\* An entry of the map is given a new content.
LEMMA Stored ==
  ASSUME TypeOK, entry # None, NEW S \in SUBSET Conns, Store(S)
  PROVE  /\ Pooled' = S
         /\ entry' \in Entries \cup {None}
         /\ conns' \in [Entries -> SUBSET Conns]
BY PoolAssumption DEF TypeOK, Store, Pooled

\* A connection enters the pool and nothing leaves it.
LEMMA Inserted ==
  ASSUME TypeOK, NEW c \in Conns, Insert(c)
  PROVE  /\ Pooled' = Pooled \cup {c}
         /\ entry' \in Entries \cup {None}
         /\ conns' \in [Entries -> SUBSET Conns]
<1>1. CASE entry # None
  BY <1>1, PoolAssumption DEF TypeOK, Insert, Pooled
<1>2. CASE entry = None
  BY <1>2, PoolAssumption DEF TypeOK, Insert, Pooled
<1>3. QED
  BY <1>1, <1>2

\* Pruned connections are closed and leave the pool together.
LEMMA Pruned ==
  ASSUME TypeOK, NEW S, Prune(S)
  PROVE  /\ Pooled \subseteq Conns /\ S \subseteq Pooled
         /\ Pooled' = Pooled \ S
         /\ Open' = Open \ S
         /\ entry' \in Entries \cup {None}
         /\ conns' \in [Entries -> SUBSET Conns]
         /\ link' \in [Conns -> {"none", "open", "closed"}]
         /\ \A c \in Conns : link[c] # "none" => link'[c] # "none"
<1>1. Pooled \subseteq Conns /\ S \subseteq Pooled
  BY DEF TypeOK, Pooled, Prune
<1>2. /\ link' \in [Conns -> {"none", "open", "closed"}]
      /\ \A c \in Conns : link'[c] = IF c \in S THEN "closed" ELSE link[c]
  BY DEF TypeOK, Prune, Closed
<1>3. CASE entry = None
  BY <1>1, <1>2, <1>3 DEF TypeOK, Prune, Pooled, Open
<1>4. CASE entry # None
  <2>1. Pooled \ S \in SUBSET Conns /\ Store(Pooled \ S)
    BY <1>1, <1>4 DEF Prune
  <2>2. /\ Pooled' = Pooled \ S
        /\ entry' \in Entries \cup {None}
        /\ conns' \in [Entries -> SUBSET Conns]
    BY <1>4, <2>1, Stored
  <2>3. QED
    BY <1>1, <1>2, <2>2 DEF Open
<1>5. QED
  BY <1>3, <1>4

\* The sets that are counted are finite.
LEMMA Finite ==
  ASSUME TypeOK
  PROVE  /\ IsFiniteSet(Pooled) /\ Cardinality(Pooled) \in Nat
         /\ IsFiniteSet(Open) /\ Cardinality(Open) \in Nat
         /\ IsFiniteSet(Dialing) /\ Cardinality(Dialing) \in Nat
         /\ inFlight \in Nat /\ MaxConns \in Nat
<1>1. Pooled \subseteq Conns /\ Open \subseteq Conns /\ Dialing \subseteq Goroutines
  BY DEF TypeOK, Pooled, Open, Dialing
<1>2. IsFiniteSet(Conns) /\ IsFiniteSet(Goroutines)
  BY PoolAssumption
<1>3. IsFiniteSet(Pooled) /\ IsFiniteSet(Open) /\ IsFiniteSet(Dialing)
  BY <1>1, <1>2, FS_Subset
<1>4. inFlight \in Nat /\ MaxConns \in Nat
  BY PoolAssumption DEF TypeOK
<1>5. QED
  BY <1>3, <1>4, FS_CardinalityType

-----------------------------------------------------------------------------
(* Steps that leave the connections alone *)

\* A goroutine that moves between other places than the dial does not change who dials.
LEMMA DialingKept ==
  ASSUME TypeOK, NEW g \in Goroutines, NEW from, NEW to, Goto(g, from, to),
         from # "dial", to # "dial"
  PROVE  Dialing' = Dialing
BY DEF TypeOK, Goto, Dialing

\* A dial that ends gives one reservation back.
LEMMA DialingEnds ==
  ASSUME TypeOK, CapacityHeld, NEW g \in Goroutines, NEW to, Goto(g, "dial", to),
         to # "dial", inFlight' = inFlight - 1
  PROVE  inFlight' = Cardinality(Dialing') /\ inFlight' \in 0..MaxConns
<1>1. Dialing' = Dialing \ {g} /\ g \in Dialing
  BY DEF TypeOK, Goto, Dialing
<1>2. /\ IsFiniteSet(Dialing) /\ Cardinality(Dialing) \in Nat
      /\ inFlight \in 0..MaxConns /\ MaxConns \in Nat
  BY Finite DEF TypeOK
<1>3. Cardinality(Dialing') = Cardinality(Dialing) - 1
  BY <1>1, <1>2, FS_RemoveElement
<1>4. IsFiniteSet(Dialing') /\ Cardinality(Dialing') \in Nat
  BY <1>1, <1>2, FS_Subset, FS_CardinalityType
<1>5. QED
  BY <1>2, <1>3, <1>4 DEF CapacityHeld

\* A reservation is counted.
LEMMA DialingStarts ==
  ASSUME TypeOK, CapacityHeld, NEW g \in Goroutines, reserveDial(g)
  PROVE  inFlight' = Cardinality(Dialing') /\ inFlight' \in 0..MaxConns
<1>1. Dialing' = Dialing \cup {g} /\ g \notin Dialing
  BY DEF TypeOK, reserveDial, Goto, Dialing
<1>2. /\ IsFiniteSet(Dialing) /\ Cardinality(Dialing) \in Nat
      /\ Cardinality(Pooled) \in Nat
      /\ inFlight \in Nat /\ MaxConns \in Nat
  BY Finite
<1>3. Cardinality(Dialing') = Cardinality(Dialing) + 1
  BY <1>1, <1>2, FS_AddElement
<1>4. inFlight + 1 <= MaxConns
  BY <1>2 DEF reserveDial
<1>5. QED
  BY <1>2, <1>3, <1>4 DEF CapacityHeld, reserveDial

\* What depends on the connections alone stays.
LEMMA ConnectionsKept ==
  ASSUME IInv, UNCHANGED <<entry, conns, link, busy, uses, overtaken>>
  PROVE  /\ Pooled' = Pooled /\ Open' = Open
         /\ KnownIsDialed' /\ UsedIsBusy' /\ SingleUseUnlessOvertaken'
         /\ \A c \in Pooled' : busy'[c] => Users(c)' # {}
<1>1. Pooled' = Pooled /\ Open' = Open
  BY DEF Pooled, Open
<1>2. QED
  BY <1>1
  DEF IInv, KnownIsDialed, UsedIsBusy, SingleUseUnlessOvertaken, CapacityHeld, Users

\* A request begins, is refused at the cap, reserves a dial, or its dial fails.
LEMMA ControlStep ==
  ASSUME IInv, NEW g \in Goroutines,
         Begin(g) \/ Refused(g) \/ reserveDial(g) \/ DialFails(g)
  PROVE  IInv'
<1>1. TypeOK /\ CapacityHeld
  BY DEF IInv
<1>2. UNCHANGED <<entry, conns, link, busy, sees, uses, overtaken>>
  BY DEF Begin, Refused, reserveDial, DialFails, connVars
<1>3. /\ Pooled' = Pooled /\ Open' = Open
      /\ KnownIsDialed' /\ UsedIsBusy' /\ SingleUseUnlessOvertaken'
      /\ \A c \in Pooled' : busy'[c] => Users(c)' # {}
  BY <1>2, ConnectionsKept
<1>4. /\ inFlight' = Cardinality(Dialing') /\ inFlight' \in 0..MaxConns
      /\ ~overtaken => Cardinality(Open) + inFlight' <= MaxConns
  <2>1. CASE Begin(g) \/ Refused(g)
    <3>1. Dialing' = Dialing /\ inFlight' = inFlight
      BY <1>1, <2>1, DialingKept DEF Begin, Refused
    <3>2. QED
      BY <1>1, <3>1 DEF IInv, TypeOK, CapacityHeld, CapUnlessOvertaken
  <2>2. CASE reserveDial(g)
    <3>1. inFlight' = Cardinality(Dialing') /\ inFlight' \in 0..MaxConns
      BY <1>1, <2>2, DialingStarts
    <3>2. ~overtaken => Cardinality(Open) <= Cardinality(Pooled)
      BY <1>1, Finite, FS_Subset DEF IInv, CapUnlessOvertaken
    <3>3. /\ Cardinality(Open) \in Nat /\ Cardinality(Pooled) \in Nat
          /\ inFlight \in Nat /\ MaxConns \in Nat
      BY <1>1, Finite
    <3>4. QED
      BY <2>2, <3>1, <3>2, <3>3 DEF reserveDial
  <2>3. CASE DialFails(g)
    <3>1. /\ inFlight' = Cardinality(Dialing') /\ inFlight' \in 0..MaxConns
      BY <1>1, <2>3, DialingEnds DEF DialFails
    <3>2. /\ ~overtaken => Cardinality(Open) + inFlight <= MaxConns
          /\ inFlight' = inFlight - 1
      BY <2>3 DEF IInv, CapacityHeld, CapUnlessOvertaken, DialFails
    <3>3. Cardinality(Open) \in Nat /\ inFlight \in Nat /\ MaxConns \in Nat
      BY <1>1, Finite
    <3>4. QED
      BY <3>1, <3>2, <3>3
  <2>4. QED
    BY <2>1, <2>2, <2>3
<1>5. CapacityHeld' /\ CapUnlessOvertaken'
  BY <1>2, <1>3, <1>4 DEF IInv, CapacityHeld, CapUnlessOvertaken
<1>6. /\ pc' \in [Goroutines -> {"out", "get", "ping", "reserve", "dial", "use"}]
      /\ want' \in [Goroutines -> Conns \cup {None}]
      /\ \A h \in Goroutines : (pc'[h] = "use" <=> pc[h] = "use") /\ (pc'[h] = "ping" <=> pc[h] = "ping")
      /\ \A h \in Goroutines : pc[h] = "ping" => want'[h] = want[h]
  BY <1>1 DEF TypeOK, Begin, Refused, reserveDial, DialFails, Goto
<1>7. TypeOK'
  BY <1>1, <1>2, <1>4, <1>6 DEF TypeOK
<1>8. QED
  BY <1>3, <1>5, <1>7 DEF IInv

-----------------------------------------------------------------------------
(* Steps that hand a connection out *)

\* As long as nothing is opened or lost, and the dials stay, so does the cap.
LEMMA CapShrinks ==
  ASSUME IInv, Open' \subseteq Open, Dialing' = Dialing,
         overtaken => overtaken', ~overtaken' => Open' \subseteq Pooled'
  PROVE  CapUnlessOvertaken'
<1>1. /\ IsFiniteSet(Open) /\ Cardinality(Open) \in Nat
      /\ Cardinality(Dialing) \in Nat /\ MaxConns \in Nat
  BY Finite DEF IInv
<1>2. /\ Cardinality(Open') <= Cardinality(Open) /\ Cardinality(Open') \in Nat
  BY <1>1, FS_Subset, FS_CardinalityType
<1>3. ~overtaken => Cardinality(Open) + Cardinality(Dialing) <= MaxConns
  BY DEF IInv, CapUnlessOvertaken
<1>4. ~overtaken' => Cardinality(Open') + Cardinality(Dialing') <= MaxConns
  BY <1>1, <1>2, <1>3
<1>5. QED
  BY <1>4 DEF CapUnlessOvertaken

\* A connection nobody uses, if no ping was overtaken, is given to one goroutine.
LEMMA HandOut ==
  ASSUME IInv, NEW g \in Goroutines, NEW from \in {"get", "ping", "dial"},
         NEW c \in Conns, Take(g, from, c),
         overtaken => overtaken',
         ~overtaken' => \A h \in Goroutines : uses[h] # c,
         Pooled' \subseteq Pooled \cup {c}
  PROVE  /\ pc' \in [Goroutines -> {"out", "get", "ping", "reserve", "dial", "use"}]
         /\ want' \in [Goroutines -> Conns \cup {None}]
         /\ uses' \in [Goroutines -> Conns \cup {None}]
         /\ busy' \in [Conns -> BOOLEAN]
         /\ \A h \in Goroutines :
              /\ pc'[h] = "use" <=> uses'[h] # None
              /\ h # g => pc'[h] = pc[h] /\ uses'[h] = uses[h] /\ want'[h] = want[h]
         /\ pc'[g] = "use" /\ uses'[g] = c
         /\ UsedIsBusy' /\ SingleUseUnlessOvertaken'
         /\ \A d \in Pooled' : busy'[d] => Users(d)' # {}
<1>1. TypeOK /\ None \notin Conns
  BY PoolAssumption DEF IInv
<1>2. /\ pc' \in [Goroutines -> {"out", "get", "ping", "reserve", "dial", "use"}]
      /\ want' \in [Goroutines -> Conns \cup {None}]
      /\ uses' \in [Goroutines -> Conns \cup {None}]
      /\ uses[g] = None /\ pc[g] = from
  BY <1>1 DEF TypeOK, Take, Goto
<1>3. /\ busy' \in [Conns -> BOOLEAN]
      /\ \A d \in Conns : d # c => busy'[d] = busy[d]
  BY <1>1 DEF TypeOK, Take
<1>4. busy'[c]
  BY <1>1 DEF TypeOK, Take
<1>5. \A h \in Goroutines :
        h # g => pc'[h] = pc[h] /\ uses'[h] = uses[h] /\ want'[h] = want[h]
  BY <1>1 DEF TypeOK, Take, Goto
<1>6. pc'[g] = "use" /\ uses'[g] = c
  BY <1>1 DEF TypeOK, Take, Goto
<1>7. \A h \in Goroutines : pc'[h] = "use" <=> uses'[h] # None
  BY <1>1, <1>5, <1>6 DEF TypeOK
<1>8. UsedIsBusy'
  <2>1. SUFFICES ASSUME ~overtaken', NEW h \in Goroutines, uses'[h] # None
                 PROVE  busy'[uses'[h]]
    BY DEF UsedIsBusy
  <2>2. CASE h = g
    BY <1>4, <1>6, <2>2
  <2>3. CASE h # g
    <3>1. uses'[h] = uses[h] /\ uses[h] \in Conns /\ uses[h] # c
      BY <1>1, <1>5, <2>1, <2>3 DEF TypeOK
    <3>2. busy[uses[h]]
      BY <2>1, <3>1 DEF IInv, UsedIsBusy
    <3>3. QED
      BY <1>3, <3>1, <3>2
  <2>4. QED
    BY <2>2, <2>3
<1>9. SingleUseUnlessOvertaken'
  <2>1. SUFFICES ASSUME ~overtaken', NEW d \in Conns, NEW h \in Goroutines,
                        NEW i \in Goroutines, uses'[h] = d, uses'[i] = d
                 PROVE  h = i
    BY DEF SingleUseUnlessOvertaken, Users
  <2>2. CASE d = c
    BY <1>5, <1>6, <2>1, <2>2
  <2>3. CASE d # c
    <3>1. h # g /\ i # g /\ uses[h] = d /\ uses[i] = d
      BY <1>5, <1>6, <2>1, <2>3
    <3>2. QED
      BY <2>1, <3>1 DEF IInv, SingleUseUnlessOvertaken, Users
  <2>4. QED
    BY <2>2, <2>3
<1>10. \A d \in Pooled' : busy'[d] => Users(d)' # {}
  <2>1. SUFFICES ASSUME NEW d \in Pooled', busy'[d]
                 PROVE  \E h \in Goroutines : uses'[h] = d
    BY DEF Users
  <2>2. CASE d = c
    BY <1>6, <2>2
  <2>3. CASE d # c
    <3>1. d \in Pooled /\ d \in Conns
      BY <1>1, <2>3 DEF TypeOK, Pooled
    <3>2. busy[d]
      BY <1>3, <2>1, <2>3, <3>1
    <3>3. PICK h \in Goroutines : uses[h] = d
      BY <3>1, <3>2 DEF IInv, CapacityHeld, Users
    <3>4. h # g
      BY <1>1, <1>2, <3>1, <3>3
    <3>5. QED
      BY <1>5, <3>3, <3>4
  <2>4. QED
    BY <2>2, <2>3
<1>11. QED
  BY <1>2, <1>3, <1>5, <1>6, <1>7, <1>8, <1>9, <1>10

-----------------------------------------------------------------------------
(* Steps that prune the pool *)

\* Pruned connections may still be in use; the others stay as they are.
LEMMA PruneKeeps ==
  ASSUME IInv, NEW S, Prune(S), UNCHANGED <<busy, inFlight, uses, overtaken>>,
         Dialing' = Dialing
  PROVE  /\ KnownIsDialed' /\ CapacityHeld' /\ UsedIsBusy'
         /\ SingleUseUnlessOvertaken' /\ CapUnlessOvertaken'
<1>1. TypeOK /\ None \notin Conns
  BY PoolAssumption DEF IInv
<1>2. /\ Pooled \subseteq Conns /\ Pooled' = Pooled \ S /\ Open' = Open \ S
      /\ \A c \in Conns : link[c] # "none" => link'[c] # "none"
  BY <1>1, Pruned
<1>3. KnownIsDialed'
  <2>1. \A g \in Goroutines : uses[g] \in Conns \cup {None}
    BY <1>1 DEF TypeOK
  <2>2. QED
    BY <1>2, <2>1 DEF IInv, KnownIsDialed
<1>4. CapacityHeld' /\ UsedIsBusy' /\ SingleUseUnlessOvertaken'
  BY <1>2 DEF IInv, CapacityHeld, UsedIsBusy, SingleUseUnlessOvertaken, Users
<1>5. CapUnlessOvertaken'
  <2>1. ~overtaken' => Open' \subseteq Pooled'
    BY <1>2 DEF IInv, CapUnlessOvertaken
  <2>2. Open' \subseteq Open
    BY <1>2
  <2>3. QED
    BY <2>1, <2>2, CapShrinks
<1>6. QED
  BY <1>3, <1>4, <1>5

\* A look at the pool that hands nothing out.
LEMMA LookStep ==
  ASSUME IInv, NEW g \in Goroutines, NEW S, GetNothing(g, S) \/ GetPings(g, S)
  PROVE  IInv'
<1>1. TypeOK /\ None \notin Entries /\ None \notin Conns
  BY PoolAssumption DEF IInv
<1>2. /\ Prune(S) /\ UNCHANGED <<inFlight, busy, want, uses, overtaken>>
      /\ pc[g] = "get"
      /\ \/ Goto(g, "get", "reserve") /\ UNCHANGED sees
         \/ /\ Goto(g, "get", "ping") /\ sees' = [sees EXCEPT ![g] = entry]
            /\ want[g] \in Pooled
  BY DEF GetNothing, GetPings, Goto, Free
<1>3. Dialing' = Dialing
  BY <1>1, <1>2, DialingKept
<1>4. /\ KnownIsDialed' /\ CapacityHeld' /\ UsedIsBusy'
      /\ SingleUseUnlessOvertaken' /\ CapUnlessOvertaken'
  BY <1>2, <1>3, PruneKeeps
<1>5. /\ entry' \in Entries \cup {None}
      /\ conns' \in [Entries -> SUBSET Conns]
      /\ link' \in [Conns -> {"none", "open", "closed"}]
      /\ Pooled \subseteq Conns
  BY <1>1, <1>2, Pruned
<1>6. /\ pc' \in [Goroutines -> {"out", "get", "ping", "reserve", "dial", "use"}]
      /\ sees' \in [Goroutines -> Entries \cup {None}]
      /\ \A h \in Goroutines :
           /\ pc'[h] = "use" <=> uses'[h] # None
           /\ pc'[h] = "ping" <=> sees'[h] # None
           /\ pc'[h] = "ping" => want'[h] # None
  <2>1. CASE Goto(g, "get", "reserve") /\ UNCHANGED sees
    BY <1>1, <1>2, <2>1 DEF TypeOK, Goto
  <2>2. CASE /\ Goto(g, "get", "ping") /\ sees' = [sees EXCEPT ![g] = entry]
             /\ want[g] \in Pooled
    <3>1. entry \in Entries /\ want[g] \in Conns
      BY <1>1, <1>5, <2>2 DEF TypeOK, Pooled
    <3>2. QED
      BY <1>1, <1>2, <2>2, <3>1 DEF TypeOK, Goto
  <2>3. QED
    BY <1>2, <2>1, <2>2
<1>7. TypeOK'
  BY <1>1, <1>2, <1>5, <1>6 DEF TypeOK
<1>8. QED
  BY <1>4, <1>7 DEF IInv

\* The cleanup closes connections and hands nothing out.
LEMMA CleanupStep ==
  ASSUME IInv, cleanup
  PROVE  IInv'
<1>1. TypeOK
  BY DEF IInv
<1>2. PICK S : Prune(S)
  BY DEF cleanup
<1>3. UNCHANGED <<inFlight, busy, pc, want, sees, uses, overtaken>>
  BY DEF cleanup
<1>4. Dialing' = Dialing
  BY <1>3 DEF Dialing
<1>5. /\ KnownIsDialed' /\ CapacityHeld' /\ UsedIsBusy'
      /\ SingleUseUnlessOvertaken' /\ CapUnlessOvertaken'
  BY <1>2, <1>3, <1>4, PruneKeeps
<1>6. TypeOK'
  BY <1>1, <1>2, <1>3, Pruned DEF TypeOK
<1>7. QED
  BY <1>5, <1>6 DEF IInv

\* The connection taken is not busy, so nobody uses it.
LEMMA IdleStep ==
  ASSUME IInv, NEW g \in Goroutines, NEW S, GetIdle(g, S)
  PROVE  IInv'
<1>1. TypeOK /\ None \notin Conns
  BY PoolAssumption DEF IInv
<1>2. /\ Prune(S) /\ UNCHANGED <<inFlight, sees, overtaken>>
      /\ pc[g] = "get"
  BY DEF GetIdle
<1>3. /\ Pooled \subseteq Conns /\ Pooled' = Pooled \ S /\ Open' = Open \ S
      /\ entry' \in Entries \cup {None}
      /\ conns' \in [Entries -> SUBSET Conns]
      /\ link' \in [Conns -> {"none", "open", "closed"}]
      /\ \A c \in Conns : link[c] # "none" => link'[c] # "none"
  BY <1>1, <1>2, Pruned
<1>4. PICK c \in Pooled : ~busy[c] /\ Take(g, "get", c)
  BY DEF GetIdle, Free
<1>5. c \in Conns /\ (~overtaken => link[c] # "none")
  BY <1>3 DEF IInv, KnownIsDialed
<1>6. ~overtaken' => \A h \in Goroutines : uses[h] # c
  BY <1>1, <1>2, <1>4, <1>5 DEF IInv, UsedIsBusy
<1>7. overtaken => overtaken'
  BY <1>2
<1>8. Pooled' \subseteq Pooled \cup {c}
  BY <1>3
<1>9. /\ pc' \in [Goroutines -> {"out", "get", "ping", "reserve", "dial", "use"}]
      /\ want' \in [Goroutines -> Conns \cup {None}]
      /\ uses' \in [Goroutines -> Conns \cup {None}]
      /\ busy' \in [Conns -> BOOLEAN]
      /\ \A h \in Goroutines :
           /\ pc'[h] = "use" <=> uses'[h] # None
           /\ h # g => pc'[h] = pc[h] /\ uses'[h] = uses[h] /\ want'[h] = want[h]
      /\ pc'[g] = "use" /\ uses'[g] = c
      /\ UsedIsBusy' /\ SingleUseUnlessOvertaken'
      /\ \A d \in Pooled' : busy'[d] => Users(d)' # {}
  BY <1>4, <1>5, <1>6, <1>7, <1>8, HandOut
<1>10. Dialing' = Dialing
  BY <1>1, <1>4, DialingKept DEF Take
<1>11. CapUnlessOvertaken'
  <2>1. Open' \subseteq Open /\ (~overtaken' => Open' \subseteq Pooled')
    BY <1>2, <1>3 DEF IInv, CapUnlessOvertaken
  <2>2. QED
    BY <1>7, <1>10, <2>1, CapShrinks
<1>12. CapacityHeld'
  BY <1>2, <1>9, <1>10 DEF IInv, CapacityHeld
<1>13. KnownIsDialed'
  <2>1. SUFFICES ASSUME ~overtaken PROVE KnownIsDialed'
    BY <1>2 DEF KnownIsDialed
  <2>2. \A h \in Goroutines :
          uses'[h] # None => link[uses'[h]] # "none" /\ uses'[h] \in Conns
    BY <1>1, <1>5, <1>9, <2>1 DEF IInv, KnownIsDialed, TypeOK
  <2>3. QED
    BY <1>3, <2>1, <2>2 DEF IInv, KnownIsDialed
<1>14. \A h \in Goroutines :
         /\ pc'[h] = "ping" <=> sees'[h] # None
         /\ pc'[h] = "ping" => want'[h] # None
  BY <1>1, <1>2, <1>9 DEF TypeOK
<1>15. TypeOK'
  BY <1>1, <1>2, <1>3, <1>9, <1>14 DEF TypeOK
<1>16. QED
  BY <1>9, <1>11, <1>12, <1>13, <1>15 DEF IInv

-----------------------------------------------------------------------------
(* The ends of a ping *)

\* A connection that was pinged is still free, or the ping was overtaken.
LEMMA AnsweredStep ==
  ASSUME IInv, NEW g \in Goroutines, PingAnswered(g)
  PROVE  IInv'
<1> DEFINE c == want[g]
<1>1. TypeOK /\ None \notin Conns
  BY PoolAssumption DEF IInv
<1>2. /\ UNCHANGED <<entry, conns, inFlight, link>>
      /\ pc[g] = "ping" /\ Take(g, "ping", c)
      /\ sees' = [sees EXCEPT ![g] = None]
      /\ overtaken => overtaken'
      /\ ~overtaken' => c \in Pooled /\ ~busy[c]
  BY DEF PingAnswered, Overtakes
<1>3. c \in Conns
  BY <1>1, <1>2 DEF TypeOK
<1>4. Pooled' = Pooled /\ Open' = Open
  BY <1>2 DEF Pooled, Open
<1>5. ~overtaken' => \A h \in Goroutines : uses[h] # c
  BY <1>1, <1>2, <1>3 DEF IInv, UsedIsBusy
<1>6. /\ overtaken => overtaken'
      /\ Pooled' \subseteq Pooled \cup {c}
  BY <1>2, <1>4
<1>7. /\ Take(g, "ping", c) /\ "ping" \in {"get", "ping", "dial"}
  BY <1>2
<1> HIDE DEF c
<1>8. /\ pc' \in [Goroutines -> {"out", "get", "ping", "reserve", "dial", "use"}]
      /\ want' \in [Goroutines -> Conns \cup {None}]
      /\ uses' \in [Goroutines -> Conns \cup {None}]
      /\ busy' \in [Conns -> BOOLEAN]
      /\ \A h \in Goroutines :
           /\ pc'[h] = "use" <=> uses'[h] # None
           /\ h # g => pc'[h] = pc[h] /\ uses'[h] = uses[h] /\ want'[h] = want[h]
      /\ pc'[g] = "use" /\ uses'[g] = c
      /\ UsedIsBusy' /\ SingleUseUnlessOvertaken'
      /\ \A d \in Pooled' : busy'[d] => Users(d)' # {}
  BY <1>3, <1>5, <1>6, <1>7, HandOut
<1>9. Dialing' = Dialing
  BY <1>1, <1>7, DialingKept DEF Take
<1>10. CapUnlessOvertaken'
  <2>1. Open' \subseteq Open /\ (~overtaken' => Open' \subseteq Pooled')
    BY <1>4, <1>6 DEF IInv, CapUnlessOvertaken
  <2>2. QED
    BY <1>6, <1>9, <2>1, CapShrinks
<1>11. CapacityHeld'
  BY <1>2, <1>8, <1>9 DEF IInv, CapacityHeld
<1>12. KnownIsDialed'
  BY <1>2, <1>4, <1>8 DEF IInv, KnownIsDialed
<1>13. /\ sees' \in [Goroutines -> Entries \cup {None}]
       /\ \A h \in Goroutines :
            /\ pc'[h] = "ping" <=> sees'[h] # None
            /\ pc'[h] = "ping" => want'[h] # None
  BY <1>1, <1>2, <1>8 DEF TypeOK
<1>14. overtaken' \in BOOLEAN
  BY DEF PingAnswered, Overtakes
<1>15. TypeOK'
  BY <1>1, <1>2, <1>8, <1>13, <1>14 DEF TypeOK
<1>16. QED
  BY <1>8, <1>10, <1>11, <1>12, <1>15 DEF IInv

\* A failed ping takes its connection out of the pool and closes it; only when it
\* was overtaken can the pool lose others.
LEMMA FailedStep ==
  ASSUME IInv, NEW g \in Goroutines, PingFails(g)
  PROVE  IInv'
<1> DEFINE left == conns[sees[g]] \ {want[g]}
<1>1. TypeOK /\ None \notin Conns /\ None \notin Entries
  BY PoolAssumption DEF IInv
<1>2. /\ UNCHANGED <<inFlight, busy, want, uses>>
      /\ pc[g] = "ping" /\ Goto(g, "ping", "reserve")
      /\ conns' = [conns EXCEPT ![sees[g]] = left]
      /\ entry' = IF left = {} THEN None ELSE entry
      /\ link' = Closed({want[g]})
      /\ sees' = [sees EXCEPT ![g] = None]
      /\ overtaken => overtaken'
      /\ ~overtaken' => entry = sees[g]
      /\ overtaken' \in BOOLEAN
  BY DEF PingFails, Overtakes, Goto
<1>3. sees[g] \in Entries /\ want[g] \in Conns
  BY <1>1, <1>2 DEF TypeOK
<1>4. /\ entry' \in Entries \cup {None}
      /\ conns' \in [Entries -> SUBSET Conns]
      /\ link' \in [Conns -> {"none", "open", "closed"}]
      /\ \A d \in Conns : link'[d] = IF d = want[g] THEN "closed" ELSE link[d]
  BY <1>1, <1>2, <1>3 DEF TypeOK, Closed
<1>5. Open' = Open \ {want[g]}
  BY <1>3, <1>4 DEF Open
<1>6. Pooled \subseteq Conns /\ Pooled' \subseteq Pooled
  BY <1>1, <1>2, <1>3 DEF TypeOK, Pooled
<1>7. ~overtaken' => Pooled' = Pooled \ {want[g]}
  BY <1>1, <1>2, <1>3 DEF TypeOK, Pooled
<1>8. Dialing' = Dialing
  BY <1>1, <1>2, DialingKept
<1>9. CapUnlessOvertaken'
  <2>1. Open' \subseteq Open /\ (~overtaken' => Open' \subseteq Pooled')
    BY <1>2, <1>5, <1>7 DEF IInv, CapUnlessOvertaken
  <2>2. QED
    BY <1>2, <1>8, <2>1, CapShrinks
<1>10. CapacityHeld' /\ UsedIsBusy' /\ SingleUseUnlessOvertaken'
  BY <1>2, <1>6, <1>8
  DEF IInv, CapacityHeld, UsedIsBusy, SingleUseUnlessOvertaken, Users
<1>11. KnownIsDialed'
  <2>1. SUFFICES ASSUME ~overtaken PROVE KnownIsDialed'
    BY <1>2 DEF KnownIsDialed
  <2>2. \A h \in Goroutines : uses[h] \in Conns \cup {None}
    BY <1>1 DEF TypeOK
  <2>3. QED
    BY <1>2, <1>4, <1>6, <2>1, <2>2 DEF IInv, KnownIsDialed
<1>12. /\ pc' \in [Goroutines -> {"out", "get", "ping", "reserve", "dial", "use"}]
       /\ sees' \in [Goroutines -> Entries \cup {None}]
       /\ \A h \in Goroutines :
            /\ pc'[h] = "use" <=> uses'[h] # None
            /\ pc'[h] = "ping" <=> sees'[h] # None
            /\ pc'[h] = "ping" => want'[h] # None
  BY <1>1, <1>2 DEF TypeOK, Goto
<1>13. TypeOK'
  BY <1>1, <1>2, <1>4, <1>12 DEF TypeOK
<1>14. QED
  BY <1>9, <1>10, <1>11, <1>13 DEF IInv

-----------------------------------------------------------------------------
(* A dial that succeeds, and the ends of an attempt *)

\* A new connection replaces the reservation made for it.
LEMMA DialStep ==
  ASSUME IInv, NEW g \in Goroutines, Dial(g)
  PROVE  IInv'
<1>1. TypeOK /\ CapacityHeld /\ None \notin Conns
  BY PoolAssumption DEF IInv
<1>2. PICK c \in Conns : /\ link[c] = "none"
                         /\ link' = [link EXCEPT ![c] = "open"]
                         /\ Insert(c) /\ Take(g, "dial", c)
  BY DEF Dial
<1>3. inFlight' = inFlight - 1 /\ UNCHANGED <<sees, overtaken>> /\ pc[g] = "dial"
  BY <1>2 DEF Dial, Take, Goto
<1>4. /\ Pooled' = Pooled \cup {c}
      /\ entry' \in Entries \cup {None}
      /\ conns' \in [Entries -> SUBSET Conns]
  BY <1>1, <1>2, Inserted
<1>5. /\ link' \in [Conns -> {"none", "open", "closed"}]
      /\ \A d \in Conns : link'[d] = IF d = c THEN "open" ELSE link[d]
      /\ Open' = Open \cup {c} /\ c \notin Open
  BY <1>1, <1>2 DEF TypeOK, Open
<1>6. ~overtaken' => \A h \in Goroutines : uses[h] # c
  BY <1>1, <1>2, <1>3 DEF IInv, KnownIsDialed
<1>7. /\ overtaken => overtaken'
      /\ Pooled' \subseteq Pooled \cup {c}
  BY <1>3, <1>4
<1>8. /\ pc' \in [Goroutines -> {"out", "get", "ping", "reserve", "dial", "use"}]
      /\ want' \in [Goroutines -> Conns \cup {None}]
      /\ uses' \in [Goroutines -> Conns \cup {None}]
      /\ busy' \in [Conns -> BOOLEAN]
      /\ \A h \in Goroutines :
           /\ pc'[h] = "use" <=> uses'[h] # None
           /\ h # g => pc'[h] = pc[h] /\ uses'[h] = uses[h] /\ want'[h] = want[h]
      /\ pc'[g] = "use" /\ uses'[g] = c
      /\ UsedIsBusy' /\ SingleUseUnlessOvertaken'
      /\ \A d \in Pooled' : busy'[d] => Users(d)' # {}
  BY <1>2, <1>6, <1>7, HandOut
<1>9. inFlight' = Cardinality(Dialing') /\ inFlight' \in 0..MaxConns
  BY <1>1, <1>2, <1>3, DialingEnds DEF Take
<1>10. CapacityHeld'
  BY <1>8, <1>9 DEF CapacityHeld
<1>11. CapUnlessOvertaken'
  <2>1. SUFFICES ASSUME ~overtaken
                 PROVE  /\ Cardinality(Open') + Cardinality(Dialing') <= MaxConns
                        /\ Open' \subseteq Pooled'
    BY <1>3 DEF CapUnlessOvertaken
  <2>2. Open' \subseteq Pooled'
    BY <1>4, <1>5, <2>1 DEF IInv, CapUnlessOvertaken
  <2>3. /\ IsFiniteSet(Open) /\ Cardinality(Open) \in Nat
        /\ inFlight \in Nat /\ MaxConns \in Nat
    BY <1>1, Finite
  <2>4. Cardinality(Open') = Cardinality(Open) + 1
    BY <1>5, <2>3, FS_AddElement
  <2>5. Cardinality(Open) + inFlight <= MaxConns
    BY <2>1 DEF IInv, CapacityHeld, CapUnlessOvertaken
  <2>6. QED
    BY <1>3, <1>9, <2>2, <2>3, <2>4, <2>5
<1>12. KnownIsDialed'
  <2>1. SUFFICES ASSUME ~overtaken PROVE KnownIsDialed'
    BY <1>3 DEF KnownIsDialed
  <2>2. \A h \in Goroutines : uses[h] \in Conns \cup {None}
    BY <1>1 DEF TypeOK
  <2>3. Pooled \subseteq Conns
    BY <1>1 DEF TypeOK, Pooled
  <2>4. \A d \in Conns : link[d] # "none" => link'[d] # "none"
    BY <1>5
  <2>5. link'[c] # "none"
    BY <1>5
  <2>6. \A d \in Pooled' : link'[d] # "none"
    BY <1>4, <2>1, <2>3, <2>4, <2>5 DEF IInv, KnownIsDialed
  <2>7. \A h \in Goroutines : uses'[h] # None => link'[uses'[h]] # "none"
    BY <1>8, <2>1, <2>2, <2>4, <2>5 DEF IInv, KnownIsDialed
  <2>8. QED
    BY <2>6, <2>7 DEF KnownIsDialed
<1>13. \A h \in Goroutines :
         /\ pc'[h] = "ping" <=> sees'[h] # None
         /\ pc'[h] = "ping" => want'[h] # None
  BY <1>1, <1>3, <1>8 DEF TypeOK
<1>14. TypeOK'
  BY <1>1, <1>3, <1>4, <1>5, <1>8, <1>9, <1>13 DEF TypeOK
<1>15. QED
  BY <1>8, <1>10, <1>11, <1>12, <1>14 DEF IInv

\* The attempt of one goroutine ends and only its connection can change: who else
\* works with one, and who dials, stays.
LEMMA UseEnds ==
  ASSUME IInv, NEW g \in Goroutines, Put(g) \/ RemoveConn(g)
  PROVE  /\ uses[g] \in Conns /\ uses'[g] = None
         /\ \A h \in Goroutines : h # g => uses'[h] = uses[h]
         /\ UNCHANGED <<inFlight, want, sees, overtaken>> /\ Dialing' = Dialing
         /\ pc' \in [Goroutines -> {"out", "get", "ping", "reserve", "dial", "use"}]
         /\ uses' \in [Goroutines -> Conns \cup {None}]
         /\ \A h \in Goroutines :
              /\ pc'[h] = "use" <=> uses'[h] # None
              /\ pc'[h] = "ping" <=> sees'[h] # None
              /\ pc'[h] = "ping" => want'[h] # None
         /\ SingleUseUnlessOvertaken'
<1>1. TypeOK /\ None \notin Conns
  BY PoolAssumption DEF IInv
<1>2. /\ Goto(g, "use", "out") /\ uses' = [uses EXCEPT ![g] = None]
      /\ UNCHANGED <<inFlight, want, sees, overtaken>>
  BY DEF Put, RemoveConn
<1>3. Dialing' = Dialing
  BY <1>1, <1>2, DialingKept
<1>4. /\ uses[g] \in Conns /\ uses'[g] = None
      /\ \A h \in Goroutines : h # g => uses'[h] = uses[h]
      /\ pc' \in [Goroutines -> {"out", "get", "ping", "reserve", "dial", "use"}]
      /\ uses' \in [Goroutines -> Conns \cup {None}]
      /\ \A h \in Goroutines :
           /\ pc'[h] = "use" <=> uses'[h] # None
           /\ pc'[h] = "ping" <=> sees'[h] # None
           /\ pc'[h] = "ping" => want'[h] # None
  BY <1>1, <1>2 DEF TypeOK, Goto
<1>5. SingleUseUnlessOvertaken'
  BY <1>1, <1>2, <1>4 DEF IInv, SingleUseUnlessOvertaken, Users
<1>6. QED
  BY <1>2, <1>3, <1>4, <1>5

\* The connection that is given back has no other user.
LEMMA PutStep ==
  ASSUME IInv, NEW g \in Goroutines, Put(g)
  PROVE  IInv'
<1> DEFINE c == uses[g]
<1>1. TypeOK /\ None \notin Conns
  BY PoolAssumption DEF IInv
<1>2. /\ busy' = [busy EXCEPT ![c] = FALSE] /\ Insert(c) /\ UNCHANGED link
  BY DEF Put
<1>3. /\ c \in Conns /\ uses'[g] = None
      /\ \A h \in Goroutines : h # g => uses'[h] = uses[h]
      /\ UNCHANGED <<inFlight, want, sees, overtaken>> /\ Dialing' = Dialing
      /\ pc' \in [Goroutines -> {"out", "get", "ping", "reserve", "dial", "use"}]
      /\ uses' \in [Goroutines -> Conns \cup {None}]
      /\ \A h \in Goroutines :
           /\ pc'[h] = "use" <=> uses'[h] # None
           /\ pc'[h] = "ping" <=> sees'[h] # None
           /\ pc'[h] = "ping" => want'[h] # None
      /\ SingleUseUnlessOvertaken'
  BY UseEnds
<1>4. /\ busy' \in [Conns -> BOOLEAN] /\ busy'[c] = FALSE
      /\ \A d \in Conns : d # c => busy'[d] = busy[d]
  BY <1>1, <1>2, <1>3 DEF TypeOK
<1>5. \A h \in Goroutines :
        uses[h] \in Conns \cup {None} /\ (~overtaken /\ h # g => uses[h] # c)
  BY <1>1, <1>3 DEF IInv, TypeOK, SingleUseUnlessOvertaken, Users
<1>6. c # None /\ uses[g] = c
  BY <1>1, <1>3
<1> HIDE DEF c
<1>7. /\ Pooled' = Pooled \cup {c} /\ Pooled \subseteq Conns
      /\ entry' \in Entries \cup {None}
      /\ conns' \in [Entries -> SUBSET Conns]
  BY <1>1, <1>2, <1>3, Inserted DEF TypeOK, Pooled
<1>8. Open' = Open
  BY <1>2 DEF Open
<1>9. CapUnlessOvertaken'
  <2>1. Open' \subseteq Open /\ (~overtaken' => Open' \subseteq Pooled')
    BY <1>3, <1>7, <1>8 DEF IInv, CapUnlessOvertaken
  <2>2. overtaken => overtaken'
    BY <1>3
  <2>3. QED
    BY <1>3, <2>1, <2>2, CapShrinks
<1>10. CapacityHeld'
  <2>1. SUFFICES ASSUME NEW d \in Pooled', busy'[d]
                 PROVE  \E h \in Goroutines : uses'[h] = d
    BY <1>3 DEF IInv, CapacityHeld, Users
  <2>2. d # c
    BY <1>4, <2>1
  <2>3. d \in Pooled /\ busy[d]
    BY <1>4, <1>7, <2>1, <2>2
  <2>4. PICK h \in Goroutines : uses[h] = d
    BY <2>3 DEF IInv, CapacityHeld, Users
  <2>5. QED
    BY <1>3, <1>6, <2>2, <2>4
<1>11. UsedIsBusy'
  BY <1>3, <1>4, <1>5 DEF IInv, UsedIsBusy
<1>12. KnownIsDialed'
  BY <1>2, <1>3, <1>6, <1>7 DEF IInv, KnownIsDialed
<1>13. TypeOK'
  BY <1>1, <1>2, <1>3, <1>4, <1>7 DEF TypeOK
<1>14. QED
  BY <1>3, <1>9, <1>10, <1>11, <1>12, <1>13 DEF IInv

\* The connection that is closed leaves the pool, busy as it was.
LEMMA RemoveStep ==
  ASSUME IInv, NEW g \in Goroutines, RemoveConn(g)
  PROVE  IInv'
<1> DEFINE c == uses[g]
<1>1. TypeOK /\ None \notin Conns
  BY PoolAssumption DEF IInv
<1>2. /\ link' = Closed({c}) /\ UNCHANGED busy
      /\ IF entry = None THEN UNCHANGED <<entry, conns>> ELSE Store(Pooled \ {c})
  BY DEF RemoveConn
<1>3. /\ c \in Conns /\ uses'[g] = None
      /\ \A h \in Goroutines : h # g => uses'[h] = uses[h]
      /\ UNCHANGED <<inFlight, want, sees, overtaken>> /\ Dialing' = Dialing
      /\ pc' \in [Goroutines -> {"out", "get", "ping", "reserve", "dial", "use"}]
      /\ uses' \in [Goroutines -> Conns \cup {None}]
      /\ \A h \in Goroutines :
           /\ pc'[h] = "use" <=> uses'[h] # None
           /\ pc'[h] = "ping" <=> sees'[h] # None
           /\ pc'[h] = "ping" => want'[h] # None
      /\ SingleUseUnlessOvertaken'
  BY UseEnds
<1>4. c # None /\ uses[g] = c
  BY <1>1, <1>3
<1> HIDE DEF c
<1>5. /\ Pooled \subseteq Conns /\ Pooled' = Pooled \ {c}
      /\ entry' \in Entries \cup {None}
      /\ conns' \in [Entries -> SUBSET Conns]
  <2>1. Pooled \subseteq Conns
    BY <1>1 DEF TypeOK, Pooled
  <2>2. CASE entry = None
    BY <1>1, <1>2, <2>2 DEF TypeOK, Pooled
  <2>3. CASE entry # None
    <3>1. Pooled \ {c} \in SUBSET Conns /\ Store(Pooled \ {c})
      BY <1>2, <2>1, <2>3
    <3>2. QED
      BY <1>1, <2>1, <2>3, <3>1, Stored
  <2>4. QED
    BY <2>2, <2>3
<1>6. /\ link' \in [Conns -> {"none", "open", "closed"}]
      /\ \A d \in Conns : link'[d] = IF d = c THEN "closed" ELSE link[d]
      /\ Open' = Open \ {c}
  BY <1>1, <1>2 DEF TypeOK, Closed, Open
<1>7. CapUnlessOvertaken'
  <2>1. Open' \subseteq Open /\ (~overtaken' => Open' \subseteq Pooled')
    BY <1>3, <1>5, <1>6 DEF IInv, CapUnlessOvertaken
  <2>2. overtaken => overtaken'
    BY <1>3
  <2>3. QED
    BY <1>3, <2>1, <2>2, CapShrinks
<1>8. CapacityHeld'
  <2>1. SUFFICES ASSUME NEW d \in Pooled', busy'[d]
                 PROVE  \E h \in Goroutines : uses'[h] = d
    BY <1>3 DEF IInv, CapacityHeld, Users
  <2>2. d # c /\ d \in Pooled /\ busy[d]
    BY <1>2, <1>5, <2>1
  <2>3. PICK h \in Goroutines : uses[h] = d
    BY <2>2 DEF IInv, CapacityHeld, Users
  <2>4. QED
    BY <1>3, <1>4, <2>2, <2>3
<1>9. UsedIsBusy'
  BY <1>2, <1>3 DEF IInv, UsedIsBusy
<1>10. KnownIsDialed'
  <2>1. \A h \in Goroutines : uses[h] \in Conns \cup {None}
    BY <1>1 DEF TypeOK
  <2>2. QED
    BY <1>3, <1>5, <1>6, <2>1 DEF IInv, KnownIsDialed
<1>11. TypeOK'
  BY <1>1, <1>2, <1>3, <1>5, <1>6 DEF TypeOK
<1>12. QED
  BY <1>3, <1>7, <1>8, <1>9, <1>10, <1>11 DEF IInv

-----------------------------------------------------------------------------
(* The theorems *)

\* The pool starts empty and nobody works with a connection.
LEMMA Initially == Init => IInv
<1> SUFFICES ASSUME Init PROVE IInv
  OBVIOUS
<1>1. TypeOK
  <2>1. busy \in [Conns -> BOOLEAN] /\ overtaken \in BOOLEAN
    BY Zenon DEF Init
  <2>2. 0 \in 0..MaxConns
    BY PoolAssumption
  <2>3. conns \in [Entries -> SUBSET Conns] /\ link \in [Conns -> {"none", "open", "closed"}]
    BY Zenon DEF Init
  <2>4. QED
    BY <2>1, <2>2, <2>3, PoolAssumption DEF Init, TypeOK
<1>2. Pooled = {} /\ Open = {} /\ Dialing = {}
  BY DEF Init, Pooled, Open, Dialing
<1>3. KnownIsDialed /\ UsedIsBusy
  BY <1>2 DEF Init, KnownIsDialed, UsedIsBusy
<1>4. CapacityHeld /\ CapUnlessOvertaken
  BY <1>2, FS_EmptySet, PoolAssumption
  DEF Init, CapacityHeld, CapUnlessOvertaken
<1>5. SingleUseUnlessOvertaken
  BY PoolAssumption DEF Init, SingleUseUnlessOvertaken, Users
<1>6. QED
  BY <1>1, <1>3, <1>4, <1>5 DEF IInv

\* The invariant holds in every reachable state: every step of a request and of the
\* cleanup keeps it.
THEOREM Invariance == Spec => []IInv
<1>1. IInv /\ [Next]_vars => IInv'
  <2> SUFFICES ASSUME IInv, [Next]_vars PROVE IInv'
    OBVIOUS
  <2>1. ASSUME NEW g \in Goroutines,
               Begin(g) \/ Refused(g) \/ reserveDial(g) \/ DialFails(g)
        PROVE  IInv'
    BY <2>1, ControlStep
  <2>2. ASSUME NEW g \in Goroutines, NEW S \in SUBSET Pooled,
               GetNothing(g, S) \/ GetPings(g, S)
        PROVE  IInv'
    BY <2>2, LookStep
  <2>3. ASSUME NEW g \in Goroutines, NEW S \in SUBSET Pooled, GetIdle(g, S)
        PROVE  IInv'
    BY <2>3, IdleStep
  <2>4. ASSUME NEW g \in Goroutines, PingAnswered(g) PROVE IInv'
    BY <2>4, AnsweredStep
  <2>5. ASSUME NEW g \in Goroutines, PingFails(g) PROVE IInv'
    BY <2>5, FailedStep
  <2>6. ASSUME NEW g \in Goroutines, Dial(g) PROVE IInv'
    BY <2>6, DialStep
  <2>7. ASSUME NEW g \in Goroutines, Put(g) PROVE IInv'
    BY <2>7, PutStep
  <2>8. ASSUME NEW g \in Goroutines, RemoveConn(g) PROVE IInv'
    BY <2>8, RemoveStep
  <2>9. CASE cleanup
    BY <2>9, CleanupStep
  <2>10. CASE UNCHANGED vars
    BY <2>10
    DEF vars, connVars, IInv, TypeOK, KnownIsDialed, CapacityHeld, UsedIsBusy,
        SingleUseUnlessOvertaken, CapUnlessOvertaken, Pooled, Users, Open, Dialing
  <2>11. QED
    BY <2>1, <2>2, <2>3, <2>4, <2>5, <2>6, <2>7, <2>8, <2>9, <2>10 DEF Next
<1>2. QED
  BY Initially, <1>1, PTL DEF Spec

\* Type correctness of the pool and the places of its requests.
THEOREM TypeCorrect == Spec => []TypeOK
BY Invariance, PTL DEF IInv

\* A busy connection has a user and a reservation has a dial (Put, RemoveConn,
\* reserveDial, releaseDial): no capacity is lost for good.
THEOREM CapacityIsHeld == Spec => []CapacityHeld
BY Invariance, PTL DEF IInv

\* Unless a ping was overtaken, GetPreferred and Dial hand a connection to one
\* request at a time.
THEOREM SingleUseKept == Spec => []SingleUseUnlessOvertaken
BY Invariance, PTL DEF IInv

\* Unless a ping was overtaken, the reservations keep the open connections within the
\* cap, and none is open outside the pool.
THEOREM CapKept == Spec => []CapUnlessOvertaken
BY Invariance, PTL DEF IInv

=============================================================================
