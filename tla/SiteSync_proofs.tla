--------------------------- MODULE SiteSync_proofs ---------------------------
(***************************************************************************)
(* A site account, for any number of goroutines, groups, models, routes    *)
(* and channels, any answers of the panel and any bounds.                  *)
(*                                                                         *)
(* The shape of the state: what a goroutine has in hand at each place, and *)
(* what the task that retires outliers holds while it probes.              *)
(*                                                                         *)
(* A synchronisation takes nothing from the account: a group has one       *)
(* usable key of a name, so the row a key of the panel meets is the one    *)
(* whose switch the administrator set.                                     *)
(*                                                                         *)
(* A round without an outage leaves a channel on: from the verdict to the  *)
(* end of the switch, another than the candidate is on, unless somebody    *)
(* else changed something.                                                 *)
(*                                                                         *)
(* A projection leaves what the account asks for: a channel has one name   *)
(* and a name one channel, whatever overlaps; and a projection that        *)
(* nothing disturbed has, at each place, done its part of the account and  *)
(* knows the rest.                                                         *)
(***************************************************************************)
EXTENDS SiteOutlier, TLAPS

(* ---- the shape of the state ---- *)

Goroutines == SiProcs \cup {SiTask}
Binding == Names \X SiChannels

Buckets == [row : ChannelRows, c : SiChannels \cup {SiNone}]
Points ==
  {"idle", "failed", "persist", "load", "list", "off", "bucket", "update", "create", "bind", "join",
   "stale", "unbind", "switch", "cache",
   "recover", "mark", "enable", "clear", "judge", "retire", "outage", "disable"}
Switches == [c : SiChannels \cup {SiNone}, to : BOOLEAN, copy : ChannelRows \cup {SiNone}, back : Points]
Places ==
  [pc : Points, answer : SiAnswers \cup {SiNone}, saw : SUBSET (SiGroups \cup SiChannels),
   want : SUBSET (ChannelRows \cup SiChannels), bound : SUBSET Binding, made : SUBSET Binding,
   todo : SUBSET (ChannelRows \cup Binding \cup SiChannels), cur : {SiNone} \cup SiChannels \cup Buckets,
   switch : Switches, clean : BOOLEAN]

\* What a goroutine that synchronises or projects has in hand, by where it stands.
InLoop(s) == s.pc \in {"list", "bucket", "update", "create", "bind", "join"}
AtSwitch(s) == s.pc \in {"switch", "cache"}
Projects(s) ==
  /\ s.want \subseteq ChannelRows
  /\ s.pc = "persist" => s.answer \in SiAnswers
  /\ InLoop(s) => s.todo \subseteq s.want
  /\ s.pc \in {"update", "create", "bind", "join"} => s.cur \in Buckets
  /\ s.pc \in {"update", "bind", "join"} => s.cur.c \in SiChannels
  /\ s.pc \in {"off", "stale", "unbind"} \/ AtSwitch(s) => s.todo \subseteq Binding
  /\ s.pc = "unbind" => s.cur \in SiChannels
  /\ AtSwitch(s) => /\ s.switch.c \in SiChannels /\ s.switch.copy \in ChannelRows
                      /\ s.switch.back \in {"off", "stale"} /\ ~s.switch.to

\* ... and the one that retires outliers.
Retires(s) ==
  /\ s.want \subseteq SiChannels /\ s.saw \subseteq SiChannels /\ s.todo \subseteq SiChannels
  /\ s.pc \in {"mark", "enable", "clear", "retire", "disable"} => s.cur \in SiChannels
  /\ AtSwitch(s) =>
       /\ s.cur \in SiChannels /\ s.switch.c = s.cur /\ s.switch.copy \in ChannelRows
       /\ IF s.switch.to THEN s.switch.back = "clear" ELSE s.switch.back \in {"judge", "outage"}

Fits(p, s) == s \in Places /\ (p \in SiProcs => Projects(s)) /\ (p = SiTask => Retires(s))
PlacesFit == siProc \in [Goroutines -> Places] /\ \A p \in Goroutines : Fits(p, siProc[p])

\* The rows of the retired channels the task works on stay while it does.
Probing(s) == s.pc \in {"mark", "enable", "clear"} \/ (AtSwitch(s) /\ s.switch.to)
Held(s, retired) ==
  /\ \A c \in s.saw : retired[c] \in Nat
  /\ Probing(s) => s.cur \notin s.saw /\ retired[s.cur] \in Nat
RetiredHeld == Held(siProc[SiTask], siRetired)

Shape == SiTypeOK /\ PlacesFit /\ RetiredHeld

-----------------------------------------------------------------------------

LEMMA Constants ==
  /\ SiTask \notin SiProcs /\ SiTask \in Goroutines /\ SiProcs \subseteq Goroutines
  /\ SiNone \notin SiChannels /\ SiNone \notin Names /\ SiNone \notin ModelRows
  /\ SiNone \notin ChannelRows /\ SiNone \notin SiAnswers
  /\ SiDefault \in SiGroups /\ SiRouteOf \in [SiModels -> SiRoutes] /\ SiAnswers \subseteq PanelSays
BY SiteAssumption DEF SiteAssumption, Goroutines

LEMMA AllPoints ==
  /\ "idle" \in Points /\ "failed" \in Points /\ "persist" \in Points /\ "load" \in Points
  /\ "list" \in Points /\ "off" \in Points /\ "bucket" \in Points /\ "update" \in Points
  /\ "create" \in Points /\ "bind" \in Points /\ "join" \in Points /\ "stale" \in Points
  /\ "unbind" \in Points /\ "switch" \in Points /\ "cache" \in Points /\ "recover" \in Points
  /\ "mark" \in Points /\ "enable" \in Points /\ "clear" \in Points /\ "judge" \in Points
  /\ "retire" \in Points /\ "outage" \in Points /\ "disable" \in Points
BY DEF Points

LEMMA IdleFits == \A p \in Goroutines : Fits(p, Idle)
<1>1. NoSwitch \in Switches
  BY AllPoints DEF NoSwitch, Switches
<1>2. Idle \in Places
  BY <1>1, AllPoints DEF Idle, Places
<1>3. Projects(Idle) /\ Retires(Idle)
  BY DEF Idle, Projects, Retires, InLoop, AtSwitch
<1> QED  BY <1>2, <1>3 DEF Fits

\* Losing the mark of being undisturbed changes nothing else.
LEMMA DisturbedFits ==
  ASSUME NEW p \in Goroutines, NEW s, Fits(p, s)
  PROVE  Fits(p, Disturbed(s))
BY ZenonT(60) DEF Disturbed, Fits, Places, Projects, Retires, InLoop, AtSwitch

LEMMA OneMoves ==
  ASSUME PlacesFit, NEW p \in Goroutines, NEW to, Fits(p, to), Quiet(p, to) \/ Wrote(p, to)
  PROVE  /\ PlacesFit' /\ siProc'[p] = to
         /\ \A q \in Goroutines \ {p} :
              \/ siProc'[q] = siProc[q]
              \/ siProc'[q] = Disturbed(siProc[q]) /\ Wrote(p, to)
<1>1. CASE Quiet(p, to)
  BY <1>1 DEF PlacesFit, Quiet, Fits
<1>2. CASE Wrote(p, to)
  <2>1. DOMAIN siProc = Goroutines
    BY DEF PlacesFit
  <2>2. \A q \in Goroutines : siProc'[q] = IF q = p THEN to ELSE Disturbed(siProc[q])
    BY <1>2, <2>1 DEF Wrote
  <2>3. \A q \in Goroutines : Fits(q, siProc'[q])
    BY <2>2, DisturbedFits DEF PlacesFit
  <2>4. siProc' = [q \in Goroutines |-> siProc'[q]]
    BY <1>2, <2>1 DEF Wrote
  <2>5. PlacesFit'
    BY <2>3, <2>4 DEF PlacesFit, Fits
  <2> QED  BY <2>2, <2>5, <1>2
<1> QED  BY <1>1, <1>2

-----------------------------------------------------------------------------
(* What the tables hold *)

LEMMA WantedAreRows ==
  ASSUME SiTypeOK
  PROVE  Wanted \subseteq ChannelRows
<1> SUFFICES ASSUME NEW n \in Names
             PROVE  [name |-> n, models |-> Bucket(n[1], n[2]), on |-> TRUE,
                     keys |-> {<<t.name, t.on>> : t \in Usable(n[1])}] \in ChannelRows
  BY DEF Wanted
<1>1. Bucket(n[1], n[2]) \subseteq SiModels
  BY DEF Bucket
<1>2. {<<t.name, t.on>> : t \in Usable(n[1])} \subseteq {"panel", "own"} \X BOOLEAN
  BY DEF Usable, SiTypeOK, TokenRows
<1> QED  BY <1>1, <1>2 DEF ChannelRows

LEMMA KeysStayKeys ==
  ASSUME NEW S, NEW db \in SUBSET S, NEW cached, NEW want \in SUBSET S
  PROVE  KeysAfter(db, cached, want) \in SUBSET S
BY DEF KeysAfter

LEMMA EntriesAreBindings ==
  ASSUME SiTypeOK
  PROVE  Entries \subseteq Binding /\ Ends(Entries) \subseteq SiChannels
<1>1. \A c \in SiChannels : siBindings[c] # SiNone => siBindings[c] \in Names
  BY DEF SiTypeOK
<1> QED  BY <1>1 DEF Entries, Ends, Binding

LEMMA EndsAreChannels ==
  ASSUME NEW B \in SUBSET Binding
  PROVE  Ends(B) \subseteq SiChannels /\ \A n : Bound(B, n) \subseteq SiChannels
BY DEF Ends, Bound, Binding

LEMMA LoadedFits ==
  ASSUME SiTypeOK, NEW p \in SiProcs
  PROVE  Fits(p, Loaded)
<1>1. Wanted \subseteq ChannelRows /\ Entries \subseteq Binding /\ PausedGroups \subseteq SiGroups
  BY WantedAreRows, EntriesAreBindings DEF PausedGroups
<1>2. Idle \in Places /\ Projects(Idle)
  BY IdleFits, Constants DEF Fits
<1>3. (siCache = siDb) \in BOOLEAN
  OBVIOUS
<1>4. Loaded \in Places
  BY <1>1, <1>2, <1>3, AllPoints DEF Loaded, Places
<1>5. Projects(Loaded)
  BY <1>1, <1>2 DEF Loaded, Idle, NoSwitch, Projects, InLoop, AtSwitch
<1> QED  BY <1>4, <1>5, Constants DEF Fits

LEMMA SwitchingFits ==
  ASSUME SiTypeOK, NEW p \in SiProcs, NEW then, Fits(p, then), then.pc \in {"off", "stale"},
         NEW c \in SiChannels
  PROVE  Fits(p, Switching(c, FALSE, then))
<1>1. CASE siCache[c] = SiNone
  BY <1>1 DEF Switching
<1>2. CASE siCache[c] # SiNone
  <2> DEFINE sw == [c |-> c, to |-> FALSE, copy |-> siCache[c], back |-> then.pc]
  <2>1. siCache[c] \in ChannelRows
    BY <1>2 DEF SiTypeOK
  <2>2. sw \in Switches
    BY <2>1 DEF Switches, Points
  <2>3. Switching(c, FALSE, then) = [then EXCEPT !.pc = "switch", !.switch = sw]
    BY <1>2 DEF Switching, Switched
  <2>4. then \in Places /\ Projects(then)
    BY DEF Fits
  <2>5. [then EXCEPT !.pc = "switch", !.switch = sw] \in Places
    BY <2>2, <2>4, AllPoints DEF Places
  <2>6. Projects([then EXCEPT !.pc = "switch", !.switch = sw])
    BY <2>1, <2>4 DEF Projects, Places, InLoop, AtSwitch
  <2> QED  BY <2>3, <2>5, <2>6, Constants DEF Fits
<1> QED  BY <1>1, <1>2

-----------------------------------------------------------------------------
(* Where a goroutine that synchronises or projects goes *)

Goes(p) == \E to : Fits(p, to) /\ (Quiet(p, to) \/ Wrote(p, to))

LEMMA SyncGoes ==
  ASSUME Shape, NEW p \in SiProcs, SiSync(p)
  PROVE  Goes(p)
<1>1. CASE SyncStart(p)
  <2>1. PICK a \in SiAnswers \cup {SiNone} :
          Quiet(p, [Idle EXCEPT !.pc = IF a = SiNone THEN "failed" ELSE "persist",
                                !.answer = a, !.saw = KnownGroups])
    BY <1>1 DEF SyncStart
  <2> DEFINE to == [Idle EXCEPT !.pc = IF a = SiNone THEN "failed" ELSE "persist",
                                !.answer = a, !.saw = KnownGroups]
  <2>2. KnownGroups \subseteq SiGroups
    BY DEF KnownGroups
  <2>3. to \in Places
    BY <2>2, IdleFits, Constants, AllPoints DEF Fits, Places
  <2>4. Projects(to)
    BY IdleFits, Constants DEF Fits, Projects, Places, InLoop, AtSwitch
  <2> QED  BY <2>1, <2>3, <2>4, Constants DEF Fits, Goes
<1>2. CASE Persist(p)
  <2> DEFINE to == [Idle EXCEPT !.pc = "load"]
  <2>1. Wrote(p, to)
    BY <1>2 DEF Persist
  <2>2. to \in Places /\ Projects(to)
    BY IdleFits, Constants, AllPoints DEF Fits, Places, Projects, InLoop, AtSwitch
  <2> QED  BY <2>1, <2>2, Constants DEF Fits, Goes
<1>3. CASE MarkStale(p)
  BY <1>3, IdleFits, Constants DEF MarkStale, Goes
<1> QED  BY <1>1, <1>2, <1>3 DEF SiSync

LEMMA ProjectGoes ==
  ASSUME Shape, NEW p \in SiProcs, SiProject(p), ~Projected(p)
  PROVE  Goes(p)
<1> DEFINE s == siProc[p]
<1>0. s \in Places /\ Projects(s) /\ p \in Goroutines /\ p # SiTask
  BY Constants DEF Shape, PlacesFit, Fits
<1>1. CASE ProjectStart(p) \/ Load(p)
  BY <1>1, LoadedFits DEF ProjectStart, Load, Goes, Shape
<1>2. CASE List(p)
  <2> DEFINE to == [s EXCEPT !.pc = "bucket", !.bound = Entries]
  <2>1. Quiet(p, to) /\ s.pc = "list"
    BY <1>2 DEF List
  <2>2. to \in Places
    BY <1>0, EntriesAreBindings, AllPoints DEF Places, Shape
  <2>3. Projects(to)
    BY <1>0, <2>1 DEF Projects, Places, InLoop, AtSwitch
  <2> QED  BY <2>1, <2>2, <2>3, <1>0 DEF Fits, Goes
<1>3. CASE Off(p)
  <2>1. PICK e \in s.todo : Quiet(p, Switching(e[2], FALSE, [s EXCEPT !.todo = @ \ {e}]))
    BY <1>3 DEF Off
  <2>2. s.pc = "off"
    BY <1>3 DEF Off
  <2> DEFINE then == [s EXCEPT !.todo = @ \ {e}]
  <2>3. e[2] \in SiChannels
    BY <1>0, <2>2 DEF Projects, Binding
  <2>4. then \in Places /\ then.pc = "off"
    BY <1>0, <2>2 DEF Places
  <2>5. Projects(then)
    BY <1>0, <2>2 DEF Projects, Places, InLoop, AtSwitch
  <2>6. Fits(p, then)
    BY <2>4, <2>5, <1>0 DEF Fits
  <2> HIDE DEF then
  <2>7. Fits(p, Switching(e[2], FALSE, then))
    BY <2>3, <2>4, <2>6, SwitchingFits DEF Shape
  <2> QED  BY <2>1, <2>7 DEF Goes, then
<1>4. CASE Bucketed(p)
  <2>1. PICK w \in s.todo : \E c \in SiChannels \cup {SiNone}, pc \in {"update", "create"} :
          /\ pc = "update" => c \in SiChannels
          /\ \/ Quiet(p, [s EXCEPT !.pc = pc, !.cur = [row |-> w, c |-> c]])
             \/ Wrote(p, [s EXCEPT !.pc = pc, !.cur = [row |-> w, c |-> c]])
             \/ Wrote(p, Idle)
    <3>1. \A n : Bound(s.bound, n) \subseteq SiChannels
      BY <1>0, EndsAreChannels DEF Places
    <3> QED  BY <1>4, <3>1 DEF Bucketed
  <2>2. PICK c \in SiChannels \cup {SiNone}, pc \in {"update", "create"} :
          /\ pc = "update" => c \in SiChannels
          /\ \/ Quiet(p, [s EXCEPT !.pc = pc, !.cur = [row |-> w, c |-> c]])
             \/ Wrote(p, [s EXCEPT !.pc = pc, !.cur = [row |-> w, c |-> c]])
             \/ Wrote(p, Idle)
    BY <2>1
  <2> DEFINE to == [s EXCEPT !.pc = pc, !.cur = [row |-> w, c |-> c]]
  <2>3. s.pc = "bucket" /\ w \in ChannelRows
    BY <1>0, <1>4 DEF Bucketed, Projects, InLoop
  <2>4. [row |-> w, c |-> c] \in Buckets
    BY <2>3 DEF Buckets
  <2>5. to \in Places
    BY <1>0, <2>4, AllPoints DEF Places
  <2>6. Projects(to)
    BY <1>0, <2>2, <2>3, <2>4 DEF Projects, Places, InLoop, AtSwitch
  <2> QED  BY <2>2, <2>5, <2>6, <1>0, IdleFits DEF Fits, Goes
<1>5. ASSUME s.pc \in {"update", "bind"}
      PROVE  Fits(p, Bucketless(p, s.cur.c))
  <2> DEFINE c == s.cur.c
             to == Bucketless(p, c)
  <2>1. s.cur \in Buckets /\ c \in SiChannels /\ s.todo \subseteq s.want
    BY <1>0, <1>5 DEF Projects, InLoop
  <2>2. s.cur.row \in ChannelRows /\ s.cur.row.name \in Names /\ [s.cur EXCEPT !.c = c] \in Buckets
    BY <2>1 DEF Buckets, ChannelRows
  <2>3. to \in Places
    <3> DEFINE made == s.made \cup {<<s.cur.row.name, c>>}
               cur == IF siAuto THEN [s.cur EXCEPT !.c = c] ELSE SiNone
               pc == IF siAuto THEN "join" ELSE "bucket"
               todo == s.todo \ {s.cur.row}
    <3>1. made \in SUBSET Binding /\ cur \in {SiNone} \cup SiChannels \cup Buckets /\ pc \in Points
          /\ todo \in SUBSET (ChannelRows \cup Binding \cup SiChannels)
      BY <1>0, <2>1, <2>2, AllPoints DEF Places, Binding
    <3>2. to = [s EXCEPT !.pc = pc, !.todo = todo, !.made = made, !.cur = cur]
      BY <1>0 DEF Bucketless, Places
    <3> HIDE DEF made, cur, pc, todo
    <3> QED  BY <1>0, <3>1, <3>2 DEF Places
  <2>4. Projects(to)
    BY <1>0, <2>1, <2>2 DEF Projects, Places, Bucketless, InLoop, AtSwitch, Buckets
  <2> QED  BY <2>3, <2>4, <1>0 DEF Fits
<1>6. CASE Update(p) \/ Bind(p)
  BY <1>5, <1>6, <1>0, IdleFits DEF Update, Bind, Goes
<1>7. CASE Create(p)
  <2>1. CASE Quiet(p, Idle)
    BY <2>1, <1>0, IdleFits DEF Goes
  <2>2. CASE ~Quiet(p, Idle)
    <3>1. PICK c \in SiChannels : Wrote(p, [s EXCEPT !.pc = "bind", !.cur.c = c])
      BY <1>7, <2>2 DEF Create
    <3> DEFINE to == [s EXCEPT !.pc = "bind", !.cur.c = c]
    <3>2. s.pc = "create" /\ s.cur \in Buckets
      BY <1>0, <1>7 DEF Create, Projects
    <3>3. [s.cur EXCEPT !.c = c] \in Buckets /\ [s.cur EXCEPT !.c = c].c = c
      BY <3>2 DEF Buckets
    <3>4. to = [s EXCEPT !.pc = "bind", !.cur = [s.cur EXCEPT !.c = c]]
      BY <1>0 DEF Places
    <3>5. to \in Places
      BY <1>0, <3>3, <3>4, AllPoints DEF Places
    <3>6. Projects(to)
      BY <1>0, <3>2, <3>3, <3>4 DEF Projects, Places, InLoop, AtSwitch
    <3> QED  BY <3>1, <3>5, <3>6, <1>0 DEF Fits, Goes
  <2> QED  BY <2>1, <2>2
<1>8. CASE Join(p)
  <2> DEFINE to == [s EXCEPT !.pc = "bucket", !.cur = SiNone]
  <2>1. Wrote(p, to) /\ s.pc = "join"
    BY <1>8 DEF Join
  <2>2. to \in Places
    BY <1>0, AllPoints DEF Places
  <2>3. Projects(to)
    BY <1>0, <2>1 DEF Projects, Places, InLoop, AtSwitch
  <2> QED  BY <2>1, <2>2, <2>3, <1>0 DEF Fits, Goes
<1>9. CASE Rewrite(p)
  <2> DEFINE to == [s EXCEPT !.pc = "stale",
                             !.todo = {e \in s.bound : \A w \in s.want : w.name # e[1]}]
  <2>1. s.pc = "bucket" /\ (Wrote(p, Idle) \/ Wrote(p, to))
    BY <1>9 DEF Rewrite, Rewriting, RewriteSome
  <2>2. to \in Places
    BY <1>0, AllPoints DEF Places
  <2>3. Projects(to)
    BY <1>0, <2>1 DEF Projects, Places, InLoop, AtSwitch
  <2> QED  BY <2>1, <2>2, <2>3, <1>0, IdleFits DEF Fits, Goes
<1>10. CASE Stale(p)
  <2>1. PICK e \in s.todo :
          \/ Quiet(p, Switching(e[2], FALSE, [s EXCEPT !.todo = @ \ {e}]))
          \/ Quiet(p, [[s EXCEPT !.todo = @ \ {e}] EXCEPT !.pc = "unbind", !.cur = e[2]])
          \/ Wrote(p, [[s EXCEPT !.todo = @ \ {e}] EXCEPT !.pc = "unbind", !.cur = e[2]])
    BY <1>10 DEF Stale
  <2>2. s.pc = "stale"
    BY <1>10 DEF Stale
  <2> DEFINE then == [s EXCEPT !.todo = @ \ {e}]
             to == [then EXCEPT !.pc = "unbind", !.cur = e[2]]
  <2>3. e[2] \in SiChannels
    BY <1>0, <2>2 DEF Projects, Binding
  <2>4. then \in Places /\ then.pc = "stale"
    BY <1>0, <2>2 DEF Places
  <2>5. Projects(then)
    BY <1>0, <2>2 DEF Projects, Places, InLoop, AtSwitch
  <2>6. Fits(p, then)
    BY <2>4, <2>5, <1>0 DEF Fits
  <2>7. to \in Places
    BY <2>3, <2>4, AllPoints DEF Places
  <2>8. Projects(to)
    BY <2>2, <2>3, <2>4, <2>5 DEF Projects, Places, InLoop, AtSwitch
  <2>9. Fits(p, to)
    BY <2>7, <2>8, <1>0 DEF Fits
  <2> HIDE DEF then
  <2>10. Fits(p, Switching(e[2], FALSE, then))
    BY <2>3, <2>4, <2>6, SwitchingFits DEF Shape
  <2> QED  BY <2>1, <2>9, <2>10 DEF Goes, then
<1>11. CASE Unbind(p)
  <2> DEFINE to == [s EXCEPT !.pc = "stale", !.cur = SiNone]
  <2>1. Wrote(p, to) /\ s.pc = "unbind"
    BY <1>11 DEF Unbind
  <2>2. to \in Places
    BY <1>0, AllPoints DEF Places
  <2>3. Projects(to)
    BY <1>0, <2>1 DEF Projects, Places, InLoop, AtSwitch
  <2> QED  BY <2>1, <2>2, <2>3, <1>0 DEF Fits, Goes
<1>12. CASE KeepRetired(p)
  <2>1. PICK e \in s.made :
          \/ Quiet(p, Switching(e[2], FALSE, [s EXCEPT !.made = @ \ {e}]))
          \/ Quiet(p, [s EXCEPT !.made = @ \ {e}])
    BY <1>12 DEF KeepRetired
  <2>2. s.pc = "stale"
    BY <1>12 DEF KeepRetired
  <2> DEFINE then == [s EXCEPT !.made = @ \ {e}]
  <2>3. e[2] \in SiChannels
    BY <1>0 DEF Places, Binding
  <2>4. then \in Places /\ then.pc = "stale"
    BY <1>0, <2>2 DEF Places
  <2>5. Projects(then)
    BY <1>0, <2>2 DEF Projects, Places, InLoop, AtSwitch
  <2>6. Fits(p, then)
    BY <2>4, <2>5, <1>0 DEF Fits
  <2> HIDE DEF then
  <2>7. Fits(p, Switching(e[2], FALSE, then))
    BY <2>3, <2>4, <2>6, SwitchingFits DEF Shape
  <2> QED  BY <2>1, <2>6, <2>7 DEF Goes, then
<1> QED  BY <1>1, <1>2, <1>3, <1>4, <1>6, <1>7, <1>8, <1>9, <1>10, <1>11, <1>12 DEF SiProject

LEMMA SwitchGoes ==
  ASSUME Shape, NEW p \in Goroutines, SiSwitch(p)
  PROVE  Goes(p)
<1> DEFINE s == siProc[p]
<1>0. s \in Places /\ Fits(p, s) /\ p \in SiProcs \cup {SiTask}
  BY DEF Shape, PlacesFit, Fits, Goroutines
<1>1. CASE SwitchRow(p)
  <2> DEFINE to == [s EXCEPT !.pc = "cache"]
  <2>1. Wrote(p, to) /\ s.pc = "switch"
    BY <1>1 DEF SwitchRow
  <2>2. to \in Places
    BY <1>0, AllPoints DEF Places
  <2>3. p \in SiProcs => Projects(to)
    BY <1>0, <2>1 DEF Fits, Projects, Places, InLoop, AtSwitch
  <2>4. p = SiTask => Retires(to)
    BY <1>0, <2>1 DEF Fits, Retires, Places, AtSwitch
  <2> QED  BY <2>1, <2>2, <2>3, <2>4 DEF Fits, Goes
<1>2. CASE SwitchCache(p)
  <2> DEFINE to == [s EXCEPT !.pc = s.switch.back, !.switch = NoSwitch]
  <2>1. Wrote(p, to) /\ s.pc = "cache"
    BY <1>2 DEF SwitchCache
  <2>2. to \in Places
    BY <1>0, AllPoints DEF Places, Switches, NoSwitch
  <2>3. p \in SiProcs => Projects(to)
    BY <1>0, <2>1 DEF Fits, Projects, Places, InLoop, AtSwitch
  <2>4. p = SiTask => Retires(to)
    BY <1>0, <2>1 DEF Fits, Retires, Places, AtSwitch
  <2> QED  BY <2>1, <2>2, <2>3, <2>4 DEF Fits, Goes
<1> QED  BY <1>1, <1>2 DEF SiSwitch

LEMMA FailGoes ==
  ASSUME Shape, NEW p \in SiProcs, SiFail(p)
  PROVE  Goes(p)
<1> DEFINE s == siProc[p]
<1>0. s \in Places /\ Projects(s) /\ p \in Goroutines /\ p # SiTask
  BY Constants DEF Shape, PlacesFit, Fits
<1> DEFINE on == [s EXCEPT !.switch = NoSwitch, !.clean = FALSE,
                           !.pc = IF @ = "switch" THEN s.switch.back ELSE "bucket",
                           !.cur = IF s.pc = "join" THEN SiNone ELSE @]
<1>1. CASE s.pc \in {"switch", "join"} /\ Quiet(p, on)
  <2>1. NoSwitch \in Switches
    BY AllPoints DEF NoSwitch, Switches
  <2>2. on \in Places
    BY ZenonT(60), <1>0, <2>1, AllPoints DEF Places, Switches
  <2>3. Projects(on)
    BY <1>0, <1>1 DEF Projects, Places, InLoop, AtSwitch
  <2> QED  BY <1>1, <2>2, <2>3, <1>0 DEF Fits, Goes
<1>2. ASSUME s.pc = "stale", NEW e \in s.todo,
             Quiet(p, [s EXCEPT !.pc = "unbind", !.cur = e[2], !.clean = FALSE, !.todo = @ \ {e}])
      PROVE  Goes(p)
  <2> DEFINE to == [s EXCEPT !.pc = "unbind", !.cur = e[2], !.clean = FALSE, !.todo = @ \ {e}]
  <2>1. e[2] \in SiChannels
    BY <1>0, <1>2 DEF Projects, Binding
  <2>2. to \in Places
    BY <1>0, <2>1, AllPoints DEF Places
  <2>3. Projects(to)
    BY <1>0, <1>2, <2>1 DEF Projects, Places, InLoop, AtSwitch
  <2> QED  BY <1>2, <2>2, <2>3, <1>0 DEF Fits, Goes
<1>3. ASSUME s.pc = "stale", NEW e \in s.made,
             Quiet(p, [s EXCEPT !.made = @ \ {e}, !.clean = FALSE])
      PROVE  Goes(p)
  <2> DEFINE to == [s EXCEPT !.made = @ \ {e}, !.clean = FALSE]
  <2>1. to \in Places
    BY <1>0 DEF Places
  <2>2. Projects(to)
    BY <1>0, <1>3 DEF Projects, Places, InLoop, AtSwitch
  <2> QED  BY <1>3, <2>1, <2>2, <1>0 DEF Fits, Goes
<1>4. CASE Quiet(p, Idle) \/ Wrote(p, Idle)
  BY <1>4, <1>0, IdleFits DEF Goes
<1> QED  BY <1>1, <1>2, <1>3, <1>4 DEF SiFail, RewriteSome

-----------------------------------------------------------------------------
(* Where the task goes *)

LEMMA TaskSwitches ==
  ASSUME SiTypeOK, NEW then, Fits(SiTask, then), then.cur \in SiChannels, NEW to \in BOOLEAN,
         IF to THEN then.pc = "clear" ELSE then.pc \in {"judge", "outage"}
  PROVE  Fits(SiTask, Switching(then.cur, to, then))
<1> DEFINE c == then.cur
<1>1. CASE siCache[c] = SiNone
  BY <1>1 DEF Switching
<1>2. CASE siCache[c] # SiNone
  <2> DEFINE sw == [c |-> c, to |-> to, copy |-> siCache[c], back |-> then.pc]
  <2>1. siCache[c] \in ChannelRows
    BY <1>2 DEF SiTypeOK
  <2>2. sw \in Switches
    BY <2>1 DEF Switches, Points
  <2>3. Switching(c, to, then) = [then EXCEPT !.pc = "switch", !.switch = sw]
    BY <1>2 DEF Switching, Switched
  <2>4. then \in Places /\ Retires(then)
    BY Constants DEF Fits
  <2>5. [then EXCEPT !.pc = "switch", !.switch = sw] \in Places
    BY <2>2, <2>4, AllPoints DEF Places
  <2>6. Retires([then EXCEPT !.pc = "switch", !.switch = sw])
    BY <2>1, <2>4 DEF Retires, Places, AtSwitch
  <2> QED  BY <2>3, <2>5, <2>6, Constants DEF Fits
<1> QED  BY <1>1, <1>2

TaskGoes ==
  \E to : Fits(SiTask, to) /\ Held(to, siRetired') /\ (Quiet(SiTask, to) \/ Wrote(SiTask, to))

LEMMA SwitchHolds ==
  ASSUME Shape, SiSwitch(SiTask)
  PROVE  TaskGoes
<1> DEFINE s == siProc[SiTask]
<1>0. s \in Places /\ Retires(s) /\ Held(s, siRetired)
  BY Constants DEF Shape, PlacesFit, Fits, RetiredHeld
<1>1. CASE SwitchRow(SiTask)
  <2> DEFINE to == [s EXCEPT !.pc = "cache"]
  <2>1. Wrote(SiTask, to) /\ s.pc = "switch" /\ siRetired' = siRetired
    BY <1>1 DEF SwitchRow
  <2>2. to \in Places
    BY <1>0, AllPoints DEF Places
  <2>3. Retires(to) /\ Held(to, siRetired)
    BY <1>0, <2>1 DEF Retires, Places, AtSwitch, Held, Probing
  <2> QED  BY <2>1, <2>2, <2>3, Constants DEF Fits, TaskGoes
<1>2. CASE SwitchCache(SiTask)
  <2> DEFINE to == [s EXCEPT !.pc = s.switch.back, !.switch = NoSwitch]
  <2>1. Wrote(SiTask, to) /\ s.pc = "cache" /\ siRetired' = siRetired
    BY <1>2 DEF SwitchCache
  <2>2. to \in Places
    BY <1>0, AllPoints DEF Places, Switches, NoSwitch
  <2>3. Retires(to) /\ Held(to, siRetired)
    BY <1>0, <2>1 DEF Retires, Places, AtSwitch, Held, Probing
  <2> QED  BY <2>1, <2>2, <2>3, Constants DEF Fits, TaskGoes
<1> QED  BY <1>1, <1>2 DEF SiSwitch

LEMMA RecoveryGoes ==
  ASSUME Shape,
         \/ OutlierStart \/ Gather \/ Mark \/ Enable \/ Clear
         \/ \E c \in siProc[SiTask].saw : Recover(c)
  PROVE  TaskGoes /\ siRetired' \in [SiChannels -> Nat \cup {SiNone}]
<1> DEFINE s == siProc[SiTask]
<1>0. /\ s \in Places /\ Retires(s) /\ Fits(SiTask, s) /\ Held(s, siRetired)
      /\ siRetired \in [SiChannels -> Nat \cup {SiNone}] /\ SiTypeOK
      /\ Fits(SiTask, Idle) /\ Idle \in Places /\ Retires(Idle)
  BY Constants, IdleFits DEF Shape, PlacesFit, Fits, RetiredHeld, SiTypeOK
<1>1. CASE OutlierStart
  <2> DEFINE to == [Idle EXCEPT !.pc = "recover", !.saw = RetiredChannels]
  <2>1. Quiet(SiTask, to) /\ siRetired' = siRetired
    BY <1>1 DEF OutlierStart, siChannelVars
  <2>2. RetiredChannels \subseteq SiChannels /\ \A c \in RetiredChannels : siRetired[c] \in Nat
    BY <1>0 DEF RetiredChannels
  <2>3. to \in Places
    BY <1>0, <2>2, AllPoints DEF Places
  <2>4. Retires(to) /\ Held(to, siRetired)
    BY <1>0, <2>2 DEF Retires, Places, AtSwitch, Held, Probing
  <2> QED  BY <1>0, <2>1, <2>3, <2>4, Constants DEF Fits, TaskGoes
<1>2. CASE Gather
  <2>1. PICK bad \in SUBSET {c \in Ends(Entries) : IsOn(c)} :
          Quiet(SiTask, [Idle EXCEPT !.pc = "judge", !.bound = Entries, !.todo = bad])
    BY <1>2 DEF Gather
  <2> DEFINE to == [Idle EXCEPT !.pc = "judge", !.bound = Entries, !.todo = bad]
  <2>2. siRetired' = siRetired
    BY <1>2 DEF Gather, siChannelVars
  <2>3. Entries \subseteq Binding /\ bad \subseteq SiChannels
    BY <1>0, EntriesAreBindings
  <2>4. to \in Places
    BY <1>0, <2>3, AllPoints DEF Places
  <2>5. Retires(to) /\ Held(to, siRetired)
    BY <1>0, <2>3 DEF Retires, Places, AtSwitch, Held, Probing, Idle
  <2> QED  BY <1>0, <2>1, <2>2, <2>4, <2>5, Constants DEF Fits, TaskGoes
<1>3. CASE Mark
  <2>0. PICK success \in BOOLEAN :
          /\ siRetired' = [siRetired EXCEPT ![s.cur] = IF success THEN @ + 1 ELSE 0]
          /\ Wrote(SiTask, TaskNow(IF success /\ siRetired[s.cur] + 1 >= SiRecovered
                                   THEN "enable" ELSE "recover"))
    BY <1>3 DEF Mark
  <2>1. PICK pc \in {"enable", "recover"} : Wrote(SiTask, TaskNow(pc))
    BY <2>0
  <2>2. s.pc = "mark"
    BY <1>3 DEF Mark, TaskAt
  <2>3. s.cur \in SiChannels /\ s.cur \notin s.saw /\ siRetired[s.cur] \in Nat /\ s.saw \subseteq SiChannels
    BY <1>0, <2>2 DEF Retires, Held, Probing
  <2>4. /\ siRetired' \in [SiChannels -> Nat \cup {SiNone}] /\ siRetired'[s.cur] \in Nat
        /\ \A c \in s.saw : siRetired'[c] = siRetired[c]
    BY <1>0, <2>0, <2>3
  <2>5. TaskNow(pc) \in Places
    BY <1>0, AllPoints DEF Places, TaskNow
  <2>6. Retires(TaskNow(pc)) /\ Held(TaskNow(pc), siRetired')
    BY <1>0, <2>3, <2>4 DEF Retires, Places, AtSwitch, Held, Probing, TaskNow
  <2> QED  BY <1>0, <2>1, <2>4, <2>5, <2>6, Constants DEF Fits, TaskGoes
<1>4. CASE Enable
  <2>1. s.pc = "enable" /\ siRetired' = siRetired
    BY <1>4 DEF Enable, TaskAt, siChannelVars
  <2>2. Quiet(SiTask, TaskNow("recover")) \/ Quiet(SiTask, Switching(s.cur, TRUE, TaskNow("clear")))
    BY <1>4 DEF Enable
  <2>3. s.cur \in SiChannels /\ s.cur \notin s.saw /\ siRetired[s.cur] \in Nat
    BY <1>0, <2>1 DEF Retires, Held, Probing
  <2>4. ASSUME NEW pc \in {"recover", "clear"}
        PROVE  /\ TaskNow(pc) \in Places /\ Fits(SiTask, TaskNow(pc)) /\ Held(TaskNow(pc), siRetired)
               /\ TaskNow(pc).pc = pc /\ TaskNow(pc).cur = s.cur /\ TaskNow(pc).saw = s.saw
    <3>1. TaskNow(pc) \in Places
      BY <1>0, <2>4, AllPoints DEF Places, TaskNow
    <3>2. Retires(TaskNow(pc)) /\ Held(TaskNow(pc), siRetired)
      BY <1>0, <2>3, <2>4 DEF Retires, Places, AtSwitch, Held, Probing, TaskNow
    <3> QED  BY <1>0, <3>1, <3>2, Constants DEF Fits, TaskNow, Places
  <2> DEFINE then == TaskNow("clear")
  <2>5. Fits(SiTask, Switching(s.cur, TRUE, then))
    BY <1>0, <2>3, <2>4, TaskSwitches
  <2>6. Held(Switching(s.cur, TRUE, then), siRetired)
    BY <2>3, <2>4 DEF Switching, Held, Probing, Places, AtSwitch
  <2> QED  BY <2>1, <2>2, <2>4, <2>5, <2>6, <1>0 DEF TaskGoes
<1>5. CASE Clear
  <2>1. s.pc = "clear" /\ siRetired' = [siRetired EXCEPT ![s.cur] = SiNone] /\ Wrote(SiTask, TaskNow("recover"))
    BY <1>5 DEF Clear, TaskAt
  <2>2. s.cur \in SiChannels /\ s.cur \notin s.saw /\ s.saw \subseteq SiChannels
    BY <1>0, <2>1 DEF Retires, Held, Probing
  <2>3. /\ siRetired' \in [SiChannels -> Nat \cup {SiNone}]
        /\ \A c \in s.saw : siRetired'[c] = siRetired[c]
    BY <1>0, <2>1, <2>2
  <2>4. TaskNow("recover") \in Places
    BY <1>0, AllPoints DEF Places, TaskNow
  <2>5. Retires(TaskNow("recover")) /\ Held(TaskNow("recover"), siRetired')
    BY <1>0, <2>2, <2>3 DEF Retires, Places, AtSwitch, Held, Probing, TaskNow
  <2> QED  BY <1>0, <2>1, <2>3, <2>4, <2>5, Constants DEF Fits, TaskGoes
<1>6. ASSUME NEW c \in s.saw, Recover(c)
      PROVE  TaskGoes /\ siRetired' \in [SiChannels -> Nat \cup {SiNone}]
  <2> DEFINE rest == [TaskNow("recover") EXCEPT !.saw = @ \ {c}]
             probe == [rest EXCEPT !.pc = "mark", !.cur = c]
  <2>1. \/ siRetired' = [siRetired EXCEPT ![c] = SiNone] /\ Wrote(SiTask, rest)
        \/ siRetired' = siRetired /\ (Quiet(SiTask, rest) \/ Quiet(SiTask, probe))
    BY <1>6 DEF Recover
  <2>2. c \in SiChannels /\ siRetired[c] \in Nat /\ s.saw \subseteq SiChannels
    BY <1>0 DEF Retires, Held
  <2>3. rest \in Places /\ rest.pc = "recover" /\ rest.saw = s.saw \ {c}
    BY <1>0, AllPoints DEF Places, TaskNow
  <2>4. probe \in Places /\ probe.pc = "mark" /\ probe.saw = s.saw \ {c} /\ probe.cur = c
    BY <2>2, <2>3, AllPoints DEF Places
  <2>5. Retires(rest) /\ Retires(probe)
    BY <1>0, <2>2, <2>3, <2>4 DEF Retires, Places, AtSwitch, TaskNow
  <2>6. siRetired' \in [SiChannels -> Nat \cup {SiNone}] /\ Held(rest, siRetired')
    BY <1>0, <2>1, <2>2, <2>3 DEF Held, Probing, AtSwitch
  <2>7. Held(probe, siRetired)
    BY <1>0, <2>2, <2>4 DEF Held, Probing, AtSwitch
  <2>8. Fits(SiTask, rest) /\ Fits(SiTask, probe)
    BY <2>3, <2>4, <2>5, Constants DEF Fits
  <2> HIDE DEF rest, probe
  <2> QED  BY <2>1, <2>6, <2>7, <2>8 DEF TaskGoes
<1> QED  BY <1>1, <1>2, <1>3, <1>4, <1>5, <1>6

LEMMA JudgeGoes ==
  ASSUME Shape,
         \/ \E c \in siProc[SiTask].todo : Judge(c)
         \/ Judged \/ Retire \/ Disable
         \/ \E c \in siProc[SiTask].want : TakeOff(c)
         \/ OutlierFail
  PROVE  TaskGoes /\ siRetired' \in [SiChannels -> Nat \cup {SiNone}]
<1> DEFINE s == siProc[SiTask]
<1>0. /\ s \in Places /\ Retires(s) /\ Held(s, siRetired)
      /\ siRetired \in [SiChannels -> Nat \cup {SiNone}] /\ SiTypeOK
      /\ Fits(SiTask, Idle)
  BY Constants, IdleFits DEF Shape, PlacesFit, Fits, RetiredHeld, SiTypeOK
<1>a. Held(Idle, siRetired)
  BY DEF Held, Idle, Probing, AtSwitch
<1>1. ASSUME NEW c \in s.todo, Judge(c)
      PROVE  TaskGoes /\ siRetired' \in [SiChannels -> Nat \cup {SiNone}]
  <2> DEFINE rest == [TaskNow("judge") EXCEPT !.todo = @ \ {c}]
             outage == [rest EXCEPT !.made = s.bound]
             off == [outage EXCEPT !.pc = "outage", !.want = Siblings]
             retire == [rest EXCEPT !.pc = "retire", !.cur = c, !.clean = TRUE]
  <2>1. /\ siRetired' = siRetired
        /\ Quiet(SiTask, rest) \/ Quiet(SiTask, outage) \/ Quiet(SiTask, off) \/ Quiet(SiTask, retire)
    BY <1>1 DEF Judge, siChannelVars
  <2>2. Siblings \subseteq SiChannels /\ c \in SiChannels
    BY <1>0, EndsAreChannels DEF Siblings, Places, Retires
  <2>3. rest \in Places /\ rest.pc = "judge" /\ Retires(rest) /\ Held(rest, siRetired)
    BY <1>0, AllPoints DEF Places, TaskNow, Retires, AtSwitch, Held, Probing
  <2>4. outage \in Places /\ outage.pc = "judge" /\ Retires(outage) /\ Held(outage, siRetired)
    BY <1>0, <2>3 DEF Places, Retires, AtSwitch, Held, Probing
  <2> HIDE DEF rest
  <2>5. off \in Places /\ Retires(off) /\ Held(off, siRetired)
    BY <2>2, <2>4, AllPoints DEF Places, Retires, AtSwitch, Held, Probing
  <2>6. retire \in Places /\ Retires(retire) /\ Held(retire, siRetired)
    BY <2>2, <2>3, AllPoints DEF Places, Retires, AtSwitch, Held, Probing
  <2>7. Fits(SiTask, rest) /\ Fits(SiTask, outage) /\ Fits(SiTask, off) /\ Fits(SiTask, retire)
    BY <2>3, <2>4, <2>5, <2>6, Constants DEF Fits
  <2> HIDE DEF outage, off, retire
  <2> QED  BY <1>0, <2>1, <2>3, <2>4, <2>5, <2>6, <2>7 DEF TaskGoes
<1>2. CASE Judged
  BY <1>0, <1>a, <1>2 DEF Judged, TaskGoes, siChannelVars
<1>3. ASSUME NEW c \in SiChannels, NEW to, Fits(SiTask, to), to.saw = s.saw, Retired(c, to)
      PROVE  TaskGoes /\ siRetired' \in [SiChannels -> Nat \cup {SiNone}]
  <2> DEFINE then == [to EXCEPT !.pc = "disable", !.cur = c]
  <2>1. Wrote(SiTask, then) /\ siRetired' = [siRetired EXCEPT ![c] = 0]
    BY <1>3 DEF Retired
  <2>2. siRetired' \in [SiChannels -> Nat \cup {SiNone}] /\ \A d \in s.saw : siRetired'[d] \in Nat
    BY <1>0, <2>1 DEF Held, Retires
  <2>3. to \in Places /\ Retires(to)
    BY <1>3, Constants DEF Fits
  <2>4. then \in Places /\ Retires(then) /\ Held(then, siRetired')
    BY <1>3, <2>2, <2>3, AllPoints DEF Places, Retires, AtSwitch, Held, Probing
  <2>5. Fits(SiTask, then)
    BY <2>4, Constants DEF Fits
  <2> QED  BY <2>1, <2>2, <2>4, <2>5 DEF TaskGoes
<1>4. CASE Retire
  <2>1. s.pc = "retire" /\ Retired(s.cur, s)
    BY <1>4 DEF Retire, TaskAt
  <2>2. s.cur \in SiChannels /\ Fits(SiTask, s)
    BY <1>0, <2>1, Constants DEF Retires, Fits
  <2> QED  BY <1>3, <2>1, <2>2
<1>b. ASSUME NEW pc \in {"recover", "judge", "outage"}
      PROVE  TaskNow(pc) \in Places /\ Retires(TaskNow(pc)) /\ Held(TaskNow(pc), siRetired)
             /\ TaskNow(pc).pc = pc /\ TaskNow(pc).cur = s.cur /\ Fits(SiTask, TaskNow(pc))
  <2>1. TaskNow(pc) \in Places /\ TaskNow(pc).pc = pc /\ TaskNow(pc).cur = s.cur
    BY <1>0, <1>b, AllPoints DEF Places, TaskNow
  <2>2. Retires(TaskNow(pc)) /\ Held(TaskNow(pc), siRetired)
    BY <1>0, <1>b DEF Retires, Places, AtSwitch, Held, Probing, TaskNow
  <2> QED  BY <2>1, <2>2, Constants DEF Fits
<1>c. \E pc \in {"judge", "outage"} : AfterDisable = TaskNow(pc)
  BY DEF AfterDisable
<1>5. CASE Disable
  <2>1. PICK pc \in {"judge", "outage"} : AfterDisable = TaskNow(pc)
    BY <1>c
  <2>2. s.pc = "disable" /\ siRetired' = siRetired /\ Quiet(SiTask, Switching(s.cur, FALSE, TaskNow(pc)))
    BY <1>5, <2>1 DEF Disable, TaskAt, siChannelVars
  <2>3. s.cur \in SiChannels
    BY <1>0, <2>2 DEF Retires
  <2> DEFINE then == TaskNow(pc)
  <2>4. then \in Places /\ then.pc = pc /\ then.cur = s.cur /\ Fits(SiTask, then) /\ Held(then, siRetired)
    BY <1>b
  <2> HIDE DEF then
  <2>5. Fits(SiTask, Switching(s.cur, FALSE, then))
    BY <1>0, <2>3, <2>4, TaskSwitches
  <2>6. Held(Switching(s.cur, FALSE, then), siRetired)
    BY <2>3, <2>4 DEF Switching, Switched, Held, Probing, Places, AtSwitch
  <2> QED  BY <2>2, <2>5, <2>6, <1>0 DEF TaskGoes, then
<1>6. ASSUME NEW c \in s.want, TakeOff(c)
      PROVE  TaskGoes /\ siRetired' \in [SiChannels -> Nat \cup {SiNone}]
  <2> DEFINE rest == [s EXCEPT !.want = @ \ {c}]
             next == [rest EXCEPT !.pc = IF rest.want = {} THEN "judge" ELSE "outage"]
  <2>1. \/ Retired(c, rest)
        \/ Quiet(SiTask, next) /\ siRetired' = siRetired
    BY <1>6 DEF TakeOff
  <2>2. s.pc = "outage" /\ c \in SiChannels
    BY <1>0, <1>6 DEF TakeOff, TaskAt, Retires
  <2>3. rest \in Places /\ Retires(rest) /\ rest.saw = s.saw /\ rest.pc = "outage"
    BY <1>0, <2>2 DEF Places, Retires, AtSwitch
  <2>4. Fits(SiTask, rest)
    BY <2>3, Constants DEF Fits
  <2> HIDE DEF rest
  <2>5. next \in Places /\ Retires(next) /\ Held(next, siRetired)
    BY <1>0, <2>3, AllPoints DEF Places, Retires, AtSwitch, Held, Probing
  <2>6. Fits(SiTask, next)
    BY <2>5, Constants DEF Fits
  <2> HIDE DEF next
  <2> QED  BY <1>0, <1>3, <2>1, <2>2, <2>3, <2>4, <2>5, <2>6 DEF TaskGoes
<1>7. CASE OutlierFail
  <2>1. siRetired' = siRetired
    BY <1>7 DEF OutlierFail, siChannelVars
  <2>2. CASE Quiet(SiTask, Idle)
    BY <1>0, <1>a, <2>1, <2>2 DEF TaskGoes
  <2>3. CASE Quiet(SiTask, [TaskNow("recover") EXCEPT !.saw = {}])
    <3> DEFINE to == [TaskNow("recover") EXCEPT !.saw = {}]
    <3>1. to \in Places /\ Retires(to) /\ Held(to, siRetired)
      BY <1>b DEF Places, Retires, AtSwitch, Held, Probing
    <3>2. Fits(SiTask, to)
      BY <3>1, Constants DEF Fits
    <3> QED  BY <1>0, <2>1, <2>3, <3>1, <3>2 DEF TaskGoes
  <2>4. CASE Quiet(SiTask, TaskNow("recover")) \/ Quiet(SiTask, AfterDisable)
    BY <1>0, <1>b, <1>c, <2>1, <2>4 DEF TaskGoes
  <2>5. CASE s.pc = "switch" /\
             Quiet(SiTask, [TaskNow(IF s.switch.to THEN "recover" ELSE s.switch.back)
                              EXCEPT !.switch = NoSwitch])
    <3>1. PICK pc \in {"recover", "judge", "outage"} :
            Quiet(SiTask, [TaskNow(pc) EXCEPT !.switch = NoSwitch])
      BY <1>0, <2>5 DEF Retires, AtSwitch
    <3> DEFINE then == TaskNow(pc)
               to == [then EXCEPT !.switch = NoSwitch]
    <3>2. then \in Places /\ then.pc = pc /\ Retires(then) /\ Held(then, siRetired)
      BY <1>b
    <3>3. NoSwitch \in Switches
      BY AllPoints DEF NoSwitch, Switches
    <3> HIDE DEF then
    <3>4. to \in Places /\ Retires(to) /\ Held(to, siRetired)
      BY <3>2, <3>3 DEF Places, Retires, AtSwitch, Held, Probing
    <3>5. Fits(SiTask, to)
      BY <3>4, Constants DEF Fits
    <3> QED  BY <1>0, <2>1, <3>1, <3>4, <3>5 DEF TaskGoes, then
  <2> QED  BY <1>7, <2>2, <2>3, <2>4, <2>5 DEF OutlierFail, TaskAt
<1> QED  BY <1>1, <1>2, <1>4, <1>5, <1>6, <1>7

-----------------------------------------------------------------------------
(* The rows keep their types *)

RowTypes ==
  /\ siAuto \in BOOLEAN /\ siOn \in BOOLEAN
  /\ siGroups \in [SiGroups -> [paused : BOOLEAN, disabled : BOOLEAN] \cup {SiNone}]
  /\ siTokens \subseteq TokenRows /\ siModels \in [ModelKeys -> ModelRows \cup {SiNone}]
ChannelTypes ==
  /\ siDb \in [SiChannels -> ChannelRows \cup {SiNone}]
  /\ siCache \in [SiChannels -> ChannelRows \cup {SiNone}]
  /\ siBindings \in [SiChannels -> Names \cup {SiNone}]
  /\ siItems \subseteq SiModels \X SiChannels
LeftTypes == siLeft \in [steps : Nat, overlap : Nat, rounds : Nat, faults : Nat]

LEMMA TypesAre ==
  SiTypeOK <=> /\ RowTypes /\ ChannelTypes /\ LeftTypes /\ siFresh \in BOOLEAN
               /\ siRetired \in [SiChannels -> Nat \cup {SiNone}]
BY DEF SiTypeOK, RowTypes, ChannelTypes, LeftTypes

LEMMA SpentTypes ==
  ASSUME LeftTypes, NEW n \in Nat, Spend(n) \/ Break
  PROVE  LeftTypes'
<1> DEFINE l == siLeft
<1>0. l.steps \in Nat /\ l.rounds \in Nat /\ l.faults \in Nat
  BY DEF LeftTypes
<1>1. CASE Spend(n)
  <2>1. l.steps - 1 \in Nat /\ l.rounds - n \in Nat
    BY <1>0, <1>1 DEF Spend
  <2>2. siLeft' = [siLeft EXCEPT !.steps = l.steps - 1, !.rounds = l.rounds - n]
    BY <1>1 DEF Spend
  <2> QED  BY <2>1, <2>2 DEF LeftTypes
<1>2. CASE Break
  <2>1. l.faults - 1 \in Nat
    BY <1>0, <1>2 DEF Break
  <2> QED  BY <1>2, <2>1 DEF LeftTypes, Break
<1> QED  BY <1>1, <1>2

LEMMA GoesFresh ==
  ASSUME siFresh \in BOOLEAN, NEW p, NEW to, Quiet(p, to) \/ Wrote(p, to)
  PROVE  siFresh' \in BOOLEAN
BY DEF Quiet, Wrote

LEMMA PersistTypes ==
  ASSUME Shape, NEW p \in SiProcs, Persist(p)
  PROVE  RowTypes'
<1> DEFINE a == siProc[p].answer
<1>0. RowTypes /\ a \in PanelSays
  BY Constants DEF Persist, Shape, PlacesFit, Fits, Projects, SiTypeOK, RowTypes
<1>1. siGroups' \in [SiGroups -> [paused : BOOLEAN, disabled : BOOLEAN] \cup {SiNone}]
  <2>1. \A g \in SiGroups : GroupAfter(a, g) \in [paused : BOOLEAN, disabled : BOOLEAN] \cup {SiNone}
    <3> TAKE g \in SiGroups
    <3>1. (Result(a, g) \in {"empty", "missing_key"}) \in BOOLEAN
      OBVIOUS
    <3>2. (siGroups[g] # SiNone /\ siGroups[g].disabled) \in BOOLEAN
      OBVIOUS
    <3> QED  BY <3>1, <3>2 DEF GroupAfter
  <2> QED  BY <2>1 DEF Persist
<1>2. siTokens' \subseteq TokenRows
  <2>1. \A g \in TokenGroups(a) : Merged(a, g) \in TokenRows
    <3> TAKE g \in TokenGroups(a)
    <3> DEFINE full == a.tokens[g] = "full" \/ \E t \in Met(a, g) : t.full
               on == full /\ \A t \in Met(a, g) : t.on
    <3>1. full \in BOOLEAN /\ on \in BOOLEAN /\ g \in SiGroups
      BY DEF TokenGroups
    <3>2. Merged(a, g) = Token(g, "panel", full, FALSE, on)
      BY DEF Merged
    <3> HIDE DEF full, on
    <3> QED  BY <3>1, <3>2 DEF TokenRows, Token
  <2> QED  BY <1>0, <2>1 DEF Persist, TokensAfter, RowTypes
<1>3. siModels' \in [ModelKeys -> ModelRows \cup {SiNone}]
  <2>1. \A gm \in ModelKeys : ModelSynced(a, gm) \in ModelRows
    <3> TAKE gm \in ModelKeys
    <3>1. gm[2] \in SiModels /\ SiRouteOf[gm[2]] \in SiRoutes /\ a.enable[gm[2]] \in SUBSET SiGroups
      BY <1>0, Constants DEF ModelKeys, PanelSays
    <3>2. siModels[gm] \in ModelRows \cup {SiNone}
      BY <1>0 DEF RowTypes
    <3> QED  BY <3>1, <3>2 DEF ModelSynced, ModelRows
  <2>2. \A gm \in ModelKeys : ModelAfter(a, siProc[p].saw, gm) \in ModelRows \cup {SiNone}
    BY <1>0, <2>1 DEF ModelAfter, RowTypes
  <2> QED  BY <2>2 DEF Persist
<1> QED  BY <1>0, <1>1, <1>2, <1>3 DEF Persist, RowTypes

LEMMA SyncTypes ==
  ASSUME Shape, NEW p \in SiProcs, SiSync(p)
  PROVE  SiTypeOK'
<1>0. RowTypes /\ ChannelTypes /\ LeftTypes /\ siFresh \in BOOLEAN
      /\ siRetired \in [SiChannels -> Nat \cup {SiNone}]
  BY TypesAre DEF Shape
<1>1. siFresh' \in BOOLEAN
  BY <1>0, SyncGoes, GoesFresh DEF Goes
<1>2. ChannelTypes' /\ siRetired' \in [SiChannels -> Nat \cup {SiNone}]
  BY <1>0 DEF SiSync, SyncStart, Persist, MarkStale, ChannelTypes, siChannelVars
<1>3. LeftTypes'
  BY <1>0, SpentTypes DEF SiSync, SyncStart, Persist, MarkStale, LeftTypes
<1>4. RowTypes'
  <2>1. CASE SyncStart(p)
    BY <1>0, <2>1 DEF SyncStart, RowTypes, siRows
  <2>2. CASE MarkStale(p)
    BY <1>0, <2>2 DEF MarkStale, RowTypes
  <2> QED  BY <2>1, <2>2, PersistTypes DEF SiSync
<1> QED  BY <1>1, <1>2, <1>3, <1>4 DEF SiTypeOK, RowTypes, ChannelTypes, LeftTypes

LEMMA SwitchTypes ==
  ASSUME Shape, NEW p \in Goroutines, SiSwitch(p)
  PROVE  RowTypes' /\ ChannelTypes' /\ LeftTypes' /\ siRetired' = siRetired
<1> DEFINE s == siProc[p]
<1>0. RowTypes /\ ChannelTypes /\ LeftTypes
  BY TypesAre DEF Shape
<1>1. s.pc \in {"switch", "cache"} =>
        s.switch.c \in SiChannels /\ s.switch.copy \in ChannelRows /\ s.switch.to \in BOOLEAN
  BY DEF Shape, PlacesFit, Fits, Projects, Retires, Places, Switches, AtSwitch, Goroutines
<1>2. CASE SwitchRow(p)
  <2>1. siDb' \in [SiChannels -> ChannelRows \cup {SiNone}]
    <3>1. ASSUME siDb[s.switch.c] # SiNone
          PROVE  [siDb[s.switch.c] EXCEPT !.on = s.switch.to] \in ChannelRows
      BY <1>0, <1>1, <1>2, <3>1 DEF SwitchRow, ChannelRows, ChannelTypes
    <3>2. siDb' = siDb \/ (siDb[s.switch.c] # SiNone /\
                           siDb' = [siDb EXCEPT ![s.switch.c] = [siDb[s.switch.c] EXCEPT !.on = s.switch.to]])
      BY <1>0, <1>1, <1>2 DEF SwitchRow, ChannelTypes
    <3> QED  BY <1>0, <3>1, <3>2 DEF ChannelTypes
  <2> QED  BY <1>0, <1>2, <2>1 DEF SwitchRow, RowTypes, ChannelTypes, LeftTypes, siRows
<1>3. CASE SwitchCache(p)
  <2>1. [s.switch.copy EXCEPT !.on = s.switch.to] \in ChannelRows
    BY <1>1, <1>3 DEF SwitchCache, ChannelRows
  <2>2. siCache' \in [SiChannels -> ChannelRows \cup {SiNone}]
    BY <1>0, <1>3, <2>1 DEF SwitchCache, ChannelTypes
  <2> QED  BY <1>0, <1>3, <2>2 DEF SwitchCache, RowTypes, ChannelTypes, LeftTypes, siRows
<1> QED  BY <1>2, <1>3 DEF SiSwitch

\* The items that move to the channels of their models are of channels.
LEMMA MovedItems ==
  ASSUME Shape, NEW p \in SiProcs, NEW i \in siItems
  PROVE  At(p, i) \subseteq SiModels \X SiChannels
<1>1. siProc[p].made \in SUBSET Binding
  BY Constants DEF Shape, PlacesFit, Fits, Places
<1>2. Targets(p, i) \subseteq SiChannels
  BY <1>1, EndsAreChannels DEF Targets
<1>3. i[1] \in SiModels
  BY DEF Shape, SiTypeOK
<1> QED  BY <1>2, <1>3 DEF At

LEMMA RewriteSomeTypes ==
  ASSUME Shape, NEW p \in SiProcs, RewriteSome(p)
  PROVE  ChannelTypes' /\ siRetired' = siRetired
<1>1. PICK some \in SUBSET {i \in Moved(p) : At(p, i) \cap siItems = {}} :
        siItems' = (siItems \ some) \cup UNION {At(p, i) : i \in some}
  BY DEF RewriteSome
<1>2. Moved(p) \subseteq siItems
  BY DEF Moved, ManagedItems
<1>3. siItems' \subseteq SiModels \X SiChannels
  BY <1>1, <1>2, MovedItems DEF Shape, SiTypeOK
<1> QED  BY <1>3, TypesAre DEF RewriteSome, ChannelTypes, Shape

LEMMA ProjectTypes ==
  ASSUME Shape, NEW p \in SiProcs, SiProject(p)
  PROVE  RowTypes' /\ ChannelTypes' /\ LeftTypes' /\ siRetired' = siRetired
<1> DEFINE s == siProc[p]
<1>0. RowTypes /\ ChannelTypes /\ LeftTypes
  BY TypesAre DEF Shape
<1>a. s \in Places /\ Projects(s)
  BY Constants DEF Shape, PlacesFit, Fits
<1>1. CASE ProjectStart(p)
  BY <1>0, <1>1, SpentTypes DEF ProjectStart, RowTypes, ChannelTypes, siRows, siChannelVars
<1>2. CASE Load(p) \/ List(p) \/ Off(p) \/ KeepRetired(p) \/ Projected(p)
  BY <1>0, <1>2 DEF Load, List, Off, KeepRetired, Projected, RowTypes, ChannelTypes, LeftTypes,
                    siRows, siChannelVars
<1>3. CASE Bucketed(p)
  <2>1. PICK w \in s.todo :
          \/ siCache' = siCache /\ \E c \in Bound(s.bound, w.name) :
               siBindings' \in {siBindings, [siBindings EXCEPT ![c] = SiNone]}
          \/ siCache' = Unnamed(w.name) /\ siBindings' = siBindings
          \/ \E c \in {c \in SiChannels : siDb[c] # SiNone /\ siDb[c].name = w.name} :
               /\ siCache' = [siCache EXCEPT ![c] = siDb[c]]
               /\ siBindings' \in {siBindings, [siBindings EXCEPT ![c] = w.name]}
    BY <1>3 DEF Bucketed
  <2>2. w.name \in Names
    BY <1>a, <1>3 DEF Bucketed, Projects, InLoop, ChannelRows
  <2>3. Unnamed(w.name) \in [SiChannels -> ChannelRows \cup {SiNone}]
    BY <1>0 DEF Unnamed, ChannelTypes
  <2>4. siCache' \in [SiChannels -> ChannelRows \cup {SiNone}]
    BY <1>0, <2>1, <2>3 DEF ChannelTypes
  <2>5. siBindings' \in [SiChannels -> Names \cup {SiNone}]
    BY <1>0, <2>1, <2>2 DEF ChannelTypes
  <2> QED  BY <1>0, <1>3, <2>4, <2>5 DEF Bucketed, RowTypes, ChannelTypes, LeftTypes, siRows
<1>4. CASE Update(p)
  <2> DEFINE w == s.cur.row
             c == s.cur.c
             keys == KeysAfter(siDb[c].keys, siCache[c].keys, w.keys)
             new == [w EXCEPT !.keys = keys]
  <2>1. w \in ChannelRows /\ c \in SiChannels
    BY <1>a, <1>4 DEF Update, Projects, Buckets
  <2>2. ASSUME siDb[c] # SiNone
        PROVE  new \in ChannelRows
    <3> DEFINE K == {"panel", "own"} \X BOOLEAN
               old == siDb[c].keys
               want == w.keys
    <3>1. old \in SUBSET K /\ want \in SUBSET K
      BY <1>0, <2>1, <2>2 DEF ChannelTypes, ChannelRows
    <3> HIDE DEF K, old, want
    <3>2. KeysAfter(old, siCache[c].keys, want) \in SUBSET K
      BY <3>1, KeysStayKeys
    <3>3. keys \in SUBSET K
      BY <3>2 DEF old, want
    <3> HIDE DEF keys
    <3> QED  BY <2>1, <3>3 DEF ChannelRows, K
  <2>3. \/ siDb' = siDb /\ siCache' = siCache
        \/ siDb[c] # SiNone /\ siDb' = [siDb EXCEPT ![c] = new] /\ siCache' = [siCache EXCEPT ![c] = siDb'[c]]
    BY <1>4 DEF Update
  <2> HIDE DEF new
  <2>4. siDb' \in [SiChannels -> ChannelRows \cup {SiNone}] /\ siCache' \in [SiChannels -> ChannelRows \cup {SiNone}]
    BY <1>0, <2>1, <2>2, <2>3 DEF ChannelTypes
  <2> QED  BY <1>0, <1>4, <2>4 DEF Update, RowTypes, ChannelTypes, LeftTypes, siRows
<1>5. CASE Create(p)
  <2>1. s.cur.row \in ChannelRows
    BY <1>a, <1>5 DEF Create, Projects, Buckets
  <2>2. siDb' \in [SiChannels -> ChannelRows \cup {SiNone}] /\ siCache' \in [SiChannels -> ChannelRows \cup {SiNone}]
    BY <1>0, <1>5, <2>1 DEF Create, ChannelTypes
  <2> QED  BY <1>0, <1>5, <2>2 DEF Create, RowTypes, ChannelTypes, LeftTypes, siRows
<1>6. CASE Bind(p)
  <2>1. s.cur.row.name \in Names
    BY <1>a, <1>6 DEF Bind, Projects, Buckets, ChannelRows
  <2>2. siBindings' \in [SiChannels -> Names \cup {SiNone}]
    BY <1>0, <1>6, <2>1 DEF Bind, ChannelTypes
  <2> QED  BY <1>0, <1>6, <2>2 DEF Bind, RowTypes, ChannelTypes, LeftTypes, siRows
<1>7. CASE Join(p)
  <2>1. s.cur.row.models \subseteq SiModels /\ s.cur.c \in SiChannels
    BY <1>a, <1>7 DEF Join, Projects, Buckets, ChannelRows
  <2>2. siItems' \subseteq SiModels \X SiChannels
    BY <1>0, <1>7, <2>1 DEF Join, ChannelTypes
  <2> QED  BY <1>0, <1>7, <2>2 DEF Join, RowTypes, ChannelTypes, LeftTypes, siRows
<1>8. CASE Rewrite(p)
  <2>1. CASE RewriteSome(p)
    BY <1>0, <1>8, <2>1, RewriteSomeTypes DEF Rewrite, RowTypes, LeftTypes, siRows
  <2>2. CASE ~RewriteSome(p)
    <3>1. siItems' = (siItems \ (Gone(p) \cup Moved(p))) \cup UNION {At(p, i) : i \in Moved(p)}
      BY <1>8, <2>2 DEF Rewrite
    <3>2. siItems' \subseteq SiModels \X SiChannels
      BY <1>0, <3>1, MovedItems DEF Moved, ManagedItems, ChannelTypes
    <3> QED  BY <1>0, <1>8, <2>2, <3>2 DEF Rewrite, RowTypes, ChannelTypes, LeftTypes, siRows
  <2> QED  BY <2>1, <2>2
<1>9. CASE Stale(p)
  <2>1. /\ siDb' \in [SiChannels -> ChannelRows \cup {SiNone}]
        /\ siCache' \in [SiChannels -> ChannelRows \cup {SiNone}] /\ siItems' \subseteq siItems
    BY <1>0, <1>9 DEF Stale, ChannelTypes
  <2> QED  BY <1>0, <1>9, <2>1 DEF Stale, RowTypes, ChannelTypes, LeftTypes, siRows
<1>10. CASE Unbind(p)
  <2>1. siBindings' \in [SiChannels -> Names \cup {SiNone}]
    BY <1>0, <1>10 DEF Unbind, ChannelTypes
  <2> QED  BY <1>0, <1>10, <2>1 DEF Unbind, RowTypes, ChannelTypes, LeftTypes, siRows
<1> QED  BY <1>1, <1>2, <1>3, <1>4, <1>5, <1>6, <1>7, <1>8, <1>9, <1>10 DEF SiProject

LEMMA FailTypes ==
  ASSUME Shape, NEW p \in SiProcs, SiFail(p)
  PROVE  RowTypes' /\ ChannelTypes' /\ LeftTypes' /\ siRetired' = siRetired
<1>0. RowTypes /\ ChannelTypes /\ LeftTypes
  BY TypesAre DEF Shape
<1>1. LeftTypes' /\ RowTypes'
  <2>1. Break /\ UNCHANGED siRows
    BY DEF SiFail
  <2> QED  BY <1>0, <2>1, SpentTypes DEF RowTypes, siRows
<1>2. CASE UNCHANGED siChannelVars
  BY <1>0, <1>1, <1>2 DEF ChannelTypes, siChannelVars
<1>3. CASE RewriteSome(p)
  BY <1>1, <1>3, RewriteSomeTypes
<1> QED  BY <1>2, <1>3 DEF SiFail

LEMMA RestartTypes ==
  ASSUME Shape, SiRestart
  PROVE  RowTypes' /\ ChannelTypes' /\ LeftTypes' /\ siRetired' = siRetired
<1>0. RowTypes /\ ChannelTypes /\ LeftTypes
  BY TypesAre DEF Shape
<1> QED  BY <1>0, SpentTypes DEF SiRestart, RowTypes, ChannelTypes, siRows

LEMMA RestoredTypes ==
  ASSUME RowTypes, NEW g \in SiGroups
  PROVE  Restored(g) \in [SiGroups -> [paused : BOOLEAN, disabled : BOOLEAN] \cup {SiNone}]
<1>1. ASSUME siGroups[g] # SiNone
      PROVE  [siGroups[g] EXCEPT !.paused = FALSE] \in [paused : BOOLEAN, disabled : BOOLEAN]
  BY <1>1 DEF RowTypes
<1>2. Restored(g) = siGroups \/ (siGroups[g] # SiNone /\
        Restored(g) = [siGroups EXCEPT ![g] = [siGroups[g] EXCEPT !.paused = FALSE]])
  BY DEF Restored, RowTypes
<1> QED  BY <1>1, <1>2 DEF RowTypes

LEMMA KeyEditTypes ==
  ASSUME RowTypes, NEW g \in SiGroups, NEW tokens, tokens \subseteq TokenRows, SetKeys(g, tokens)
  PROVE  RowTypes'
BY RestoredTypes DEF SetKeys, RowTypes

LEMMA EditTypes ==
  ASSUME Shape, SiEdit
  PROVE  RowTypes' /\ ChannelTypes' /\ LeftTypes' /\ siRetired' = siRetired
<1>0. RowTypes /\ ChannelTypes /\ LeftTypes /\ SiEdited \subseteq SiGroups
  BY TypesAre, SiteAssumption DEF Shape, SiteAssumption
<1>1. ASSUME Edit
      PROVE  ChannelTypes' /\ LeftTypes' /\ siRetired' = siRetired
  BY <1>0, <1>1, SpentTypes DEF Edit, ChannelTypes, siChannelVars
<1>2. CASE SwitchAccount
  BY <1>0, <1>1, <1>2 DEF SwitchAccount, RowTypes
<1>3. CASE ResetRoutes
  <2>1. ASSUME NEW gm \in ModelKeys, siModels[gm] # SiNone
        PROVE  [siModels[gm] EXCEPT !.route = SiRouteOf[gm[2]], !.how = "synced"] \in ModelRows
    BY <1>0, <2>1, Constants DEF RowTypes, ModelRows, ModelKeys
  <2>2. siModels' \in [ModelKeys -> ModelRows \cup {SiNone}]
    BY <1>0, <1>3, <2>1 DEF ResetRoutes, RowTypes
  <2> QED  BY <1>0, <1>1, <1>3, <2>2 DEF ResetRoutes, RowTypes
<1>4. ASSUME NEW g \in SiEdited, AddKey(g)
      PROVE  RowTypes' /\ Edit
  <2>1. siTokens \cup {Token(g, "own", TRUE, TRUE, TRUE)} \subseteq TokenRows
    <3>1. Token(g, "own", TRUE, TRUE, TRUE) \in TokenRows
      BY <1>0 DEF Token, TokenRows
    <3> QED  BY <1>0, <3>1 DEF RowTypes
  <2> QED  BY <1>0, <1>4, <2>1, KeyEditTypes DEF AddKey, SetKeys
<1>5. ASSUME NEW g \in SiEdited, NEW to \in BOOLEAN, SetProjectionDisabled(g, to)
      PROVE  RowTypes' /\ Edit
  <2>1. \E row \in [paused : BOOLEAN, disabled : BOOLEAN] \cup {SiNone} :
          siGroups' = [siGroups EXCEPT ![g] = row]
    <3>1. CASE siGroups[g] # SiNone
      BY <1>0, <1>5, <3>1 DEF SetProjectionDisabled, RowTypes
    <3>2. CASE siGroups[g] = SiNone /\ to
      BY <1>0, <1>5, <3>2 DEF SetProjectionDisabled, RowTypes
    <3>3. CASE siGroups[g] = SiNone /\ ~to
      BY <1>0, <1>5, <3>3 DEF SetProjectionDisabled, RowTypes
    <3> QED  BY <3>1, <3>2, <3>3
  <2> QED  BY <1>0, <1>5, <2>1 DEF SetProjectionDisabled, RowTypes
<1>6. ASSUME NEW t \in siTokens, t.group \in SiEdited, EditKey(t) \/ DeleteKey(t)
      PROVE  RowTypes' /\ Edit
  <2>1. t \in TokenRows /\ t.group \in SiGroups
    BY <1>0, <1>6 DEF RowTypes
  <2>2. PICK tokens : tokens \subseteq TokenRows /\ SetKeys(t.group, tokens)
    <3>1. \A fill, on \in BOOLEAN : Token(t.group, t.name, t.full \/ fill, TRUE, on) \in TokenRows
      BY <2>1 DEF TokenRows, Token
    <3> QED  BY <1>0, <1>6, <3>1 DEF EditKey, DeleteKey, RowTypes
  <2> QED  BY <1>0, <2>1, <2>2, KeyEditTypes DEF SetKeys
<1>7. ASSUME NEW gm \in SiEdited \X SiModels,
             AddModel(gm) \/ DeleteModel(gm) \/ SwitchModel(gm) \/ SetRoute(gm) \/ LearnRoute(gm)
      PROVE  RowTypes' /\ Edit
  <2>1. gm \in ModelKeys /\ gm[1] \in SiGroups
    BY <1>0 DEF ModelKeys
  <2>2. CASE AddModel(gm)
    <3>1. \A r \in SiRoutes :
            [on |-> TRUE, route |-> r, how |-> "manual", only |-> {}, own |-> TRUE] \in ModelRows
      BY DEF ModelRows
    <3>2. siGroups' \in {siGroups, Restored(gm[1])}
      BY <2>2 DEF AddModel
    <3>3. siModels' \in [ModelKeys -> ModelRows \cup {SiNone}]
      BY <1>0, <2>2, <3>1 DEF AddModel, RowTypes
    <3> QED  BY <1>0, <2>1, <2>2, <3>2, <3>3, RestoredTypes DEF AddModel, RowTypes
  <2>3. CASE DeleteModel(gm)
    BY <1>0, <2>3 DEF DeleteModel, RowTypes
  <2>4. ASSUME siModels[gm] # SiNone
        PROVE  /\ [siModels[gm] EXCEPT !.on = ~siModels[gm].on] \in ModelRows
               /\ \A r \in SiRoutes, how \in {"manual", "learned"} :
                    [siModels[gm] EXCEPT !.route = r, !.how = how, !.only = {}] \in ModelRows
    BY <1>0, <2>1, <2>4 DEF RowTypes, ModelRows
  <2>5. CASE SwitchModel(gm)
    <3>1. siModels' = [siModels EXCEPT ![gm] = [siModels[gm] EXCEPT !.on = ~siModels[gm].on]]
      BY <2>5 DEF SwitchModel
    <3>2. siModels' \in [ModelKeys -> ModelRows \cup {SiNone}]
      BY <1>0, <2>4, <2>5, <3>1 DEF SwitchModel, RowTypes
    <3> QED  BY <1>0, <2>5, <3>2 DEF SwitchModel, RowTypes
  <2>6. CASE SetRoute(gm) \/ LearnRoute(gm)
    <3>1. siModels[gm] # SiNone /\ \E how \in {"manual", "learned"} : Rerouted(gm, how)
      BY <2>6 DEF SetRoute, LearnRoute
    <3>2. PICK r \in SiRoutes, how \in {"manual", "learned"} :
            siModels' = [siModels EXCEPT ![gm] = [siModels[gm] EXCEPT !.route = r, !.how = how, !.only = {}]]
      BY <3>1 DEF Rerouted
    <3>3. siModels' \in [ModelKeys -> ModelRows \cup {SiNone}]
      BY <1>0, <2>4, <3>1, <3>2 DEF RowTypes
    <3> QED  BY <1>0, <3>1, <3>3 DEF Rerouted, RowTypes
  <2> QED  BY <1>7, <2>2, <2>3, <2>5, <2>6
<1>8. ASSUME NEW c \in SiChannels, AddItem(c)
      PROVE  RowTypes' /\ ChannelTypes' /\ LeftTypes' /\ siRetired' = siRetired
  <2>1. siDb[c] \in ChannelRows
    BY <1>0, <1>8 DEF AddItem, ChannelTypes
  <2>2. siItems' \subseteq SiModels \X SiChannels
    BY <1>0, <1>8, <2>1 DEF AddItem, ChannelTypes, ChannelRows
  <2> QED  BY <1>0, <1>8, <2>2, SpentTypes DEF AddItem, RowTypes, ChannelTypes, siRows
<1> QED  BY <1>1, <1>2, <1>3, <1>4, <1>5, <1>6, <1>7, <1>8 DEF SiEdit, SwitchAccount, ResetRoutes

LEMMA TaskTypes ==
  ASSUME Shape, Outliers
  PROVE  RowTypes' /\ ChannelTypes' /\ LeftTypes'
<1>0. RowTypes /\ ChannelTypes /\ LeftTypes
  BY TypesAre DEF Shape
<1>1. CASE SiSwitch(SiTask)
  BY <1>1, SwitchTypes, Constants
<1>2. CASE ~SiSwitch(SiTask)
  <2>1. UNCHANGED <<siRows, siDb, siCache, siBindings, siItems>>
    BY <1>2 DEF Outliers, OutlierStart, Gather, Mark, Enable, Clear, Recover, Judge, Judged, Retire,
                Disable, TakeOff, OutlierFail, siChannelVars
  <2>2. LeftTypes'
    <3>1. UNCHANGED siLeft \/ Spend(1) \/ Break
      BY <1>2 DEF Outliers, OutlierStart, Gather, Mark, Enable, Clear, Recover, Judge, Judged, Retire,
                  Disable, TakeOff, OutlierFail
    <3> QED  BY <1>0, <3>1, SpentTypes DEF LeftTypes
  <2> QED  BY <1>0, <2>1, <2>2 DEF RowTypes, ChannelTypes, siRows
<1> QED  BY <1>1, <1>2

-----------------------------------------------------------------------------
(* The shape of the state is kept *)

LEMMA TaskHeld ==
  ASSUME Shape, Outliers
  PROVE  TaskGoes /\ siRetired' \in [SiChannels -> Nat \cup {SiNone}]
<1>1. CASE SiSwitch(SiTask)
  BY <1>1, SwitchHolds, SwitchTypes, Constants DEF Shape, SiTypeOK
<1> QED  BY <1>1, RecoveryGoes, JudgeGoes DEF Outliers

\* A step of a process, or one that marks all as disturbed, or a restart.
LEMMA Steps ==
  ASSUME Shape, [SoNext]_siVars
  PROVE  \/ UNCHANGED siVars
         \/ \E p \in SiProcs : Goes(p) /\ siRetired' = siRetired
         \/ \E p \in SiProcs : Projected(p)
         \/ TaskGoes
         \/ /\ siProc' \in {[p \in Goroutines |-> Disturbed(siProc[p])], [p \in Goroutines |-> Idle]}
            /\ siFresh' = FALSE /\ siRetired' = siRetired
<1>0. DOMAIN siProc = Goroutines
  BY DEF Shape, PlacesFit
<1>1. ASSUME NEW p \in SiProcs, SiSync(p) \/ SiProject(p) \/ SiSwitch(p) \/ SiFail(p), ~Projected(p)
      PROVE  Goes(p) /\ siRetired' = siRetired
  <2>1. Goes(p)
    BY <1>1, SyncGoes, ProjectGoes, SwitchGoes, FailGoes, Constants
  <2>2. siRetired' = siRetired
    BY <1>1, ProjectTypes, SwitchTypes, FailTypes, Constants
    DEF SiSync, SyncStart, Persist, MarkStale, siChannelVars
  <2> QED  BY <2>1, <2>2
<1>2. CASE SiEdit
  <2>1. siFresh' = FALSE /\ siProc' = [p \in Goroutines |-> Disturbed(siProc[p])]
    BY <1>0, <1>2 DEF SiEdit, SwitchAccount, ResetRoutes, AddKey, EditKey, DeleteKey, SetKeys,
       SetProjectionDisabled, AddModel, DeleteModel, SwitchModel, SetRoute, LearnRoute, Rerouted, AddItem, Edit
  <2> QED  BY <1>2, <2>1, EditTypes
<1>3. CASE SiRestart
  BY <1>0, <1>3 DEF SiRestart
<1> QED  BY <1>1, <1>2, <1>3, TaskHeld DEF SoNext, SiNext

LEMMA ShapeStep ==
  ASSUME Shape, [SoNext]_siVars
  PROVE  Shape'
<1>0. /\ RowTypes /\ ChannelTypes /\ LeftTypes /\ siFresh \in BOOLEAN
      /\ siRetired \in [SiChannels -> Nat \cup {SiNone}]
  BY TypesAre DEF Shape
<1>1. CASE UNCHANGED siVars
  BY <1>1 DEF Shape, SiTypeOK, PlacesFit, RetiredHeld, siVars, siRows, siChannelVars
<1>2. CASE SoNext
  <2>1. RowTypes' /\ ChannelTypes' /\ LeftTypes' /\ siRetired' \in [SiChannels -> Nat \cup {SiNone}]
    <3>1. ASSUME NEW p \in SiProcs, SiSync(p) PROVE SiTypeOK'
      BY <3>1, SyncTypes
    <3>2. CASE \E p \in SiProcs : SiSync(p)
      BY <3>1, <3>2 DEF SiTypeOK, RowTypes, ChannelTypes, LeftTypes
    <3>3. CASE ~\E p \in SiProcs : SiSync(p)
      BY <1>0, <1>2, <3>3, ProjectTypes, SwitchTypes, FailTypes, RestartTypes, EditTypes, TaskTypes, TaskHeld,
         Constants
      DEF SoNext, SiNext
    <3> QED  BY <3>2, <3>3
  <2>2. siFresh' \in BOOLEAN /\ PlacesFit' /\ RetiredHeld'
    <3>0. PlacesFit /\ RetiredHeld
      BY DEF Shape
    <3>1. ASSUME NEW p \in SiProcs, Goes(p), siRetired' = siRetired
          PROVE  siFresh' \in BOOLEAN /\ PlacesFit' /\ RetiredHeld'
      <4>1. PICK to : Fits(p, to) /\ (Quiet(p, to) \/ Wrote(p, to))
        BY <3>1 DEF Goes
      <4>2. /\ PlacesFit'
            /\ siProc'[SiTask] = siProc[SiTask] \/ siProc'[SiTask] = Disturbed(siProc[SiTask])
        BY <3>0, <4>1, OneMoves, Constants
      <4>3. Held(siProc'[SiTask], siRetired)
        BY <3>0, <4>2, Constants DEF RetiredHeld, Held, Probing, AtSwitch, Disturbed, PlacesFit, Places
      <4> QED  BY <1>0, <3>1, <4>1, <4>2, <4>3, GoesFresh DEF RetiredHeld
    <3>2. ASSUME NEW p \in SiProcs, Projected(p)
          PROVE  siFresh' \in BOOLEAN /\ PlacesFit' /\ RetiredHeld'
      <4>1. siProc' = [siProc EXCEPT ![p] = Idle] /\ siFresh' = siProc[p].clean /\ siRetired' = siRetired
        BY <3>2 DEF Projected, siChannelVars
      <4>2. PlacesFit'
        BY <3>0, <4>1, IdleFits, Constants DEF PlacesFit, Fits
      <4>3. siProc'[SiTask] = siProc[SiTask] /\ siProc[p].clean \in BOOLEAN
        BY <3>0, <4>1, Constants DEF PlacesFit, Places
      <4> QED  BY <3>0, <4>1, <4>2, <4>3 DEF RetiredHeld
    <3>3. CASE TaskGoes
      <4>1. PICK to : Fits(SiTask, to) /\ Held(to, siRetired') /\ (Quiet(SiTask, to) \/ Wrote(SiTask, to))
        BY <3>3 DEF TaskGoes
      <4>2. PlacesFit' /\ siProc'[SiTask] = to
        BY <3>0, <4>1, OneMoves, Constants
      <4> QED  BY <1>0, <4>1, <4>2, GoesFresh DEF RetiredHeld
    <3>4. CASE siProc' = [p \in Goroutines |-> Disturbed(siProc[p])] /\ siFresh' = FALSE /\ siRetired' = siRetired
      <4>1. \A p \in Goroutines : Fits(p, siProc'[p])
        BY <3>0, <3>4, DisturbedFits DEF PlacesFit
      <4>2. PlacesFit'
        BY <3>4, <4>1 DEF PlacesFit, Fits
      <4>3. Held(siProc'[SiTask], siRetired)
        BY <3>0, <3>4, Constants DEF RetiredHeld, Held, Probing, AtSwitch, Disturbed, PlacesFit, Places
      <4> QED  BY <3>4, <4>2, <4>3 DEF RetiredHeld
    <3>5. CASE siProc' = [p \in Goroutines |-> Idle] /\ siFresh' = FALSE /\ siRetired' = siRetired
      <4>1. PlacesFit'
        BY <3>5, IdleFits DEF PlacesFit, Fits
      <4>2. RetiredHeld'
        BY <3>5, Constants DEF RetiredHeld, Held, Probing, AtSwitch, Idle
      <4> QED  BY <3>5, <4>1, <4>2
    <3>6. CASE UNCHANGED siVars
      BY <1>0, <3>0, <3>6 DEF PlacesFit, RetiredHeld, siVars, siRows, siChannelVars
    <3> QED  BY <1>2, <3>1, <3>2, <3>3, <3>4, <3>5, <3>6, Steps
  <2> QED  BY <2>1, <2>2 DEF Shape, SiTypeOK, RowTypes, ChannelTypes, LeftTypes
<1> QED  BY <1>1, <1>2

LEMMA ShapeInit ==
  ASSUME SiInit
  PROVE  Shape
<1>1. siProc = [p \in Goroutines |-> Idle]
  BY DEF SiInit, Goroutines
<1>2. PlacesFit
  BY <1>1, IdleFits DEF PlacesFit, Fits
<1>3. RetiredHeld
  BY <1>1, Constants DEF RetiredHeld, Held, Probing, AtSwitch, Idle
<1>4. siAuto \in BOOLEAN /\ siLeft \in [steps : Nat, overlap : Nat, rounds : Nat, faults : Nat]
  BY SiteAssumption DEF SiInit, SiteAssumption
<1>5. SiTypeOK
  BY <1>4 DEF SiInit, SiTypeOK
<1> QED  BY <1>2, <1>3, <1>5 DEF Shape

(* The rows, the channels and what the goroutines have read have their      *)
(* types, whatever overlaps and fails (sitesync, op, task/site_outlier.go). *)
THEOREM SiTypeCorrect == SoSpec => []SiTypeOK
<1>1. SiInit => Shape
  BY ShapeInit
<1>2. Shape /\ [SoNext]_siVars => Shape'
  BY ShapeStep
<1>3. Shape => SiTypeOK
  BY DEF Shape
<1> QED  BY <1>1, <1>2, <1>3, PTL DEF SoSpec

-----------------------------------------------------------------------------
(* What a synchronisation keeps *)

\* A group has one usable key of a name, so the row that a key of the panel meets is the
\* one row whose switch the administrator set.
OneKeyEach ==
  \A t, u \in siTokens : t.group = u.group /\ t.name = u.name /\ t.full /\ u.full => t = u

\* The rows are the panel's answer, or an administrator's edit, or as they were.
LEMMA RowSteps ==
  ASSUME Shape, [SoNext]_siVars
  PROVE  \/ UNCHANGED siRows
         \/ \E p \in SiProcs : Persist(p) \/ MarkStale(p)
         \/ SiEdit /\ siLeft'.steps # siLeft.steps
<1>1. CASE SiEdit
  <2>1. Spend(0)
    BY <1>1 DEF SiEdit, SwitchAccount, ResetRoutes, AddKey, EditKey, DeleteKey, SetKeys,
       SetProjectionDisabled, AddModel, DeleteModel, SwitchModel, SetRoute, LearnRoute, Rerouted, AddItem, Edit
  <2>2. siLeft.steps \in Nat /\ siLeft'.steps = siLeft.steps - 1
    BY <2>1 DEF Shape, SiTypeOK, Spend
  <2> QED  BY <1>1, <2>2
<1>2. ASSUME NEW p \in SiProcs, SiProject(p) \/ SiSwitch(p) \/ SiFail(p) \/ SyncStart(p)
      PROVE  UNCHANGED siRows
  BY <1>2 DEF SiProject, SiSwitch, SiFail, SyncStart, ProjectStart, Load, List, Off, Bucketed, Update,
     Create, Bind, Join, Rewrite, Stale, Unbind, KeepRetired, Projected, SwitchRow, SwitchCache
<1>3. ASSUME Outliers
      PROVE  UNCHANGED siRows
  BY <1>3 DEF Outliers, OutlierStart, Gather, Mark, Enable, Clear, Recover, Judge, Judged, Retire,
     Disable, TakeOff, OutlierFail, SiSwitch, SwitchRow, SwitchCache
<1>4. CASE SiRestart
  BY <1>4 DEF SiRestart
<1>5. CASE UNCHANGED siVars
  BY <1>5 DEF siVars
<1> QED  BY <1>1, <1>2, <1>3, <1>4, <1>5 DEF SoNext, SiNext, SiSync

LEMMA MergedKey ==
  ASSUME NEW a, NEW g, NEW t \in Met(a, g)
  PROVE  /\ Merged(a, g).group = g /\ Merged(a, g).name = "panel"
         /\ t \in siTokens /\ t.group = g /\ t.name = "panel"
         /\ t.full => Merged(a, g).full
BY DEF Met, Merged, Token

LEMMA FullKeyIsMet ==
  ASSUME NEW a, NEW t \in siTokens, t.name = "panel", t.full
  PROVE  t \in Met(a, t.group) /\ \A u \in Met(a, t.group) : u.full
BY DEF Met

LEMMA KeysStaySingle ==
  ASSUME Shape, OneKeyEach, [SoNext]_siVars
  PROVE  OneKeyEach'
<1>1. CASE siTokens' = siTokens
  BY <1>1 DEF OneKeyEach
<1>2. ASSUME NEW p \in SiProcs, Persist(p)
      PROVE  OneKeyEach'
  <2> DEFINE a == siProc[p].answer
             kept == {t \in siTokens : t.manual /\ ~(t.group \in TokenGroups(a) /\ t \in Met(a, t.group))}
  <2>1. siTokens' = {Merged(a, g) : g \in TokenGroups(a)} \cup kept
    BY <1>2 DEF Persist, TokensAfter
  <2>2. \A g : Merged(a, g).group = g /\ Merged(a, g).name = "panel"
    BY DEF Merged, Token
  <2>3. \A t \in kept : t.full /\ t.name = "panel" => t.group \notin TokenGroups(a)
    BY FullKeyIsMet
  <2>4. \A t, u \in kept : t.group = u.group /\ t.name = u.name /\ t.full /\ u.full => t = u
    BY DEF OneKeyEach
  <2> HIDE DEF kept, a
  <2>5. SUFFICES ASSUME NEW t \in siTokens', NEW u \in siTokens',
                        t.group = u.group, t.name = u.name, t.full, u.full
                 PROVE  t = u
    BY DEF OneKeyEach
  <2> QED  BY <2>1, <2>2, <2>3, <2>4, <2>5
<1>3. ASSUME NEW t, siTokens' \subseteq siTokens \cup {t},
             t.full => \A u \in siTokens' \ {t} : u.group = t.group /\ u.full => u.name # t.name
      PROVE  OneKeyEach'
  BY <1>3 DEF OneKeyEach
<1>4. ASSUME NEW g \in SiEdited, AddKey(g)
      PROVE  OneKeyEach'
  <2> DEFINE t == Token(g, "own", TRUE, TRUE, TRUE)
  <2>1. siTokens' = siTokens \cup {t} /\ t.group = g /\ t.name = "own"
    BY <1>4 DEF AddKey, SetKeys, Token
  <2>2. \A u \in siTokens : u.group = g /\ u.full => u.name # "own"
    BY <1>4 DEF AddKey, Usable
  <2> HIDE DEF t
  <2> QED  BY <1>3, <2>1, <2>2
<1>5. ASSUME NEW t \in siTokens, EditKey(t)
      PROVE  OneKeyEach'
  <2>1. PICK fill \in BOOLEAN, on \in BOOLEAN :
          /\ fill => \A u \in Usable(t.group) : u.name # t.name
          /\ siTokens' = (siTokens \ {t}) \cup {Token(t.group, t.name, t.full \/ fill, TRUE, on)}
    BY <1>5 DEF EditKey, SetKeys
  <2> DEFINE new == Token(t.group, t.name, t.full \/ fill, TRUE, on)
  <2>2. new.group = t.group /\ new.name = t.name /\ new.full = (t.full \/ fill)
    BY DEF Token
  <2> HIDE DEF new
  <2>3. \A u \in siTokens \ {t} : u.group = t.group /\ u.full /\ new.full => u.name # t.name
    BY <2>1, <2>2 DEF OneKeyEach, Usable
  <2>4. siTokens' \subseteq siTokens \cup {new} /\ siTokens' \ {new} \subseteq siTokens \ {t}
    BY <2>1 DEF new
  <2> QED  BY <1>3, <2>2, <2>3, <2>4
<1>6. ASSUME NEW t \in siTokens, DeleteKey(t)
      PROVE  OneKeyEach'
  BY <1>6 DEF DeleteKey, SetKeys, OneKeyEach
<1>7. CASE UNCHANGED siRows \/ \E p \in SiProcs : MarkStale(p)
  BY <1>1, <1>7 DEF siRows, MarkStale
<1>8. CASE SiEdit
  BY <1>1, <1>4, <1>5, <1>6, <1>8
  DEF SiEdit, SwitchAccount, ResetRoutes, SetProjectionDisabled, AddModel, DeleteModel, SwitchModel,
      SetRoute, LearnRoute, Rerouted, AddItem, siRows
<1> QED  BY <1>2, <1>7, <1>8, RowSteps

LEMMA PersistKeepsChoices ==
  ASSUME Shape, OneKeyEach, NEW p \in SiProcs, Persist(p)
  PROVE  KeepsChoices
<1> DEFINE a == siProc[p].answer
<1>0. RowTypes
  BY TypesAre DEF Shape
<1>1. ASSUME NEW g \in SiGroups, siGroups[g] # SiNone, siGroups'[g] # SiNone
      PROVE  siGroups'[g].disabled = siGroups[g].disabled
  <2>1. siGroups'[g] = GroupAfter(a, g) /\ siGroups[g].disabled \in BOOLEAN
    BY <1>0, <1>1 DEF Persist, RowTypes
  <2> QED  BY <1>1, <2>1 DEF GroupAfter
<1>2. ASSUME NEW gm \in ModelKeys, siModels[gm] # SiNone, siModels'[gm] # SiNone
      PROVE  /\ siModels'[gm].on = siModels[gm].on
             /\ siModels[gm].how # "synced" => /\ siModels'[gm].route = siModels[gm].route
                                               /\ siModels'[gm].how = siModels[gm].how
  <2>1. siModels'[gm] = ModelAfter(a, siProc[p].saw, gm) /\ siModels[gm] \in ModelRows
    BY <1>0, <1>2 DEF Persist, RowTypes
  <2>2. siModels'[gm] = siModels[gm] \/ siModels'[gm] = ModelSynced(a, gm)
    BY <1>2, <2>1 DEF ModelAfter
  <2>3. CASE siModels'[gm] = ModelSynced(a, gm)
    BY <1>2, <2>1, <2>3 DEF ModelSynced, ModelRows
  <2> QED  BY <2>2, <2>3
<1>3. ASSUME NEW t \in siTokens, t.manual, t.full
      PROVE  \E u \in siTokens' : u.group = t.group /\ u.name = t.name /\ u.full /\ u.on = t.on
  <2>1. siTokens' = TokensAfter(a) /\ t \in TokenRows
    BY <1>0 DEF Persist, RowTypes
  <2>2. CASE ~(t.group \in TokenGroups(a) /\ t \in Met(a, t.group))
    BY <1>3, <2>1, <2>2 DEF TokensAfter
  <2>3. CASE t.group \in TokenGroups(a) /\ t \in Met(a, t.group)
    <3> DEFINE u == Merged(a, t.group)
    <3>1. t.name = "panel" /\ u \in siTokens' /\ u.group = t.group /\ u.name = "panel" /\ u.full
      BY <1>3, <2>1, <2>3, MergedKey DEF TokensAfter
    <3>2. \A v \in Met(a, t.group) : v = t
      BY <1>3, <3>1, FullKeyIsMet, MergedKey DEF OneKeyEach
    <3>3. u.on = (u.full /\ \A v \in Met(a, t.group) : v.on)
      BY DEF Merged, Token
    <3>4. t.on \in BOOLEAN
      BY <2>1 DEF TokenRows
    <3> HIDE DEF u
    <3> QED  BY <2>3, <3>1, <3>2, <3>3, <3>4
  <2> QED  BY <2>2, <2>3
<1> QED  BY <1>1, <1>2, <1>3 DEF KeepsChoices

LEMMA ChoicesStep ==
  ASSUME Shape, OneKeyEach, [SoNext]_siVars
  PROVE  KeepsChoices
<1>0. RowTypes
  BY TypesAre DEF Shape
<1>1. CASE UNCHANGED siRows
  BY <1>1 DEF KeepsChoices, siRows
<1>2. ASSUME NEW p \in SiProcs, MarkStale(p)
      PROVE  KeepsChoices
  <2>1. \A g \in SiGroups : siGroups[g] # SiNone => siGroups'[g] = siGroups[g]
    BY <1>2 DEF MarkStale
  <2> QED  BY <1>2, <2>1 DEF MarkStale, KeepsChoices
<1>3. CASE siLeft'.steps # siLeft.steps
  BY <1>3 DEF KeepsChoices
<1> QED  BY <1>1, <1>2, <1>3, PersistKeepsChoices, RowSteps

LEMMA HistoryStep ==
  ASSUME Shape, [SoNext]_siVars
  PROVE  KeepsHistory
<1>0. RowTypes
  BY TypesAre DEF Shape
<1>1. CASE UNCHANGED siRows \/ (\E p \in SiProcs : MarkStale(p)) \/ siLeft'.steps # siLeft.steps
  BY <1>1 DEF KeepsHistory, MarkStale, siRows
<1>2. ASSUME NEW p \in SiProcs, Persist(p),
             NEW gm \in ModelKeys, siModels[gm] # SiNone, siModels'[gm] = SiNone
      PROVE  LET a == siProc[p].answer IN
             /\ siProc[p].pc = "persist" /\ siProc'[p].pc # "persist"
             /\ \/ gm[1] \notin PanelGroups(a)
                \/ /\ gm[2] \notin IF Confirmed(a, gm[1]) THEN a.names[gm[1]] ELSE {}
                   /\ Confirmed(a, gm[1]) \/ (gm[1] \notin TokenGroups(a) /\ HasModels(a, gm[1]))
  <2> DEFINE a == siProc[p].answer
             g == gm[1]
  <2>0. gm[1] \in SiGroups /\ gm[2] \in SiModels /\ gm = <<gm[1], gm[2]>>
    BY DEF ModelKeys
  <2>1. a \in PanelSays /\ siProc[p].pc = "persist" /\ siProc'[p].pc = "load"
    <3>1. a \in PanelSays /\ siProc[p].pc = "persist"
      BY <1>2, Constants DEF Persist, Shape, PlacesFit, Fits, Projects
    <3>2. siProc'[p] = [Idle EXCEPT !.pc = "load"]
      BY <1>2, Constants DEF Persist, Shape, PlacesFit, Wrote
    <3> QED  BY <3>1, <3>2 DEF Idle
  <2>2. ModelSynced(a, gm) # SiNone
    <3>1. siModels[gm] \in ModelRows /\ SiRouteOf[gm[2]] \in SiRoutes /\ a.enable[gm[2]] \in SUBSET SiGroups
      BY <1>0, <1>2, <2>0, <2>1, Constants DEF RowTypes, PanelSays
    <3>2. ModelSynced(a, gm) \in ModelRows
      BY <1>2, <3>1 DEF ModelSynced, ModelRows
    <3> QED  BY <3>2, Constants
  <2>3. Replaced(a, siProc[p].saw, g) /\ gm \notin Fetched(a)
    BY <1>2, <2>2 DEF Persist, ModelAfter
  <2>4. Result(a, g) \in {"synced", "empty", "removed"}
    BY <2>3 DEF Replaced
  <2>5. CASE g \notin PanelGroups(a)
    BY <2>1, <2>5
  <2>6. CASE g \in PanelGroups(a) /\ Confirmed(a, g)
    <3>1. gm[2] \notin a.names[g]
      BY <2>0, <2>3, <2>6 DEF Fetched, ModelKeys
    <3> QED  BY <2>1, <2>6, <3>1
  <2>7. CASE g \in PanelGroups(a) /\ ~Confirmed(a, g)
    <3>1. g \notin TokenGroups(a)
      <4>1. SUFFICES ASSUME g \in TokenGroups(a)
                     PROVE  FALSE
        OBVIOUS
      <4>2. ~HasModels(a, g)
        BY <2>7, <4>1 DEF HasModels, Fetched
      <4>3. Result(a, g) = a.got[g]
        BY <2>7, <4>1, <4>2 DEF Result
      <4>4. a.got[g] \in {"names", "failed", "unresolved"}
        BY <2>0, <2>1 DEF PanelSays
      <4> QED  BY <2>4, <4>3, <4>4
    <3>2. HasModels(a, g)
      <4>1. SUFFICES ASSUME ~HasModels(a, g)
                     PROVE  FALSE
        OBVIOUS
      <4>2. Result(a, g) = "missing_key"
        BY <2>7, <3>1, <4>1 DEF Result
      <4> QED  BY <2>4, <4>2
    <3> QED  BY <2>1, <2>7, <3>1, <3>2
  <2> QED  BY <2>5, <2>6, <2>7
<1>3. ASSUME NEW p \in SiProcs, Persist(p)
      PROVE  KeepsHistory
  BY <1>2, <1>3 DEF KeepsHistory
<1> QED  BY <1>1, <1>3, RowSteps

(* A synchronisation, a projection, a failure or a restart takes nothing     *)
(* from the account that is not theirs to take: the administrator's choices, *)
(* and the models that no definite answer left out (sitesync/storage.go).    *)
THEOREM SyncTakesNothing == SoSpec => SyncKeeps
<1>1. SiInit => Shape /\ OneKeyEach
  BY ShapeInit DEF SiInit, OneKeyEach
<1>2. Shape /\ OneKeyEach /\ [SoNext]_siVars => Shape' /\ OneKeyEach'
  BY ShapeStep, KeysStaySingle
<1>3. Shape /\ OneKeyEach /\ [SoNext]_siVars => [KeepsChoices]_siVars /\ [KeepsHistory]_siVars
  BY ChoicesStep, HistoryStep
<1> QED  BY <1>1, <1>2, <1>3, PTL DEF SoSpec, SyncKeeps, ChoicesKept, HistoryKept

-----------------------------------------------------------------------------
(* What the retirement of an outlier leaves *)

\* An outage is remembered for the rest of the round.  Without one, while a candidate is
\* retired, another of the channels the round listed is on.
Retiring(s) == s.pc \in {"retire", "disable"} \/ (AtSwitch(s) /\ ~s.switch.to)
TakesOff(s) == s.want # {} \/ s.pc = "outage" \/ (AtSwitch(s) /\ s.switch.back = "outage")
SparesAnother(s) ==
  /\ s.made \in {{}, s.bound} /\ (TakesOff(s) => s.made # {})
  /\ s.clean /\ s.made = {} /\ Retiring(s) => \E c \in Ends(s.bound) \ {s.cur} : IsOn(c)
AnotherSpared == SparesAnother(siProc[SiTask])

\* Who writes disturbs the others; who does not leaves everything as it is.
LEMMA QuietIsStill ==
  ASSUME Shape, NEW p \in SiProcs, SiSync(p) \/ SiProject(p) \/ SiSwitch(p) \/ SiFail(p)
  PROVE  \/ \E to : Wrote(p, to)
         \/ UNCHANGED <<siRows, siChannelVars>> /\ \E to : Quiet(p, to)
         \/ UNCHANGED <<siRows, siChannelVars>> /\ Projected(p)
<1>1. CASE SiSync(p) \/ SiSwitch(p)
  BY <1>1 DEF SiSync, SyncStart, Persist, MarkStale, SiSwitch, SwitchRow, SwitchCache
<1>2. CASE SiFail(p)
  BY <1>2 DEF SiFail, RewriteSome
<1>3. CASE SiProject(p)
  BY <1>3 DEF SiProject, ProjectStart, Load, List, Off, Bucketed, Update, Create, Bind, Join,
              Rewrite, RewriteSome, Stale, Unbind, KeepRetired, Projected, siChannelVars
<1> QED  BY <1>1, <1>2, <1>3

LEMMA TaskIsStill ==
  ASSUME Shape, Outliers
  PROVE  \/ \E to : Wrote(SiTask, to)
         \/ UNCHANGED <<siRows, siChannelVars>> /\ \E to : Quiet(SiTask, to)
<1>1. CASE SiSwitch(SiTask)
  BY <1>1 DEF SiSwitch, SwitchRow, SwitchCache
<1>2. CASE OutlierFail
  BY <1>2 DEF OutlierFail
<1>3. CASE ~SiSwitch(SiTask) /\ ~OutlierFail
  BY <1>3 DEF Outliers, OutlierStart, Gather, Mark, Enable, Clear, Recover, Judge, Judged, Retire, Retired,
              Disable, TakeOff, siChannelVars
<1> QED  BY <1>1, <1>2, <1>3

\* A goroutine whose step changes the cache is told by the mark that all others lose.
LEMMA OthersDisturb ==
  ASSUME Shape, NEW p \in SiProcs, SiSync(p) \/ SiProject(p) \/ SiSwitch(p) \/ SiFail(p)
  PROVE  \/ siCache' = siCache /\ siProc'[SiTask] = siProc[SiTask]
         \/ siProc'[SiTask] = Disturbed(siProc[SiTask])
<1>0. DOMAIN siProc = Goroutines /\ SiTask \in Goroutines /\ SiTask # p
  BY Constants DEF Shape, PlacesFit
<1> QED  BY <1>0, QuietIsStill DEF Wrote, Quiet, Projected, siChannelVars

LEMMA DisturbedSpares ==
  ASSUME Shape, AnotherSpared, siProc'[SiTask] = Disturbed(siProc[SiTask])
  PROVE  AnotherSpared'
<1> DEFINE s == siProc[SiTask]
           to == siProc'[SiTask]
<1>1. s \in Places /\ s.made \in {{}, s.bound} /\ (TakesOff(s) => s.made # {})
  BY Constants DEF Shape, PlacesFit, AnotherSpared, SparesAnother
<1>2. /\ to.clean = FALSE /\ to.pc = s.pc /\ to.want = s.want /\ to.made = s.made /\ to.bound = s.bound
      /\ to.switch = s.switch
  BY <1>1 DEF Disturbed, Places
<1> QED  BY <1>1, <1>2 DEF AnotherSpared, SparesAnother, TakesOff, AtSwitch

\* The steps of the task.
LEMMA TaskSpares ==
  ASSUME Shape, AnotherSpared, Outliers
  PROVE  AnotherSpared'
<1> DEFINE s == siProc[SiTask]
           to == siProc'[SiTask]
           another == \E c \in Ends(s.bound) \ {s.cur} : IsOn(c)
<1>0. /\ s \in Places /\ Retires(s) /\ DOMAIN siProc = Goroutines /\ SiTask \in Goroutines
      /\ s.made \in {{}, s.bound} /\ (TakesOff(s) => s.made # {})
      /\ s.clean /\ s.made = {} /\ Retiring(s) => another
  BY Constants DEF Shape, PlacesFit, Fits, AnotherSpared, SparesAnother, Idle
<1>a. \A new : Quiet(SiTask, new) \/ Wrote(SiTask, new) => to = new
  BY <1>0 DEF Quiet, Wrote
\* It goes on, and retires nothing.
<1>b. ASSUME ~Retiring(to), to.made \in {{}, to.bound}, TakesOff(to) => to.made # {}
      PROVE  AnotherSpared'
  BY <1>b DEF AnotherSpared, SparesAnother, Retiring
\* It goes on with what it retires.
<1>c. ASSUME to.want = s.want, to.made = s.made, to.bound = s.bound, to.cur = s.cur, to.clean = s.clean,
             to.pc = "outage" \/ (AtSwitch(to) /\ to.switch.back = "outage") => s.made # {},
             siCache' = siCache, Retiring(s)
      PROVE  AnotherSpared'
  BY <1>0, <1>c DEF AnotherSpared, SparesAnother, TakesOff, IsOn
<1>1. CASE OutlierStart \/ Gather \/ Judged
  <2>1. \/ to = Idle \/ to = [Idle EXCEPT !.pc = "recover", !.saw = RetiredChannels]
        \/ \E bad : to = [Idle EXCEPT !.pc = "judge", !.bound = Entries, !.todo = bad]
    BY <1>1, <1>a DEF OutlierStart, Gather, Judged
  <2>2. to.pc \in {"recover", "judge", "idle"} /\ to.want = {} /\ to.made = {}
    <3>1. ASSUME NEW bad, to = [Idle EXCEPT !.pc = "judge", !.bound = Entries, !.todo = bad]
          PROVE  to.pc = "judge" /\ to.want = {} /\ to.made = {}
      BY <3>1 DEF Idle
    <3>2. CASE to = Idle
      BY <3>2 DEF Idle
    <3>3. CASE to = [Idle EXCEPT !.pc = "recover", !.saw = RetiredChannels]
      BY <3>3 DEF Idle
    <3> QED  BY <2>1, <3>1, <3>2, <3>3
  <2> QED  BY <1>b, <2>2 DEF Retiring, AtSwitch, TakesOff
<1>2. CASE Mark \/ Clear \/ \E c \in s.saw : Recover(c)
  <2>1. to.pc \in {"recover", "enable", "mark"} /\ to.want = s.want /\ to.made = s.made
        /\ to.bound = s.bound
    BY <1>0, <1>2, <1>a DEF Mark, Clear, Recover, TaskNow, Places
  <2> QED  BY <1>0, <1>b, <2>1 DEF Retiring, AtSwitch, TakesOff
<1>3. CASE Enable
  <2>1. to = TaskNow("recover") \/ to = Switching(s.cur, TRUE, TaskNow("clear"))
    BY <1>3, <1>a DEF Enable
  <2>2. CASE to = TaskNow("recover") \/ to = TaskNow("clear")
    <3>1. to.pc \in {"recover", "clear"} /\ to.want = s.want /\ to.made = s.made /\ to.bound = s.bound
      BY <1>0, <2>2 DEF TaskNow, Places
    <3> QED  BY <1>0, <1>b, <3>1 DEF Retiring, AtSwitch, TakesOff
  <2>3. CASE to = [TaskNow("clear") EXCEPT !.pc = "switch", !.switch = Switched(s.cur, TRUE, TaskNow("clear").pc)]
    <3>1. /\ to.pc = "switch" /\ to.want = s.want /\ to.made = s.made /\ to.bound = s.bound
          /\ to.switch = Switched(s.cur, TRUE, "clear")
      BY <1>0, <2>3 DEF TaskNow, Places
    <3>2. to.switch.to = TRUE /\ to.switch.back = "clear"
      BY <3>1 DEF Switched
    <3> QED  BY <1>0, <1>b, <3>1, <3>2 DEF Retiring, AtSwitch, TakesOff
  <2> QED  BY <2>1, <2>2, <2>3 DEF Switching
<1>4. ASSUME NEW c \in s.todo, Judge(c)
      PROVE  AnotherSpared'
  <2> DEFINE rest == [TaskNow("judge") EXCEPT !.todo = @ \ {c}]
             outage == [rest EXCEPT !.made = s.bound]
  <2>1. CASE to = rest \/ to = outage
    <3>1. to.pc = "judge" /\ to.want = s.want /\ to.made \in {s.made, s.bound} /\ to.bound = s.bound
      BY <1>0, <2>1 DEF TaskNow, Places
    <3> QED  BY <1>0, <1>b, <3>1 DEF Retiring, AtSwitch, TakesOff
  <2>2. CASE Outage(c) /\ to = [outage EXCEPT !.pc = "outage", !.want = Siblings]
    <3>1. s.bound # {}
      BY <2>2 DEF Outage, Siblings, Ends
    <3>2. to.pc = "outage" /\ to.made = s.bound /\ to.bound = s.bound
      BY <1>0, <2>2 DEF TaskNow, Places
    <3> QED  BY <1>b, <3>1, <3>2 DEF Retiring, AtSwitch
  <2>3. CASE Outlier(c) /\ to = [rest EXCEPT !.pc = "retire", !.cur = c, !.clean = TRUE]
    <3>1. to.bound = s.bound /\ to.cur = c /\ to.want = s.want /\ to.made = s.made /\ to.pc = "retire"
      BY <1>0, <2>3 DEF TaskNow, Places
    <3>2. siCache' = siCache
      BY <1>4 DEF Judge, siChannelVars
    <3>3. \E d \in Ends(s.bound) \ {c} : IsOn(d)
      BY <2>3 DEF Outlier, Siblings
    <3> QED  BY <1>0, <3>1, <3>2, <3>3 DEF AnotherSpared, SparesAnother, IsOn, TakesOff, AtSwitch
  <2> QED  BY <1>4, <1>a, <2>1, <2>2, <2>3 DEF Judge
<1>5. CASE Retire
  <2>1. s.pc = "retire" /\ to = [s EXCEPT !.pc = "disable", !.cur = s.cur] /\ siCache' = siCache
    BY <1>5, <1>a DEF Retire, Retired, TaskAt
  <2> QED  BY <1>0, <1>c, <2>1 DEF Retiring, Places, AtSwitch
<1>6. AfterDisable.pc = "outage" => s.made # {}
  BY <1>0 DEF AfterDisable, TaskNow, Places, TakesOff
<1>7. CASE Disable
  <2>1. s.pc = "disable" /\ to = Switching(s.cur, FALSE, AfterDisable) /\ siCache' = siCache
    BY <1>7, <1>a DEF Disable, TaskAt, siChannelVars
  <2>2. /\ to.want = s.want /\ to.made = s.made /\ to.bound = s.bound /\ to.cur = s.cur /\ to.clean = s.clean
        /\ IF to.pc = "switch" THEN to.switch.back = AfterDisable.pc ELSE to.pc = AfterDisable.pc
        /\ to.pc # "cache"
    BY <1>0, <2>1 DEF Switching, Switched, AfterDisable, TaskNow, Places
  <2> QED  BY <1>6, <1>c, <2>1, <2>2 DEF Retiring, AtSwitch
<1>8. ASSUME NEW c \in s.want, TakeOff(c)
      PROVE  AnotherSpared'
  <2>1. s.made # {} /\ to.made = s.made /\ to.bound = s.bound
    <3> DEFINE rest == [s EXCEPT !.want = @ \ {c}]
    <3>1. to = [rest EXCEPT !.pc = "disable", !.cur = c] \/ \E pc : to = [rest EXCEPT !.pc = pc]
      BY <1>8, <1>a DEF TakeOff, Retired
    <3> QED  BY <1>0, <3>1 DEF Places, TakesOff
  <2> QED  BY <1>0, <2>1 DEF AnotherSpared, SparesAnother
<1>9. CASE SiSwitch(SiTask)
  <2>1. CASE SwitchRow(SiTask)
    <3>1. s.pc = "switch" /\ to = [s EXCEPT !.pc = "cache"] /\ siCache' = siCache
      BY <1>a, <2>1 DEF SwitchRow
    <3>2. CASE s.switch.to
      <4>1. /\ to.pc = "cache" /\ to.switch = s.switch /\ to.want = s.want /\ to.made = s.made
            /\ to.bound = s.bound
        BY <1>0, <3>1 DEF Places
      <4> QED  BY <1>0, <1>b, <3>1, <3>2, <4>1 DEF Retiring, AtSwitch, TakesOff
    <3>3. CASE ~s.switch.to
      BY <1>0, <1>c, <3>1, <3>3 DEF Retiring, AtSwitch, TakesOff, Places
    <3> QED  BY <3>2, <3>3
  <2>2. CASE SwitchCache(SiTask)
    <3>1. s.pc = "cache" /\ to = [s EXCEPT !.pc = s.switch.back, !.switch = NoSwitch]
      BY <1>a, <2>2 DEF SwitchCache
    <3>2. to.pc \in {"clear", "judge", "outage"} /\ to.want = s.want /\ to.made = s.made
          /\ to.bound = s.bound /\ (to.pc = "outage" => s.made # {})
      BY <1>0, <3>1 DEF Retires, AtSwitch, TakesOff, Places
    <3> QED  BY <1>0, <1>b, <3>2 DEF Retiring, AtSwitch, TakesOff
  <2> QED  BY <1>9, <2>1, <2>2 DEF SiSwitch
<1>10. CASE OutlierFail
  <2>1. \/ to = Idle \/ to = TaskNow("recover") \/ to = [TaskNow("recover") EXCEPT !.saw = {}]
        \/ to = AfterDisable
        \/ /\ s.pc = "switch"
           /\ \/ to = [TaskNow("recover") EXCEPT !.switch = NoSwitch]
              \/ to = [TaskNow(s.switch.back) EXCEPT !.switch = NoSwitch] /\ ~s.switch.to
    BY <1>10, <1>a DEF OutlierFail, TaskAt
  <2>2. CASE to = Idle
    BY <1>b, <2>2 DEF Idle, Retiring, AtSwitch, TakesOff
  <2>3. to # Idle => to.want = s.want /\ to.made = s.made /\ to.bound = s.bound
    BY <1>0, <2>1 DEF TaskNow, AfterDisable, Places
  <2>4. to # Idle => to.pc \in {"recover", "judge", "outage"} /\ (to.pc = "outage" => s.made # {})
    BY <1>0, <1>6, <2>1 DEF TaskNow, AfterDisable, Places, Retires, AtSwitch, TakesOff
  <2> QED  BY <1>0, <1>b, <2>2, <2>3, <2>4 DEF Retiring, AtSwitch, TakesOff
<1> QED  BY <1>1, <1>2, <1>3, <1>4, <1>5, <1>7, <1>8, <1>9, <1>10 DEF Outliers

LEMMA AnotherStep ==
  ASSUME Shape, AnotherSpared, [SoNext]_siVars
  PROVE  AnotherSpared'
<1> DEFINE s == siProc[SiTask]
<1>0. DOMAIN siProc = Goroutines /\ SiTask \in Goroutines
  BY Constants DEF Shape, PlacesFit
<1>1. CASE siCache' = siCache /\ siProc'[SiTask] = s
  BY <1>1 DEF AnotherSpared, SparesAnother, IsOn, TakesOff, Retiring, AtSwitch
<1>2. CASE siProc'[SiTask] = Idle
  BY <1>2 DEF AnotherSpared, SparesAnother, Idle, TakesOff, Retiring, AtSwitch
<1>3. CASE SiEdit
  <2>1. siProc'[SiTask] = Disturbed(s)
    BY <1>0, <1>3 DEF SiEdit, SwitchAccount, ResetRoutes, AddKey, EditKey, DeleteKey, SetKeys,
       SetProjectionDisabled, AddModel, DeleteModel, SwitchModel, SetRoute, LearnRoute, Rerouted, AddItem, Edit
  <2> QED  BY <2>1, DisturbedSpares
<1>4. CASE SiRestart
  BY <1>0, <1>2, <1>4 DEF SiRestart
<1>5. CASE UNCHANGED siVars
  BY <1>1, <1>5 DEF siVars, siChannelVars
<1>6. ASSUME NEW p \in SiProcs, SiSync(p) \/ SiProject(p) \/ SiSwitch(p) \/ SiFail(p)
      PROVE  AnotherSpared'
  BY <1>1, <1>6, OthersDisturb, DisturbedSpares
<1> QED  BY <1>3, <1>4, <1>5, <1>6, TaskSpares DEF SoNext, SiNext

LEMMA SparedStep ==
  ASSUME Shape, AnotherSpared, [SoNext]_siVars
  PROVE  SparesOne
<1> DEFINE s == siProc[SiTask]
<1>0. /\ s \in Places /\ Retires(s) /\ DOMAIN siProc = Goroutines /\ SiTask \in Goroutines
      /\ siCache \in [SiChannels -> ChannelRows \cup {SiNone}]
  BY Constants DEF Shape, PlacesFit, Fits, SiTypeOK
<1>1. SUFFICES ASSUME s.pc = "cache", ~s.switch.to, siProc'[SiTask].pc = "judge", s.clean, s.made = {}
               PROVE  \E c \in Siblings : IsOn(c)'
  BY DEF SparesOne, TaskAt
<1>2. PICK c \in Siblings \ {s.cur} : IsOn(c)
  BY <1>1 DEF AnotherSpared, SparesAnother, Retiring, AtSwitch, Siblings
<1>3. SwitchCache(SiTask)
  <2>1. ASSUME siProc'[SiTask] \in {s, Disturbed(s), Idle}
        PROVE  FALSE
    BY <1>0, <1>1, <2>1 DEF Disturbed, Idle, Places
  <2>2. ~SiEdit
    BY <1>0, <2>1 DEF SiEdit, SwitchAccount, ResetRoutes, AddKey, EditKey, DeleteKey, SetKeys,
       SetProjectionDisabled, AddModel, DeleteModel, SwitchModel, SetRoute, LearnRoute, Rerouted, AddItem, Edit
  <2>3. ~SiRestart /\ ~UNCHANGED siVars
    BY <1>0, <2>1 DEF SiRestart, siVars
  <2>4. ~\E p \in SiProcs : SiSync(p) \/ SiProject(p) \/ SiSwitch(p) \/ SiFail(p)
    BY <2>1, OthersDisturb
  <2>5. Outliers
    BY <2>2, <2>3, <2>4 DEF SoNext, SiNext
  <2> QED  BY <1>1, <2>5 DEF Outliers, OutlierStart, Gather, Mark, Enable, Clear, Recover, Judge, Judged,
                            Retire, Disable, TakeOff, OutlierFail, SiSwitch, SwitchRow, TaskAt
<1>4. siCache' = [siCache EXCEPT ![s.cur] = [s.switch.copy EXCEPT !.on = s.switch.to]]
  BY <1>0, <1>1, <1>3 DEF SwitchCache, Retires, AtSwitch
<1>5. siCache'[c] = siCache[c]
  BY <1>0, <1>2, <1>4
<1> QED  BY <1>2, <1>5 DEF IsOn

(* The last of the channels a round listed that is on is not retired as an   *)
(* outlier of its own, however many channels there are and however long its  *)
(* probe took (task/site_outlier.go).                                        *)
THEOREM OneIsSpared == SoSpec => RetireSparesOne
<1>1. SiInit => Shape /\ AnotherSpared
  <2>1. SiInit => siProc[SiTask] = Idle
    BY Constants DEF SiInit
  <2> QED  BY <2>1, ShapeInit DEF AnotherSpared, SparesAnother, Idle, TakesOff, Retiring, AtSwitch
<1>2. Shape /\ AnotherSpared /\ [SoNext]_siVars => Shape' /\ AnotherSpared'
  BY ShapeStep, AnotherStep
<1>3. Shape /\ AnotherSpared /\ [SoNext]_siVars => [SparesOne]_siVars
  BY SparedStep
<1> QED  BY <1>1, <1>2, <1>3, PTL DEF SoSpec, RetireSparesOne

-----------------------------------------------------------------------------
(* What a projection leaves *)

\* A name is bound to one channel.
OneBinding ==
  \A c, d \in SiChannels : siBindings[c] # SiNone /\ siBindings[c] = siBindings[d] => c = d

\* The names a goroutine, and the tables, have for a channel: there is one.
Mentions(s, n, c) ==
  \/ <<n, c>> \in s.bound \cup s.made
  \/ s.pc \in {"update", "bind", "join"} /\ s.cur.c = c /\ s.cur.row.name = n
Called(n, c) ==
  \/ siDb[c] # SiNone /\ siDb[c].name = n
  \/ siBindings[c] = n
  \/ \E p \in SiProcs : Mentions(siProc[p], n, c)
OneName == \A c \in SiChannels : \A n, m \in Names : Called(n, c) /\ Called(m, c) => n = m

\* A channel the goroutine is switching off.
Turning(s, c) == AtSwitch(s) /\ s.switch.c = c
Wants(s, n) == \E w \in s.want : w.name = n

\* What it read is what is there: the rows, and the cache, but for its own switch.
UpToDate(s) ==
  /\ s.want = Wanted /\ s.saw = PausedGroups
  /\ IF s.pc = "cache"
     THEN siDb = [siCache EXCEPT ![s.switch.c] = [s.switch.copy EXCEPT !.on = FALSE]]
     ELSE siCache = siDb
  /\ AtSwitch(s) => s.switch.copy = siCache[s.switch.c]

\* An account that is off: the channels seen to so far are off.
GoesOff(s) == s.pc = "off" \/ (AtSwitch(s) /\ s.switch.back = "off")
OffSoFar(s) ==
  /\ ~siOn /\ s.made = {}
  /\ \A c \in SiChannels : siBindings[c] # SiNone
       => <<siBindings[c], c>> \in s.todo \/ IsOff(c) \/ Turning(s, c)

\* The buckets handled so far have their channels; the other names' are bound as listed.
InHand(s) == IF s.pc \in {"update", "create", "bind"} THEN {s.cur.row} ELSE {}
Handled(s) == s.want \ s.todo
BoundAsListed(s) ==
  \A n \in Names : (\A w \in Handled(s) \cup InHand(s) : w.name # n) => Bound(s.bound, n) = Bound(Entries, n)
HandledStand(s) ==
  /\ \A w \in Handled(s) : \E c \in SiChannels :
       <<w.name, c>> \in s.made /\ siBindings[c] = w.name /\ siDb[c] = w
  /\ \A e \in s.made : siBindings[e[2]] = e[1] /\ \E w \in Handled(s) : w.name = e[1]
LoopSoFar(s) ==
  /\ siOn /\ HandledStand(s)
  /\ s.pc # "list" => BoundAsListed(s)
  /\ InHand(s) \subseteq s.todo
  /\ s.pc = "update" => siBindings[s.cur.c] = s.cur.row.name /\ siDb[s.cur.c] # SiNone
  /\ s.pc = "bind" => siDb[s.cur.c] = s.cur.row

\* The buckets are done.  Of what is bound beside them, some is still to go; the channels of
\* paused groups go off, and so do the retired ones, which the projection had switched on.
Cleans(s) == s.pc \in {"stale", "unbind"} \/ (AtSwitch(s) /\ s.switch.back = "stale")
WantedStand(s) ==
  \A w \in s.want : \E c \in SiChannels :
    /\ siBindings[c] = w.name
    /\ \/ <<w.name, c>> \in s.made /\ siDb[c] = w
       \/ siDb[c] = [w EXCEPT !.on = siRetired[c] = SiNone]
       \/ s.pc = "switch" /\ s.switch.c = c /\ siDb[c] = w /\ siRetired[c] # SiNone
OthersGo(s) ==
  \A c \in SiChannels : siBindings[c] # SiNone =>
    \/ Wants(s, siBindings[c]) \/ <<siBindings[c], c>> \in s.todo
    \/ siBindings[c][1] \in s.saw /\ (IsOff(c) \/ Turning(s, c))
    \/ s.pc = "unbind" /\ s.cur = c
ItemsStand(s) ==
  \A i \in siItems : LET n == siBindings[i[2]] IN
    n = SiNone \/ n[1] \in s.saw \/ \E w \in s.want : w.name = n /\ i[1] \in w.models
CleanSoFar(s) ==
  /\ siOn /\ WantedStand(s) /\ OthersGo(s) /\ ItemsStand(s)
  /\ \A e \in s.made : siBindings[e[2]] = e[1] /\ Wants(s, e[1])
  /\ \A e \in s.todo : siBindings[e[2]] = e[1] /\ ~Wants(s, e[1])
  /\ s.pc = "unbind" => ~Wants(s, siBindings[s.cur]) /\ \A e \in s.todo : e[2] # s.cur
  /\ AtSwitch(s) => LET n == siBindings[s.switch.c] IN
       n # SiNone /\ IF Wants(s, n) THEN s.todo = {} /\ siRetired[s.switch.c] # SiNone
                                          /\ <<n, s.switch.c>> \notin s.made
                     ELSE n[1] \in s.saw
Undisturbed(s) ==
  /\ UpToDate(s)
  /\ GoesOff(s) => OffSoFar(s)
  /\ InLoop(s) => LoopSoFar(s)
  /\ Cleans(s) => CleanSoFar(s)
AllUndisturbed == \A p \in SiProcs : siProc[p].clean => Undisturbed(siProc[p])

\* The cached keys being the table's, the diff leaves the keys that are wanted.
LEMMA KeysSettle ==
  ASSUME NEW keys, NEW want
  PROVE  KeysAfter(keys, keys, want) = want
<1> DEFINE same == {k \in want : \A u \in keys : u[1] = k[1] <=> u = k} \cap keys
           after == {k \in keys : k[1] \notin Named(keys) \/ k[1] \in Named(same)}
                      \cup {k \in want : k[1] \notin Named(keys)}
                      \cup {k \in want \ same : k[1] \in Named(keys) \cap Named(keys)}
<1>1. KeysAfter(keys, keys, want) = after
  BY DEF KeysAfter
<1>2. \A k \in same : k \in want /\ k \in keys /\ \A u \in keys : u[1] = k[1] => u = k
  OBVIOUS
<1>3. \A S : Named(S) = {k[1] : k \in S}
  BY DEF Named
<1> HIDE DEF same
<1>4. after \subseteq want
  BY <1>2, <1>3
<1>5. want \subseteq after
  BY <1>2, <1>3
<1> QED  BY <1>1, <1>4, <1>5

LEMMA WantedFacts ==
  ASSUME NEW w \in Wanted
  PROVE  /\ siOn /\ w.on = TRUE /\ w.models = Bucket(w.name[1], w.name[2]) /\ w.name \in Names
         /\ w = [w EXCEPT !.on = TRUE]
         /\ \A v \in Wanted : v.name = w.name => v = w
         /\ \A v \in Wanted : v.name[1] = w.name[1] /\ v.models \cap w.models # {} => v = w
<1> DEFINE Row(n) == [name |-> n, models |-> Bucket(n[1], n[2]), on |-> TRUE,
                      keys |-> {<<t.name, t.on>> : t \in Usable(n[1])}]
<1>1. \A v \in Wanted : v.name \in Names /\ v = Row(v.name)
  BY DEF Wanted
<1>2. siOn
  BY DEF Wanted
<1>3. \A v \in Wanted : v.on = TRUE /\ v.models = Bucket(v.name[1], v.name[2])
  BY <1>1
<1>4. w = [w EXCEPT !.on = TRUE]
  BY <1>1
<1>5. \A v \in Wanted : v.name = w.name => v = w
  BY <1>1
<1>6. ASSUME NEW v \in Wanted, v.name[1] = w.name[1], NEW m \in v.models \cap w.models
      PROVE  v = w
  <2>1. m \in Bucket(v.name[1], v.name[2]) /\ m \in Bucket(w.name[1], w.name[2])
    BY <1>3, <1>6
  <2>2. v.name[2] = w.name[2]
    BY <1>6, <2>1 DEF Bucket
  <2>3. v.name = w.name
    BY <1>1, <1>6, <2>2 DEF Names
  <2> QED  BY <1>5, <2>3
<1> QED  BY <1>1, <1>2, <1>3, <1>4, <1>5, <1>6

LEMMA RowsStay ==
  ASSUME UNCHANGED siRows
  PROVE  Wanted' = Wanted /\ PausedGroups' = PausedGroups /\ siOn' = siOn
BY DEF siRows, Wanted, PausedGroups, ActiveGroup, Usable, Bucket

\* Nobody stays undisturbed, nor the account projected, but by leaving the tables alone.
LEMMA CleanSteps ==
  ASSUME Shape, [SoNext]_siVars
  PROVE  /\ \A p \in SiProcs : siProc'[p].clean =>
              \/ siProc'[p] = siProc[p] /\ UNCHANGED <<siRows, siChannelVars>>
              \/ SiSync(p) \/ SiProject(p) \/ SiSwitch(p) \/ SiFail(p)
         /\ siFresh' => /\ UNCHANGED <<siRows, siChannelVars>>
                        /\ siFresh \/ (\E p \in SiProcs : Projected(p) /\ siProc[p].clean)
<1>0. DOMAIN siProc = Goroutines /\ siProc \in [Goroutines -> Places] /\ SiTask \in Goroutines
      /\ SiProcs \subseteq Goroutines /\ SiTask \notin SiProcs
  BY Constants DEF Shape, PlacesFit
<1>1. ASSUME NEW q \in Goroutines, NEW to, Wrote(q, to)
      PROVE  siFresh' = FALSE /\ \A p \in SiProcs \ {q} : siProc'[p].clean = FALSE
  <2>1. \A p \in SiProcs \ {q} : siProc'[p] = Disturbed(siProc[p]) /\ siProc[p] \in Places
    BY <1>0, <1>1 DEF Wrote
  <2>2. \A s \in Places : Disturbed(s).clean = FALSE
    BY DEF Disturbed, Places
  <2> QED  BY <1>1, <2>1, <2>2 DEF Wrote
<1>2. ASSUME NEW q \in Goroutines, NEW to, Quiet(q, to)
      PROVE  siFresh' = siFresh /\ \A p \in SiProcs \ {q} : siProc'[p] = siProc[p]
  BY <1>0, <1>2 DEF Quiet
<1>3. ASSUME NEW q \in SiProcs, Projected(q)
      PROVE  siFresh' = siProc[q].clean /\ \A p \in SiProcs \ {q} : siProc'[p] = siProc[p]
  BY <1>0, <1>3 DEF Projected
<1>4. CASE SiEdit
  <2>1. siFresh' = FALSE /\ siProc' = [p \in Goroutines |-> Disturbed(siProc[p])]
    BY <1>0, <1>4 DEF SiEdit, SwitchAccount, ResetRoutes, AddKey, EditKey, DeleteKey, SetKeys,
       SetProjectionDisabled, AddModel, DeleteModel, SwitchModel, SetRoute, LearnRoute, Rerouted, AddItem, Edit
  <2>2. \A s \in Places : Disturbed(s).clean = FALSE
    BY DEF Disturbed, Places
  <2> QED  BY <1>0, <2>1, <2>2
<1>5. CASE SiRestart
  <2>1. siFresh' = FALSE /\ siProc' = [p \in Goroutines |-> Idle]
    BY <1>0, <1>5 DEF SiRestart
  <2> QED  BY <1>0, <2>1 DEF Idle
<1>6. CASE Outliers
  BY <1>0, <1>1, <1>2, <1>6, TaskIsStill
<1>7. ASSUME NEW q \in SiProcs, SiSync(q) \/ SiProject(q) \/ SiSwitch(q) \/ SiFail(q)
      PROVE  /\ \A p \in SiProcs \ {q} : siProc'[p].clean =>
                  siProc'[p] = siProc[p] /\ UNCHANGED <<siRows, siChannelVars>>
             /\ siFresh' => /\ UNCHANGED <<siRows, siChannelVars>>
                            /\ siFresh \/ (Projected(q) /\ siProc[q].clean)
  <2>0. q \in Goroutines
    BY <1>0
  <2>1. CASE \E to : Wrote(q, to)
    BY <1>1, <2>0, <2>1
  <2>2. CASE UNCHANGED <<siRows, siChannelVars>> /\ \E to : Quiet(q, to)
    <3>1. siFresh' = siFresh /\ \A p \in SiProcs \ {q} : siProc'[p] = siProc[p]
      BY <1>2, <2>0, <2>2
    <3>2. siFresh \in BOOLEAN
      BY DEF Shape, SiTypeOK
    <3>3. siFresh' => UNCHANGED <<siRows, siChannelVars>> /\ siFresh
      BY <2>2, <3>1, <3>2
    <3>4. \A p \in SiProcs \ {q} : siProc'[p].clean =>
             siProc'[p] = siProc[p] /\ UNCHANGED <<siRows, siChannelVars>>
      BY <2>2, <3>1
    <3> QED  BY <3>3, <3>4
  <2>3. CASE UNCHANGED <<siRows, siChannelVars>> /\ Projected(q)
    <3>1. siFresh' = siProc[q].clean /\ \A p \in SiProcs \ {q} : siProc'[p] = siProc[p]
      BY <1>3, <2>3
    <3> QED  BY <2>3, <3>1
  <2> QED  BY <1>7, <2>1, <2>2, <2>3, QuietIsStill
<1>8. CASE \E q \in SiProcs : SiSync(q) \/ SiProject(q) \/ SiSwitch(q) \/ SiFail(q)
  BY <1>7, <1>8
<1>9. CASE UNCHANGED siVars
  BY <1>9 DEF siVars
<1> QED  BY <1>4, <1>5, <1>6, <1>8, <1>9 DEF SoNext, SiNext

\* How the bindings change.
LEMMA BindingSteps ==
  ASSUME Shape, [SoNext]_siVars
  PROVE  \/ siBindings' = siBindings
         \/ \E p \in SiProcs : Bucketed(p) \/ Bind(p) \/ Unbind(p)
<1>1. ASSUME NEW p \in SiProcs, SiProject(p), ~Bucketed(p), ~Bind(p), ~Unbind(p)
      PROVE  siBindings' = siBindings
  BY <1>1 DEF SiProject, ProjectStart, Load, List, Off, Update, Create, Join, Rewrite, RewriteSome, Stale,
              KeepRetired, Projected, siChannelVars
<1>2. ASSUME NEW p \in Goroutines, SiSync(p) \/ SiSwitch(p) \/ SiFail(p)
      PROVE  siBindings' = siBindings
  BY <1>2 DEF SiSync, SyncStart, Persist, MarkStale, SiSwitch, SwitchRow, SwitchCache, SiFail, RewriteSome,
              siChannelVars
<1>3. CASE SiEdit
  BY <1>3 DEF SiEdit, SwitchAccount, ResetRoutes, AddKey, EditKey, DeleteKey, SetKeys, siChannelVars,
       SetProjectionDisabled, AddModel, DeleteModel, SwitchModel, SetRoute, LearnRoute, Rerouted, AddItem, Edit
<1>4. CASE SiRestart
  BY <1>4 DEF SiRestart
<1>5. CASE Outliers
  BY <1>2, <1>5, Constants DEF Outliers, OutlierStart, Gather, Mark, Enable, Clear, Recover, Judge, Judged, Retire, Retired,
              Disable, TakeOff, OutlierFail, siChannelVars
<1>6. CASE UNCHANGED siVars
  BY <1>6 DEF siVars, siChannelVars
<1> QED  BY <1>1, <1>2, <1>3, <1>4, <1>5, <1>6, Constants DEF SoNext, SiNext

LEMMA BoundEntries ==
  \A n, c : c \in Bound(Entries, n) <=> c \in SiChannels /\ siBindings[c] = n /\ n # SiNone
<1> SUFFICES ASSUME NEW n, NEW c
             PROVE  c \in Bound(Entries, n) <=> c \in SiChannels /\ siBindings[c] = n /\ n # SiNone
  OBVIOUS
<1> DEFINE held == {d \in SiChannels : siBindings[d] # SiNone}
<1>1. Entries = {<<siBindings[d], d>> : d \in held}
  BY DEF Entries
<1>2. c \in Bound(Entries, n) <=> \E e \in Entries : e[1] = n /\ e[2] = c
  BY DEF Bound
<1>3. ASSUME NEW e \in Entries, e[1] = n, e[2] = c
      PROVE  c \in held /\ siBindings[c] = n
  BY <1>1, <1>3
<1>4. c \in held => <<siBindings[c], c>> \in Entries
  BY <1>1
<1> QED  BY <1>2, <1>3, <1>4

LEMMA BoundPairs ==
  ASSUME NEW B \in SUBSET Binding
  PROVE  \A n, c : c \in Bound(B, n) <=> <<n, c>> \in B
<1>1. \A e \in B : e = <<e[1], e[2]>>
  BY DEF Binding
<1> QED  BY <1>1 DEF Bound

LEMMA OneBindingStep ==
  ASSUME Shape, OneBinding, [SoNext]_siVars
  PROVE  OneBinding'
<1>0. siBindings \in [SiChannels -> Names \cup {SiNone}]
  BY DEF Shape, SiTypeOK
<1>1. CASE siBindings' = siBindings
  BY <1>1 DEF OneBinding
<1>2. ASSUME NEW c \in SiChannels, siBindings' = [siBindings EXCEPT ![c] = SiNone]
      PROVE  OneBinding'
  BY <1>0, <1>2 DEF OneBinding
<1>3. ASSUME NEW c \in SiChannels, NEW n, siBindings' = [siBindings EXCEPT ![c] = n], Bound(Entries, n) = {}
      PROVE  OneBinding'
  <2>1. n # SiNone => \A d \in SiChannels : siBindings[d] # n
    BY <1>3, BoundEntries
  <2> QED  BY <1>0, <1>3, <2>1 DEF OneBinding
<1>4. ASSUME NEW p \in SiProcs, Bucketed(p) \/ Bind(p) \/ Unbind(p)
      PROVE  OneBinding'
  <2> DEFINE s == siProc[p]
  <2>0. s \in Places /\ Projects(s)
    BY Constants DEF Shape, PlacesFit, Fits
  <2>1. CASE Bucketed(p)
    <3>1. \A n : Bound(s.bound, n) \subseteq SiChannels
      BY <2>0, EndsAreChannels DEF Places
    <3>2. \/ siBindings' = siBindings
          \/ \E c \in SiChannels : siBindings' = [siBindings EXCEPT ![c] = SiNone]
          \/ \E c \in SiChannels, n \in Names :
               siBindings' = [siBindings EXCEPT ![c] = n] /\ Bound(Entries, n) = {}
      <4>1. PICK w \in s.todo :
              \/ siBindings' = siBindings
              \/ \E c \in Bound(s.bound, w.name) : siBindings' = [siBindings EXCEPT ![c] = SiNone]
              \/ \E c \in SiChannels :
                   siBindings' = [siBindings EXCEPT ![c] = w.name] /\ Bound(Entries, w.name) = {}
        BY <2>1 DEF Bucketed
      <4>2. w.name \in Names
        BY <2>0, <2>1 DEF Bucketed, Projects, InLoop, ChannelRows
      <4> QED  BY <3>1, <4>1, <4>2
    <3> QED  BY <1>1, <1>2, <1>3, <3>2
  <2>2. CASE Bind(p)
    <3>1. s.cur.c \in SiChannels
      BY <2>0, <2>2 DEF Bind, Projects
    <3> QED  BY <1>1, <1>3, <2>2, <3>1 DEF Bind
  <2>3. CASE Unbind(p)
    <3>1. s.cur \in SiChannels
      BY <2>0, <2>3 DEF Unbind, Projects
    <3> QED  BY <1>2, <2>3, <3>1 DEF Unbind
  <2> QED  BY <1>4, <2>1, <2>2, <2>3
<1> QED  BY <1>1, <1>4, BindingSteps

\* What a goroutine calls a channel, its steps aside.
LEMMA OthersMention ==
  ASSUME Shape, NEW p \in SiProcs,
         siProc'[p] = siProc[p] \/ siProc'[p] = Disturbed(siProc[p]) \/ siProc'[p] = Idle,
         NEW n, NEW c, Mentions(siProc'[p], n, c)
  PROVE  Mentions(siProc[p], n, c)
<1>1. siProc[p] \in Places
  BY Constants DEF Shape, PlacesFit
<1> QED  BY <1>1 DEF Mentions, Disturbed, Idle, Places

\* Where a goroutine stands that does not take the step.
LEMMA OthersMove ==
  ASSUME Shape, NEW p \in SiProcs, [SoNext]_siVars, ~(SiSync(p) \/ SiProject(p) \/ SiSwitch(p) \/ SiFail(p))
  PROVE  siProc'[p] = siProc[p] \/ siProc'[p] = Disturbed(siProc[p]) \/ siProc'[p] = Idle
<1>0. DOMAIN siProc = Goroutines /\ p \in Goroutines /\ p # SiTask
  BY Constants DEF Shape, PlacesFit
<1>1. ASSUME NEW q, q # p, NEW to, Quiet(q, to) \/ Wrote(q, to)
      PROVE  siProc'[p] = siProc[p] \/ siProc'[p] = Disturbed(siProc[p])
  BY <1>0, <1>1 DEF Quiet, Wrote
<1>2. ASSUME NEW q \in SiProcs, SiSync(q) \/ SiProject(q) \/ SiSwitch(q) \/ SiFail(q)
      PROVE  siProc'[p] = siProc[p] \/ siProc'[p] = Disturbed(siProc[p])
  <2>1. q # p
    BY <1>2
  <2>2. CASE Projected(q)
    BY <1>0, <2>1, <2>2 DEF Projected
  <2> QED  BY <1>1, <1>2, <2>1, <2>2, QuietIsStill
<1>3. CASE Outliers
  BY <1>0, <1>1, <1>3, TaskIsStill
<1>4. CASE SiEdit
  BY <1>0, <1>4 DEF SiEdit, SwitchAccount, ResetRoutes, AddKey, EditKey, DeleteKey, SetKeys,
     SetProjectionDisabled, AddModel, DeleteModel, SwitchModel, SetRoute, LearnRoute, Rerouted, AddItem, Edit
<1>5. CASE SiRestart
  BY <1>0, <1>5 DEF SiRestart
<1>6. CASE UNCHANGED siVars
  BY <1>6 DEF siVars
<1> QED  BY <1>2, <1>3, <1>4, <1>5, <1>6 DEF SoNext, SiNext

LEMMA FreshIsUncalled ==
  ASSUME Shape, NEW c \in SiChannels, FreshChannel(c), NEW n \in Names
  PROVE  ~Called(n, c)
<1>1. siDb[c] = SiNone /\ siBindings[c] = SiNone /\ n # SiNone
  BY Constants DEF FreshChannel
<1>2. ASSUME NEW p \in SiProcs, Mentions(siProc[p], n, c)
      PROVE  FALSE
  <2>1. c \notin Holds(siProc[p])
    BY Constants DEF FreshChannel, Shape, PlacesFit
  <2>2. CASE <<n, c>> \in siProc[p].bound \cup siProc[p].made
    <3>1. c \in Ends(siProc[p].bound \cup siProc[p].made)
      BY <2>2 DEF Ends
    <3> QED  BY <2>1, <3>1 DEF Holds
  <2> QED  BY <1>2, <2>1, <2>2 DEF Mentions, Holds
<1> QED  BY <1>1, <1>2 DEF Called

\* What a goroutine's own step mentions was called so, or is a channel just created.
LEMMA OwnMentions ==
  ASSUME Shape, NEW p \in SiProcs, SiSync(p) \/ SiProject(p) \/ SiSwitch(p) \/ SiFail(p), ~Create(p),
         NEW n \in Names, NEW c \in SiChannels, Mentions(siProc'[p], n, c)
  PROVE  Called(n, c)
<1> DEFINE s == siProc[p]
           to == siProc'[p]
<1>0. s \in Places /\ Projects(s) /\ DOMAIN siProc = Goroutines /\ p \in Goroutines
  BY Constants DEF Shape, PlacesFit, Fits
<1>a. \A new : Quiet(p, new) \/ Wrote(p, new) => to = new
  BY <1>0 DEF Quiet, Wrote
<1>b. ASSUME Mentions(s, n, c) PROVE Called(n, c)
  BY <1>b DEF Called
<1>c. to.bound # {} \/ to.made # {} \/ to.pc \in {"update", "bind", "join"}
  BY DEF Mentions
<1>1. CASE SiSync(p)
  <2>1. to.bound = {} /\ to.made = {} /\ to.pc \in {"idle", "failed", "persist", "load"}
    <3>1. \/ to = Idle \/ to = [Idle EXCEPT !.pc = "load"]
          \/ \E a : to = [Idle EXCEPT !.pc = IF a = SiNone THEN "failed" ELSE "persist",
                                     !.answer = a, !.saw = KnownGroups]
      BY <1>1, <1>a DEF SiSync, SyncStart, Persist, MarkStale
    <3>2. CASE to = Idle \/ to = [Idle EXCEPT !.pc = "load"]
      BY <3>2 DEF Idle
    <3>3. ASSUME NEW a, to = [Idle EXCEPT !.pc = IF a = SiNone THEN "failed" ELSE "persist",
                                          !.answer = a, !.saw = KnownGroups]
          PROVE  to.bound = {} /\ to.made = {} /\ to.pc \in {"failed", "persist"}
      BY <3>3 DEF Idle
    <3> QED  BY <3>1, <3>2, <3>3
  <2> QED  BY <1>c, <2>1
<1>2. CASE to = Idle \/ ProjectStart(p) \/ Load(p) \/ Projected(p)
  <2>1. to.bound = {} /\ to.made = {} /\ to.pc \in {"idle", "list", "off"}
    <3>1. to = Loaded \/ to = Idle
      BY <1>0, <1>2, <1>a DEF ProjectStart, Load, Projected
    <3>2. Loaded.bound = {} /\ Loaded.made = {} /\ Loaded.pc \in {"list", "off"}
      BY DEF Loaded, Idle
    <3>3. Idle.bound = {} /\ Idle.made = {} /\ Idle.pc = "idle"
      BY DEF Idle
    <3> QED  BY <3>1, <3>2, <3>3
  <2> QED  BY <1>c, <2>1
<1>3. CASE List(p)
  <2>1. to = [s EXCEPT !.pc = "bucket", !.bound = Entries]
    BY <1>3, <1>a DEF List
  <2>2. <<n, c>> \in s.made \/ <<n, c>> \in Entries
    BY <1>0, <2>1 DEF Places, Mentions
  <2>3. <<n, c>> \in Entries => siBindings[c] = n
    BY DEF Entries
  <2> QED  BY <1>b, <2>2, <2>3 DEF Mentions, Called
\* Where nothing is added to what is bound and made, and no bucket is taken up.
<1>d. ASSUME to.bound = s.bound, to.made \subseteq s.made, to.pc \notin {"update", "bind", "join"}
      PROVE  Called(n, c)
  BY <1>b, <1>d DEF Mentions
<1>4. CASE Off(p) \/ Stale(p) \/ Unbind(p) \/ KeepRetired(p) \/ Rewrite(p) \/ SiSwitch(p) \/ Join(p)
  <2>1. CASE Off(p) \/ Stale(p) \/ KeepRetired(p)
    <3>1. PICK then, d : /\ to = then \/ to = Switching(d, FALSE, then)
                         /\ then.bound = s.bound /\ then.made \subseteq s.made
                         /\ then.pc \in {"off", "stale", "unbind"} /\ then \in Places
      <4>2. CASE Off(p)
        <5>1. PICK e \in s.todo : to = Switching(e[2], FALSE, [s EXCEPT !.todo = @ \ {e}])
          BY <1>a, <4>2 DEF Off
        <5>2. LET then == [s EXCEPT !.todo = @ \ {e}] IN
                then.bound = s.bound /\ then.made = s.made /\ then.pc = "off" /\ then \in Places
          BY <1>0, <4>2 DEF Places, Off
        <5> QED  BY <5>1, <5>2
      <4>3. CASE Stale(p)
        <5>1. PICK e \in s.todo :
                \/ to = Switching(e[2], FALSE, [s EXCEPT !.todo = @ \ {e}])
                \/ to = [[s EXCEPT !.todo = @ \ {e}] EXCEPT !.pc = "unbind", !.cur = e[2]]
          BY <1>a, <4>3 DEF Stale
        <5>2. e[2] \in SiChannels /\ s.pc = "stale"
          BY <1>0, <4>3 DEF Stale, Projects, Binding
        <5>3. LET then == [s EXCEPT !.todo = @ \ {e}] IN
                then.bound = s.bound /\ then.made = s.made /\ then.pc = "stale" /\ then \in Places
          BY <1>0, <5>2 DEF Places
        <5>4. LET then == [[s EXCEPT !.todo = @ \ {e}] EXCEPT !.pc = "unbind", !.cur = e[2]] IN
                then.bound = s.bound /\ then.made = s.made /\ then.pc = "unbind" /\ then \in Places
          BY <1>0, <5>2, AllPoints DEF Places
        <5> QED  BY <5>1, <5>3, <5>4
      <4>4. CASE KeepRetired(p)
        <5>1. PICK e \in s.made :
                \/ to = Switching(e[2], FALSE, [s EXCEPT !.made = @ \ {e}])
                \/ to = [s EXCEPT !.made = @ \ {e}]
          BY <1>a, <4>4 DEF KeepRetired
        <5>2. LET then == [s EXCEPT !.made = @ \ {e}] IN
                then.bound = s.bound /\ then.made \subseteq s.made /\ then.pc = "stale" /\ then \in Places
          BY <1>0, <4>4 DEF Places, KeepRetired
        <5> QED  BY <5>1, <5>2
      <4> QED  BY <2>1, <4>2, <4>3, <4>4
    <3>2. to = then \/ \E sw : to = [then EXCEPT !.pc = "switch", !.switch = sw]
      BY <3>1 DEF Switching
    <3>3. to.bound = then.bound /\ to.made = then.made /\ to.pc \in {then.pc, "switch"}
      BY <3>1, <3>2 DEF Places
    <3> QED  BY <1>d, <3>1, <3>3
  <2>2. CASE Unbind(p) \/ Join(p) \/ SiSwitch(p)
    <3>1. s.pc \in {"unbind", "join", "switch", "cache"}
      BY <2>2 DEF Unbind, Join, SiSwitch, SwitchRow, SwitchCache
    <3>2. \/ \E pc \in {"stale", "bucket"} : to = [s EXCEPT !.pc = pc, !.cur = SiNone]
          \/ to = [s EXCEPT !.pc = "cache"]
          \/ AtSwitch(s) /\ to = [s EXCEPT !.pc = s.switch.back, !.switch = NoSwitch]
      BY <2>2, <1>a DEF Unbind, Join, SiSwitch, SwitchRow, SwitchCache, AtSwitch
    <3>3. to.bound = s.bound /\ to.made = s.made /\ to.pc \in {"stale", "bucket", "cache", "off"}
      BY <1>0, <3>2 DEF Places, Projects
    <3> QED  BY <1>d, <3>3
  <2>3. CASE Rewrite(p)
    <3>1. to = Idle \/ to = [s EXCEPT !.pc = "stale",
                                      !.todo = {e \in s.bound : \A w \in s.want : w.name # e[1]}]
      BY <2>3, <1>a DEF Rewrite, RewriteSome
    <3>2. to # Idle => to.bound = s.bound /\ to.made = s.made /\ to.pc = "stale"
      BY <1>0, <3>1 DEF Places
    <3> QED  BY <1>2, <1>d, <3>2
  <2> QED  BY <1>4, <2>1, <2>2, <2>3
<1>5. CASE Bucketed(p)
  <2>1. PICK w, d, pc :
          /\ to = Idle \/ to = [s EXCEPT !.pc = pc, !.cur = [row |-> w, c |-> d]]
          /\ pc = "update" => \/ d \in Bound(s.bound, w.name)
                              \/ d \in SiChannels /\ siDb[d] # SiNone /\ siDb[d].name = w.name
          /\ pc \in {"update", "create"}
    BY ZenonT(60), <1>5, <1>a DEF Bucketed
  <2>2. ASSUME to # Idle
        PROVE  to.bound = s.bound /\ to.made = s.made /\ to.pc = pc /\ to.cur = [row |-> w, c |-> d]
    BY <1>0, <2>1, <2>2 DEF Places
  <2>3. CASE to # Idle /\ pc = "update"
    <3>1. d \in Bound(s.bound, w.name) => <<w.name, d>> \in s.bound
      BY <1>0, BoundPairs DEF Places
    <3>2. Called(w.name, d)
      BY <2>1, <2>3, <3>1 DEF Called, Mentions
    <3>3. Mentions(s, n, c) \/ (d = c /\ w.name = n)
      BY <2>2, <2>3 DEF Mentions
    <3> QED  BY <1>b, <3>2, <3>3
  <2> QED  BY <1>2, <1>d, <2>1, <2>2, <2>3
<1>6. CASE (Update(p) \/ Bind(p)) /\ to # Idle
  <2>1. to = Bucketless(p, s.cur.c) /\ s.pc \in {"update", "bind"}
    BY <1>6, <1>a DEF Update, Bind
  <2>2. s.cur \in Buckets
    BY <1>0, <2>1 DEF Projects
  <2>3. /\ to.bound = s.bound /\ to.made = s.made \cup {<<s.cur.row.name, s.cur.c>>}
        /\ to.pc = "bucket" \/ (to.pc = "join" /\ to.cur = s.cur)
    BY <1>0, <2>1, <2>2 DEF Bucketless, Places, Buckets
  <2>4. Mentions(s, n, c)
    BY <2>1, <2>3 DEF Mentions
  <2> QED  BY <1>b, <2>4
<1>7. CASE SiFail(p) /\ to # Idle
  <2>1. \/ /\ s.pc \in {"switch", "join"}
           /\ to = [s EXCEPT !.switch = NoSwitch, !.clean = FALSE,
                             !.pc = IF @ = "switch" THEN s.switch.back ELSE "bucket",
                             !.cur = IF s.pc = "join" THEN SiNone ELSE @]
        \/ \E e \in s.todo : to = [s EXCEPT !.pc = "unbind", !.cur = e[2], !.clean = FALSE, !.todo = @ \ {e}]
        \/ \E e \in s.made : s.pc = "stale" /\ to = [s EXCEPT !.made = @ \ {e}, !.clean = FALSE]
    BY <1>7, <1>a DEF SiFail, RewriteSome
  <2>2. to.bound = s.bound /\ to.made \subseteq s.made /\ to.pc \in {"off", "stale", "bucket", "unbind"}
    <3>1. CASE s.pc = "switch"
      BY <1>0, <2>1, <3>1 DEF Places, Projects, AtSwitch
    <3>2. CASE s.pc # "switch"
      <4>1. CASE s.pc = "join"
        BY <1>0, <2>1, <3>2, <4>1 DEF Places, Projects, InLoop
      <4>2. CASE s.pc # "join"
        BY ZenonT(60), <1>0, <2>1, <3>2, <4>2 DEF Places
      <4> QED  BY <4>1, <4>2
    <3> QED  BY <3>1, <3>2
  <2> QED  BY <1>d, <2>2
<1> QED  BY <1>1, <1>2, <1>3, <1>4, <1>5, <1>6, <1>7 DEF SiProject

\* How the rows of the channels change.
LEMMA DbSteps ==
  ASSUME Shape, [SoNext]_siVars
  PROVE  \/ siDb' = siDb
         \/ \E p \in SiProcs : Update(p) \/ Create(p) \/ Stale(p)
         \/ \E p \in Goroutines : SwitchRow(p)
<1>1. ASSUME NEW p \in SiProcs, SiProject(p), ~Update(p), ~Create(p), ~Stale(p)
      PROVE  siDb' = siDb
  BY <1>1 DEF SiProject, ProjectStart, Load, List, Off, Bucketed, Bind, Join, Rewrite, RewriteSome, Unbind,
              KeepRetired, Projected, siChannelVars
<1>2. ASSUME NEW p \in Goroutines, SiSync(p) \/ SwitchCache(p) \/ SiFail(p)
      PROVE  siDb' = siDb
  BY <1>2 DEF SiSync, SyncStart, Persist, MarkStale, SwitchCache, SiFail, RewriteSome, siChannelVars
<1>3. CASE SiEdit
  BY <1>3 DEF SiEdit, SwitchAccount, ResetRoutes, AddKey, EditKey, DeleteKey, SetKeys, siChannelVars,
       SetProjectionDisabled, AddModel, DeleteModel, SwitchModel, SetRoute, LearnRoute, Rerouted, AddItem, Edit
<1>4. CASE SiRestart
  BY <1>4 DEF SiRestart
<1>5. CASE Outliers /\ ~SwitchRow(SiTask)
  BY <1>2, <1>5, Constants DEF Outliers, OutlierStart, Gather, Mark, Enable, Clear, Recover, Judge, Judged,
              Retire, Retired, Disable, TakeOff, OutlierFail, SiSwitch, siChannelVars
<1>6. CASE UNCHANGED siVars
  BY <1>6 DEF siVars, siChannelVars
<1> QED  BY <1>1, <1>2, <1>3, <1>4, <1>5, <1>6, Constants DEF SoNext, SiNext, SiSwitch

LEMMA CalledStep ==
  ASSUME Shape, [SoNext]_siVars, ~\E p \in SiProcs : Create(p),
         NEW n \in Names, NEW c \in SiChannels, Called(n, c)'
  PROVE  Called(n, c)
<1>0. /\ siDb \in [SiChannels -> ChannelRows \cup {SiNone}] /\ siBindings \in [SiChannels -> Names \cup {SiNone}]
      /\ siProc \in [Goroutines -> Places] /\ \A p \in SiProcs : siProc[p] \in Places /\ Projects(siProc[p])
      /\ n # SiNone
  BY Constants DEF Shape, SiTypeOK, PlacesFit, Fits
<1>1. ASSUME siDb'[c] # SiNone, siDb'[c].name = n
      PROVE  Called(n, c)
  <2>1. ASSUME siDb[c] # SiNone, siDb'[c].name = siDb[c].name
        PROVE  Called(n, c)
    BY <1>1, <2>1 DEF Called
  <2>2. CASE siDb' = siDb
    BY <1>1, <2>1, <2>2
  <2>3. ASSUME NEW p \in SiProcs, Update(p)
        PROVE  Called(n, c)
    <3> DEFINE u == siProc[p].cur
    <3>1. u \in Buckets /\ u.c \in SiChannels /\ siProc[p].pc = "update"
      BY <1>0, <2>3 DEF Update, Projects
    <3>2. \/ siDb' = siDb
          \/ siDb' = [siDb EXCEPT ![u.c] =
                        [u.row EXCEPT !.keys = KeysAfter(siDb[u.c].keys, siCache[u.c].keys, u.row.keys)]]
      BY <2>3 DEF Update
    <3>3. CASE siDb' # siDb /\ u.c = c
      <4>1. siDb'[c].name = u.row.name
        BY <1>0, <3>1, <3>2, <3>3 DEF Buckets, ChannelRows
      <4> QED  BY <1>1, <3>1, <3>3, <4>1 DEF Called, Mentions
    <3>4. CASE siDb' # siDb /\ u.c # c
      BY <1>0, <1>1, <2>1, <3>1, <3>2, <3>4
    <3> QED  BY <2>2, <3>3, <3>4
  <2>4. ASSUME NEW p \in SiProcs, Stale(p)
        PROVE  Called(n, c)
    <3>1. siDb' = siDb \/ \E d : siDb' = [siDb EXCEPT ![d] = SiNone]
      BY <2>4 DEF Stale
    <3> QED  BY <1>0, <1>1, <2>1, <3>1
  <2>5. ASSUME NEW p \in Goroutines, SwitchRow(p)
        PROVE  Called(n, c)
    <3>1. siDb' = siDb \/ \E d, to : siDb' = [siDb EXCEPT ![d].on = to]
      BY <2>5 DEF SwitchRow
    <3>2. siDb'[c].name = siDb[c].name /\ siDb[c] # SiNone
      <4>1. CASE siDb' = siDb
        BY <1>1, <4>1
      <4>2. ASSUME NEW d, NEW to, siDb' = [siDb EXCEPT ![d].on = to], siDb' # siDb
            PROVE  siDb'[c].name = siDb[c].name /\ siDb[c] # SiNone
        <5>1. d = c => SwitchRow(p) /\ siDb[c] # SiNone
          BY <1>0, <2>5, <4>2 DEF SwitchRow
        <5> QED  BY <1>0, <1>1, <4>2, <5>1 DEF ChannelRows
      <4> QED  BY <3>1, <4>1, <4>2
    <3> QED  BY <2>1, <3>2
  <2> QED  BY <2>2, <2>3, <2>4, <2>5, DbSteps
<1>2. ASSUME siBindings'[c] = n
      PROVE  Called(n, c)
  <2>1. CASE siBindings' = siBindings
    BY <1>2, <2>1 DEF Called
  <2>2. ASSUME NEW d \in SiChannels, siBindings' = [siBindings EXCEPT ![d] = SiNone]
        PROVE  Called(n, c)
    BY <1>0, <1>2, <2>2 DEF Called
  <2>3. ASSUME NEW d \in SiChannels, NEW m, siBindings' = [siBindings EXCEPT ![d] = m], d = c => Called(m, d)
        PROVE  Called(n, c)
    BY <1>0, <1>2, <2>3 DEF Called
  <2>4. ASSUME NEW p \in SiProcs, Bucketed(p)
        PROVE  Called(n, c)
    <3>0. \A m : Bound(siProc[p].bound, m) \subseteq SiChannels
      BY <1>0, <2>4, EndsAreChannels DEF Places
    <3>1. \/ siBindings' = siBindings
          \/ \E d \in SiChannels : siBindings' = [siBindings EXCEPT ![d] = SiNone]
          \/ \E d \in SiChannels : \E w : /\ siBindings' = [siBindings EXCEPT ![d] = w.name]
                                           /\ siDb[d] # SiNone /\ siDb[d].name = w.name
      BY <2>4, <3>0 DEF Bucketed
    <3>2. CASE \E d \in SiChannels : \E w : /\ siBindings' = [siBindings EXCEPT ![d] = w.name]
                                             /\ siDb[d] # SiNone /\ siDb[d].name = w.name
      BY <2>3, <3>2 DEF Called
    <3> QED  BY <2>1, <2>2, <3>1, <3>2
  <2>5. ASSUME NEW p \in SiProcs, Bind(p)
        PROVE  Called(n, c)
    <3>1. siProc[p].pc = "bind" /\ siProc[p].cur.c \in SiChannels
      BY <1>0, <2>5 DEF Bind, Projects
    <3>2. Called(siProc[p].cur.row.name, siProc[p].cur.c)
      BY <3>1 DEF Called, Mentions
    <3> QED  BY <2>1, <2>3, <2>5, <3>1, <3>2 DEF Bind
  <2>6. ASSUME NEW p \in SiProcs, Unbind(p)
        PROVE  Called(n, c)
    <3>1. siProc[p].cur \in SiChannels
      BY <1>0, <2>6 DEF Unbind, Projects
    <3> QED  BY <2>2, <2>6, <3>1 DEF Unbind
  <2> QED  BY <2>1, <2>4, <2>5, <2>6, BindingSteps
<1>3. ASSUME NEW p \in SiProcs, Mentions(siProc'[p], n, c)
      PROVE  Called(n, c)
  <2>1. CASE SiSync(p) \/ SiProject(p) \/ SiSwitch(p) \/ SiFail(p)
    BY <1>3, <2>1, OwnMentions
  <2>2. CASE ~(SiSync(p) \/ SiProject(p) \/ SiSwitch(p) \/ SiFail(p))
    <3>1. siProc'[p] = siProc[p] \/ siProc'[p] = Disturbed(siProc[p]) \/ siProc'[p] = Idle
      BY <2>2, OthersMove
    <3>2. Mentions(siProc[p], n, c)
      BY <1>3, <3>1, OthersMention
    <3> QED  BY <3>2 DEF Called
  <2> QED  BY <2>1, <2>2
<1> QED  BY <1>1, <1>2, <1>3 DEF Called

LEMMA OneNameStep ==
  ASSUME Shape, OneName, [SoNext]_siVars
  PROVE  OneName'
<1>1. CASE ~\E p \in SiProcs : Create(p)
  BY <1>1, CalledStep DEF OneName
<1>2. ASSUME NEW p \in SiProcs, Create(p)
      PROVE  OneName'
  <2> DEFINE u == siProc[p].cur
  <2>0. /\ siDb \in [SiChannels -> ChannelRows \cup {SiNone}] /\ siProc \in [Goroutines -> Places]
        /\ siProc[p] \in Places /\ Projects(siProc[p]) /\ u \in Buckets
    BY <1>2, Constants DEF Shape, SiTypeOK, PlacesFit, Fits, Create, Projects
  <2>1. CASE Quiet(p, Idle) /\ UNCHANGED <<siDb, siCache>>
    <3>1. \A q \in SiProcs : siProc'[q] = siProc[q] \/ siProc'[q] = Idle
      BY <2>0, <2>1, Constants DEF Quiet
    <3>2. siBindings' = siBindings /\ siDb' = siDb
      BY <1>2, <2>1 DEF Create
    <3>3. \A n \in Names, c \in SiChannels : Called(n, c)' => Called(n, c)
      BY <3>1, <3>2, OthersMention DEF Called
    <3> QED  BY <3>3 DEF OneName
  <2>2. ASSUME NEW d \in SiChannels, FreshChannel(d), siDb' = [siDb EXCEPT ![d] = u.row],
               Wrote(p, [siProc[p] EXCEPT !.pc = "bind", !.cur.c = d])
        PROVE  OneName'
    <3> DEFINE to == [siProc[p] EXCEPT !.pc = "bind", !.cur.c = d]
    <3>0. \A q \in SiProcs : siProc'[q] = IF q = p THEN to ELSE Disturbed(siProc[q])
      BY <2>0, <2>2, Constants DEF Wrote
    <3>1. \A n, c : Mentions(to, n, c) => Mentions(siProc[p], n, c) \/ (c = d /\ n = u.row.name)
      BY <2>0 DEF Mentions, Places, Buckets
    <3>2. siBindings' = siBindings
      BY <1>2 DEF Create
    <3>3. \A n \in Names, c \in SiChannels : Called(n, c)' => Called(n, c) \/ (c = d /\ n = u.row.name)
      <4> SUFFICES ASSUME NEW n \in Names, NEW c \in SiChannels, Called(n, c)'
                   PROVE  Called(n, c) \/ (c = d /\ n = u.row.name)
        OBVIOUS
      <4>1. CASE siDb'[c] # SiNone /\ siDb'[c].name = n
        BY <2>0, <2>2, <4>1 DEF Called
      <4>2. ASSUME NEW q \in SiProcs, Mentions(siProc'[q], n, c)
            PROVE  Called(n, c) \/ (c = d /\ n = u.row.name)
        <5>1. CASE q = p
          BY <3>0, <3>1, <4>2, <5>1 DEF Called
        <5>2. CASE q # p
          BY <3>0, <4>2, <5>2, OthersMention DEF Called
        <5> QED  BY <5>1, <5>2
      <4> QED  BY <3>2, <4>1, <4>2 DEF Called
    <3>4. \A n \in Names : ~Called(n, d)
      BY <2>2, FreshIsUncalled
    <3> QED  BY <3>3, <3>4 DEF OneName
  <2> QED  BY <1>2, <2>1, <2>2 DEF Create
<1> QED  BY <1>1, <1>2

LEMMA StillUndisturbed ==
  ASSUME UNCHANGED <<siRows, siChannelVars>>, NEW s, Undisturbed(s)
  PROVE  Undisturbed(s)'
<1>0. /\ siDb' = siDb /\ siCache' = siCache /\ siBindings' = siBindings /\ siItems' = siItems
      /\ siRetired' = siRetired /\ siOn' = siOn
  BY DEF siRows, siChannelVars
<1>1. Wanted' = Wanted /\ PausedGroups' = PausedGroups
  BY RowsStay
<1>2. Entries' = Entries
  BY <1>0 DEF Entries
<1>3. UpToDate(s)' /\ (GoesOff(s) => OffSoFar(s)')
  BY <1>0, <1>1 DEF Undisturbed, UpToDate, OffSoFar, IsOff, GoesOff
<1>4. InLoop(s) => LoopSoFar(s)'
  BY <1>0, <1>2 DEF Undisturbed, LoopSoFar, HandledStand, BoundAsListed
<1>5. Cleans(s) => CleanSoFar(s)'
  <2>1. Cleans(s) => CleanSoFar(s)
    BY DEF Undisturbed
  <2>2. WantedStand(s) => WantedStand(s)'
    BY <1>0 DEF WantedStand
  <2>3. OthersGo(s) => OthersGo(s)'
    BY <1>0 DEF OthersGo, IsOff
  <2>4. ItemsStand(s) => ItemsStand(s)'
    BY <1>0 DEF ItemsStand
  <2> QED  BY <1>0, <2>1, <2>2, <2>3, <2>4 DEF CleanSoFar
<1> QED  BY <1>3, <1>4, <1>5 DEF Undisturbed

LEMMA LoadedUndisturbed ==
  ASSUME Shape, siCache = siDb
  PROVE  Undisturbed(Loaded)
<1>1. /\ Loaded.pc \in {"list", "off"} /\ (Loaded.pc = "list" <=> siOn) /\ Loaded.made = {}
      /\ Loaded.want = Wanted /\ Loaded.saw = PausedGroups
      /\ Loaded.todo = IF siOn THEN Wanted ELSE Entries
  BY DEF Loaded, Idle, Shape, SiTypeOK
<1>2. UpToDate(Loaded)
  BY <1>1 DEF UpToDate, AtSwitch
<1>3. GoesOff(Loaded) => OffSoFar(Loaded)
  BY <1>1 DEF GoesOff, AtSwitch, OffSoFar, Entries
<1>4. InLoop(Loaded) => LoopSoFar(Loaded)
  BY <1>1 DEF InLoop, LoopSoFar, HandledStand, Handled, InHand
<1>5. ~Cleans(Loaded)
  BY <1>1 DEF Cleans, AtSwitch
<1> QED  BY <1>2, <1>3, <1>4, <1>5 DEF Undisturbed

LEMMA ListUndisturbed ==
  ASSUME Shape, NEW s \in Places, Undisturbed(s), s.pc = "list"
  PROVE  Undisturbed([s EXCEPT !.pc = "bucket", !.bound = Entries])
<1> DEFINE t == [s EXCEPT !.pc = "bucket", !.bound = Entries]
<1>1. /\ t.pc = "bucket" /\ t.bound = Entries /\ t.made = s.made /\ t.want = s.want /\ t.saw = s.saw
      /\ t.todo = s.todo
  BY DEF Places
<1> HIDE DEF t
<1>2. UpToDate(s) /\ LoopSoFar(s)
  BY DEF Undisturbed, InLoop
<1>3. UpToDate(t)
  BY <1>1, <1>2 DEF UpToDate, AtSwitch
<1>4. LoopSoFar(t)
  BY <1>1, <1>2 DEF LoopSoFar, HandledStand, Handled, InHand, BoundAsListed
<1>5. ~GoesOff(t) /\ ~Cleans(t)
  BY <1>1 DEF GoesOff, Cleans, AtSwitch
<1> QED  BY <1>3, <1>4, <1>5 DEF Undisturbed, t

\* A switch of a channel: what was read is what is there.
SwitchBegun(t, c, then) ==
  /\ UpToDate(t) /\ t.made = then.made /\ t.todo = then.todo /\ t.want = then.want /\ t.saw = then.saw
  /\ \/ t = then /\ siCache[c] = SiNone /\ siDb[c] = SiNone
     \/ t.pc = "switch" /\ t.switch.c = c /\ t.switch.back = then.pc
LEMMA SwitchingIsUpToDate ==
  ASSUME Shape, NEW then \in Places, NEW c \in SiChannels, UpToDate(then), ~AtSwitch(then)
  PROVE  SwitchBegun(Switching(c, FALSE, then), c, then)
<1> DEFINE t == Switching(c, FALSE, then)
<1>1. siCache = siDb /\ then.want = Wanted /\ then.saw = PausedGroups
  BY DEF UpToDate, AtSwitch
<1>2. CASE siCache[c] = SiNone
  BY <1>1, <1>2 DEF Switching, SwitchBegun
<1>3. CASE siCache[c] # SiNone
  <2> DEFINE sw == [c |-> c, to |-> FALSE, copy |-> siCache[c], back |-> then.pc]
  <2>1. t = [then EXCEPT !.pc = "switch", !.switch = sw]
    BY <1>3 DEF Switching, Switched
  <2>2. /\ t.pc = "switch" /\ t.switch = sw /\ t.made = then.made /\ t.todo = then.todo /\ t.want = then.want
        /\ t.saw = then.saw
    BY <2>1 DEF Places
  <2>4. sw.c = c /\ sw.copy = siCache[c] /\ sw.back = then.pc
    OBVIOUS
  <2> HIDE DEF sw
  <2> HIDE DEF t
  <2>3. UpToDate(t)
    BY <1>1, <2>2, <2>4 DEF UpToDate, AtSwitch
  <2>5. SwitchBegun(t, c, then)
    BY <2>2, <2>3, <2>4 DEF SwitchBegun
  <2> QED  BY <2>5 DEF t
<1> QED  BY <1>2, <1>3

LEMMA OffUndisturbed ==
  ASSUME Shape, NEW s \in Places, Projects(s), Undisturbed(s), s.pc = "off", NEW e \in s.todo,
         NEW t, t = Switching(e[2], FALSE, [s EXCEPT !.todo = @ \ {e}])
  PROVE  Undisturbed(t)
<1> DEFINE then == [s EXCEPT !.todo = @ \ {e}]
<1>1. /\ then \in Places /\ then.pc = "off" /\ then.made = s.made /\ then.want = s.want /\ then.saw = s.saw
      /\ then.todo = s.todo \ {e} /\ t = Switching(e[2], FALSE, then)
  BY DEF Places
<1> HIDE DEF then
<1>2. UpToDate(s) /\ OffSoFar(s) /\ e[2] \in SiChannels
  BY DEF Undisturbed, GoesOff, Projects, Binding
<1>3. UpToDate(then) /\ ~AtSwitch(then)
  BY <1>1, <1>2 DEF UpToDate, AtSwitch
<1>4. /\ UpToDate(t) /\ t.made = then.made /\ t.todo = then.todo
      /\ \/ t = then /\ siCache[e[2]] = SiNone /\ siDb[e[2]] = SiNone
         \/ t.pc = "switch" /\ t.switch.c = e[2] /\ t.switch.back = "off"
  <2>1. SwitchBegun(t, e[2], then)
    BY <1>1, <1>2, <1>3, SwitchingIsUpToDate
  <2> QED  BY <1>1, <2>1 DEF SwitchBegun
<1>5. OffSoFar(t)
  <2>1. ~siOn /\ t.made = {} /\ t.todo = s.todo \ {e}
    BY <1>1, <1>2, <1>4 DEF OffSoFar
  <2>2. ASSUME NEW c \in SiChannels, siBindings[c] # SiNone
        PROVE  <<siBindings[c], c>> \in t.todo \/ IsOff(c) \/ Turning(t, c)
    <3>1. <<siBindings[c], c>> \in s.todo \/ IsOff(c)
      BY <1>2, <2>2 DEF OffSoFar, Turning, AtSwitch
    <3>2. CASE <<siBindings[c], c>> = e
      <4>1. e[2] = c
        BY <3>2
      <4> QED  BY <1>4, <4>1 DEF IsOff, Turning, AtSwitch
    <3> QED  BY <2>1, <3>1, <3>2
  <2> QED  BY <2>1, <2>2 DEF OffSoFar
<1>6. ~InLoop(t) /\ ~Cleans(t)
  BY <1>1, <1>4 DEF InLoop, Cleans, AtSwitch
<1> QED  BY <1>4, <1>5, <1>6 DEF Undisturbed

LEMMA BoundEntriesNext ==
  (\A n, c : c \in Bound(Entries, n) <=> c \in SiChannels /\ siBindings[c] = n /\ n # SiNone)'
BY BoundEntries, PTL

LEMMA BoundStays ==
  ASSUME NEW n, \A c \in SiChannels : siBindings'[c] = n <=> siBindings[c] = n
  PROVE  Bound(Entries, n)' = Bound(Entries, n)
<1>1. \A c : c \in Bound(Entries, n)' <=> c \in Bound(Entries, n)
  BY BoundEntries, BoundEntriesNext
<1>2. Bound(Entries, n)' \subseteq SiChannels /\ Bound(Entries, n) \subseteq SiChannels
  BY BoundEntries, BoundEntriesNext
<1> QED  BY <1>1, <1>2

\* What a goroutine whose read of the account still holds has to say.
Stands(p) == Shape /\ OneBinding /\ OneName /\ Undisturbed(siProc[p])

LEMMA StandsFacts ==
  ASSUME NEW p \in SiProcs, Stands(p)
  PROVE  /\ siProc[p] \in Places /\ Projects(siProc[p]) /\ DOMAIN siProc = Goroutines /\ p \in Goroutines
         /\ siDb \in [SiChannels -> ChannelRows \cup {SiNone}]
         /\ siCache \in [SiChannels -> ChannelRows \cup {SiNone}]
         /\ siBindings \in [SiChannels -> Names \cup {SiNone}]
         /\ siProc[p].want = Wanted /\ siProc[p].saw = PausedGroups
         /\ siProc[p].pc # "cache" => siCache = siDb
BY Constants DEF Stands, Shape, PlacesFit, Fits, SiTypeOK, Undisturbed, UpToDate

LEMMA OwnStep ==
  ASSUME NEW p \in SiProcs, Stands(p), NEW t, siProc'[p] = t, NEW u, Quiet(p, u) \/ Wrote(p, u)
  PROVE  t = u
BY StandsFacts DEF Quiet, Wrote

LEMMA InLoopUndisturbed ==
  ASSUME NEW t, t.pc \in {"list", "bucket", "update", "create", "bind", "join"}, UpToDate(t)', LoopSoFar(t)'
  PROVE  Undisturbed(t)'
BY DEF Undisturbed, GoesOff, Cleans, InLoop, AtSwitch

LEMMA BucketedUndisturbed ==
  ASSUME NEW p \in SiProcs, Stands(p), Bucketed(p), NEW t, siProc'[p] = t, t.clean
  PROVE  Undisturbed(t)'
<1> DEFINE s == siProc[p]
<1>0. /\ s \in Places /\ Projects(s) /\ s.pc = "bucket" /\ s.want = Wanted /\ s.saw = PausedGroups
      /\ siCache = siDb /\ LoopSoFar(s) /\ siDb \in [SiChannels -> ChannelRows \cup {SiNone}]
      /\ siBindings \in [SiChannels -> Names \cup {SiNone}] /\ s.todo \subseteq s.want
  BY StandsFacts DEF Bucketed, Stands, Undisturbed, InLoop, Projects
<1>1. PICK w \in s.todo : LET known == Bound(s.bound, w.name)
                              named == {c \in SiChannels : siDb[c] # SiNone /\ siDb[c].name = w.name}
        IN \E d, pc :
        /\ t = [s EXCEPT !.pc = pc, !.cur = [row |-> w, c |-> d]] /\ siDb' = siDb /\ UNCHANGED siRows
        /\ \/ /\ d \in known /\ pc = "update" /\ siCache[d] # SiNone
              /\ siBindings' = siBindings /\ siCache' = siCache
           \/ /\ pc = "create" /\ siCache' = siCache
              /\ \E c \in known : siBindings' = [siBindings EXCEPT ![c] = SiNone]
           \/ /\ pc = "create" /\ named = {} /\ siCache' = Unnamed(w.name) /\ siBindings' = siBindings
           \/ /\ pc = "update" /\ known = {} /\ d \in named /\ siCache' = [siCache EXCEPT ![d] = siDb[d]]
              /\ \/ siBindings[d] # SiNone /\ siBindings' = siBindings
                 \/ siBindings[d] = SiNone /\ siBindings' = [siBindings EXCEPT ![d] = w.name]
  <2>1. t # Idle
    BY DEF Idle
  <2>2. \A u : Quiet(p, u) \/ Wrote(p, u) => t = u
    BY OwnStep
  <2> QED  BY <2>1, <2>2 DEF Bucketed, siRows
<1> DEFINE known == Bound(s.bound, w.name)
           named == {c \in SiChannels : siDb[c] # SiNone /\ siDb[c].name = w.name}
<1>2. w \in Wanted /\ w.name \in Names /\ w.name # SiNone /\ w \notin Handled(s)
      /\ \A v \in Handled(s) : v.name # w.name /\ v.name \in Names
  BY <1>0, WantedFacts, Constants DEF Handled
<1>3. known = Bound(Entries, w.name)
  BY <1>0, <1>2 DEF LoopSoFar, BoundAsListed, InHand
<1>4. PICK d, pc :
        /\ t = [s EXCEPT !.pc = pc, !.cur = [row |-> w, c |-> d]] /\ siDb' = siDb /\ UNCHANGED siRows
        /\ \/ /\ d \in known /\ pc = "update" /\ siCache[d] # SiNone
              /\ siBindings' = siBindings /\ siCache' = siCache
           \/ /\ pc = "create" /\ siCache' = siCache
              /\ \E c \in known : siBindings' = [siBindings EXCEPT ![c] = SiNone]
           \/ /\ pc = "create" /\ named = {} /\ siCache' = Unnamed(w.name) /\ siBindings' = siBindings
           \/ /\ pc = "update" /\ known = {} /\ d \in named /\ siCache' = [siCache EXCEPT ![d] = siDb[d]]
              /\ \/ siBindings[d] # SiNone /\ siBindings' = siBindings
                 \/ siBindings[d] = SiNone /\ siBindings' = [siBindings EXCEPT ![d] = w.name]
  BY <1>1
<1>5. /\ t.pc = pc /\ pc \in {"update", "create"} /\ t.cur.row = w /\ t.cur.c = d /\ t.want = s.want /\ t.todo = s.todo
      /\ t.made = s.made /\ t.bound = s.bound /\ t.saw = s.saw
  BY <1>0, <1>4 DEF Places
<1>6. siCache' = siDb'
  <2>1. named = {} => Unnamed(w.name) = siCache
    BY <1>0 DEF Unnamed
  <2>2. \A c \in SiChannels : [siCache EXCEPT ![c] = siDb[c]] = siDb
    BY <1>0
  <2> QED  BY <1>0, <1>4, <2>1, <2>2
<1>7. UpToDate(t)'
  BY <1>0, <1>4, <1>5, <1>6, RowsStay DEF UpToDate, AtSwitch
<1>8. \A c \in SiChannels, n \in Names \ {w.name} : siBindings'[c] = n <=> siBindings[c] = n
  <2>1. \A c \in known : siBindings[c] = w.name /\ c \in SiChannels
    BY <1>2, <1>3, BoundEntries
  <2> QED  BY <1>0, <1>2, <1>4, <2>1, Constants
<1>9. siOn' /\ HandledStand(t)'
  <2>1. Handled(t) = Handled(s)
    BY <1>5 DEF Handled
  <2>2. HandledStand(s) /\ siOn
    BY <1>0 DEF LoopSoFar
  <2>3. siOn' = siOn
    BY <1>4 DEF siRows
  <2>4. \A e \in s.made : e[2] \in SiChannels
    BY <1>0 DEF Places, Binding
  <2>5. \A c \in SiChannels, v \in Handled(s) : siBindings[c] = v.name => siBindings'[c] = v.name
    BY <1>2, <1>8
  <2>6. \A e \in s.made : siBindings'[e[2]] = e[1] /\ \E v \in Handled(s) : v.name = e[1]
    BY <2>2, <2>4, <2>5 DEF HandledStand
  <2>7. \A v \in Handled(s) : \E c \in SiChannels :
          <<v.name, c>> \in s.made /\ siBindings'[c] = v.name /\ siDb'[c] = v
    BY <1>4, <2>2, <2>5 DEF HandledStand
  <2>8. HandledStand(t)'
    BY <1>5, <2>1, <2>6, <2>7 DEF HandledStand, Handled
  <2> QED  BY <2>2, <2>3, <2>8
<1>10. InHand(t) = {w}
  BY <1>5 DEF InHand
<1>11. BoundAsListed(t)'
  <2> SUFFICES ASSUME NEW n \in Names, \A v \in Handled(t) \cup InHand(t) : v.name # n
               PROVE  Bound(t.bound, n) = Bound(Entries, n)'
    BY DEF BoundAsListed, Handled, InHand, Bound
  <2>1. n # w.name /\ \A v \in Handled(s) : v.name # n
    BY <1>5, <1>10 DEF Handled
  <2>2. Bound(s.bound, n) = Bound(Entries, n)
    BY <1>0, <2>1 DEF LoopSoFar, BoundAsListed, InHand
  <2>3. Bound(Entries, n)' = Bound(Entries, n)
    BY <1>8, <2>1, BoundStays
  <2> QED  BY <1>5, <2>2, <2>3
<1>12. pc = "update" => siBindings'[d] = w.name /\ siDb'[d] # SiNone
  <2>1. d \in known => siBindings[d] = w.name
    BY <1>3, BoundEntries
  <2>2. known = {} /\ d \in named => siBindings[d] = SiNone
    <3>1. ASSUME known = {}, d \in named, siBindings[d] # SiNone
          PROVE  FALSE
      <4>1. siBindings[d] \in Names /\ d \in SiChannels /\ Called(siBindings[d], d) /\ Called(w.name, d)
        BY <1>0, <3>1 DEF Called
      <4>2. siBindings[d] = w.name
        BY <1>2, <4>1 DEF Stands, OneName
      <4>3. d \in Bound(Entries, w.name)
        BY <1>2, <4>1, <4>2, BoundEntries
      <4> QED  BY <1>3, <3>1, <4>3
    <3> QED  BY <3>1
  <2> QED  BY <1>0, <1>4, <2>1, <2>2
<1>13. LoopSoFar(t)'
  BY <1>4, <1>5, <1>9, <1>10, <1>11, <1>12 DEF LoopSoFar, InHand
<1> QED  BY <1>5, <1>7, <1>13, InLoopUndisturbed

\* A bucket is done, by an update or a binding.
LEMMA DoneUndisturbed ==
  ASSUME NEW p \in SiProcs, Stands(p), siProc[p].pc \in {"update", "bind"},
         NEW c \in SiChannels, c = siProc[p].cur.c, NEW w, w = siProc[p].cur.row,
         NEW t, t = Bucketless(p, c), UpToDate(t)', siOn' = siOn,
         siBindings[c] \in {SiNone, w.name}, siBindings'[c] = w.name, siDb'[c] = w,
         \A d \in SiChannels \ {c} : siDb'[d] = siDb[d] /\ siBindings'[d] = siBindings[d]
  PROVE  Undisturbed(t)'
<1> DEFINE s == siProc[p]
<1>0. /\ s \in Places /\ Projects(s) /\ s.cur \in Buckets /\ s.want = Wanted /\ LoopSoFar(s)
      /\ siBindings \in [SiChannels -> Names \cup {SiNone}] /\ s.todo \subseteq s.want
  BY StandsFacts DEF Stands, Undisturbed, InLoop, Projects
<1>1. /\ t.pc \in {"bucket", "join"} /\ t.todo = s.todo \ {w} /\ t.made = s.made \cup {<<w.name, c>>}
      /\ t.want = s.want /\ t.bound = s.bound
  BY <1>0 DEF Bucketless, Places
<1>2. w \in s.todo /\ InHand(s) = {w}
  BY <1>0 DEF LoopSoFar, InHand
<1>3. w \in Wanted /\ w.name \in Names /\ w.name # SiNone
      /\ \A v \in Handled(s) : v.name # w.name /\ v.name \in Names /\ v.name # SiNone
  <2>1. w \in Wanted /\ w \notin Handled(s) /\ Handled(s) \subseteq Wanted
    BY <1>0, <1>2 DEF Handled
  <2>2. \A v \in Wanted : v.name \in Names /\ v.name # SiNone /\ (v.name = w.name => v = w)
    <3>1. \A v \in Wanted : v.name \in Names
      BY WantedFacts
    <3>2. \A v \in Wanted : v.name = w.name => v = w
      BY <2>1, WantedFacts
    <3> QED  BY <3>1, <3>2, Constants
  <2> QED  BY <2>1, <2>2
<1>4. Handled(t) = Handled(s) \cup {w} /\ InHand(t) = {}
  BY <1>0, <1>1, <1>2 DEF Handled, InHand
<1>5. HandledStand(s) /\ siOn
  BY <1>0 DEF LoopSoFar
<1>6. \A e \in s.made : e[2] \in SiChannels
  BY <1>0 DEF Places, Binding
<1>7. \A d \in SiChannels, v \in Handled(s) : siBindings[d] = v.name => d # c /\ siBindings'[d] = v.name
  BY <1>3
<1>8. HandledStand(t)'
  <2>1. \A v \in Handled(t) : \E d \in SiChannels :
          <<v.name, d>> \in t.made /\ siBindings'[d] = v.name /\ siDb'[d] = v
    <3>1. ASSUME NEW v \in Handled(s)
          PROVE  \E d \in SiChannels : <<v.name, d>> \in t.made /\ siBindings'[d] = v.name /\ siDb'[d] = v
      <4>1. PICK d \in SiChannels : <<v.name, d>> \in s.made /\ siBindings[d] = v.name /\ siDb[d] = v
        BY <1>5, <3>1 DEF HandledStand
      <4> QED  BY <1>1, <1>7, <3>1, <4>1
    <3> QED  BY <1>1, <1>4, <3>1
  <2>2. \A e \in t.made : siBindings'[e[2]] = e[1] /\ \E v \in Handled(t) : v.name = e[1]
    <3>1. ASSUME NEW e \in s.made
          PROVE  siBindings'[e[2]] = e[1] /\ \E v \in Handled(t) : v.name = e[1]
      BY <1>4, <1>5, <1>6, <1>7, <3>1 DEF HandledStand
    <3> QED  BY <1>1, <1>4, <3>1
  <2> QED  BY <2>1, <2>2 DEF HandledStand, Handled
<1>9. BoundAsListed(t)'
  <2> SUFFICES ASSUME NEW n \in Names, \A v \in Handled(t) \cup InHand(t) : v.name # n
               PROVE  Bound(t.bound, n) = Bound(Entries, n)'
    BY DEF BoundAsListed, Handled, InHand, Bound
  <2>1. n # w.name /\ n # SiNone /\ \A v \in Handled(s) \cup InHand(s) : v.name # n
    BY <1>2, <1>4, Constants
  <2>2. Bound(s.bound, n) = Bound(Entries, n)
    BY <1>0, <2>1 DEF LoopSoFar, BoundAsListed
  <2>3. Bound(Entries, n)' = Bound(Entries, n)
    BY <2>1, BoundStays
  <2> QED  BY <1>1, <2>2, <2>3
<1>10. LoopSoFar(t)'
  BY <1>1, <1>4, <1>5, <1>8, <1>9 DEF LoopSoFar, InHand
<1> QED  BY <1>1, <1>10, InLoopUndisturbed

LEMMA UpdateUndisturbed ==
  ASSUME NEW p \in SiProcs, Stands(p), Update(p), NEW t, siProc'[p] = t, t.clean
  PROVE  Undisturbed(t)'
<1> DEFINE s == siProc[p]
           c == s.cur.c
           w == s.cur.row
<1>0. /\ s \in Places /\ s.pc = "update" /\ s.cur \in Buckets /\ c \in SiChannels /\ LoopSoFar(s)
      /\ siCache = siDb /\ siDb \in [SiChannels -> ChannelRows \cup {SiNone}]
      /\ s.want = Wanted /\ s.saw = PausedGroups
  BY StandsFacts DEF Update, Stands, Undisturbed, InLoop, Projects
<1>1. /\ t = Bucketless(p, c) /\ UNCHANGED siRows /\ siBindings' = siBindings
      /\ siDb' = [siDb EXCEPT ![c] = [w EXCEPT !.keys = KeysAfter(siDb[c].keys, siCache[c].keys, w.keys)]]
      /\ siCache' = [siCache EXCEPT ![c] = siDb'[c]]
  <2>1. t # Idle
    BY DEF Idle
  <2>2. \A u : Quiet(p, u) \/ Wrote(p, u) => t = u
    BY OwnStep
  <2> QED  BY <2>1, <2>2 DEF Update, siRows
<1>2. w \in ChannelRows
  BY <1>0 DEF Buckets
<1>3. [w EXCEPT !.keys = w.keys] = w
  BY <1>2 DEF ChannelRows
<1>4. siDb' = [siDb EXCEPT ![c] = w] /\ siCache' = siDb'
  <2>1. KeysAfter(siDb[c].keys, siCache[c].keys, w.keys) = w.keys
    BY <1>0, KeysSettle
  <2>2. siDb' = [siDb EXCEPT ![c] = w]
    BY <1>1, <1>3, <2>1
  <2> QED  BY <1>0, <1>1, <2>2
<1>5. t.pc \in {"bucket", "join"} /\ t.want = s.want /\ t.saw = s.saw
  BY <1>0, <1>1 DEF Bucketless, Places
<1>6. UpToDate(t)'
  BY <1>0, <1>1, <1>4, <1>5, RowsStay DEF UpToDate, AtSwitch
<1>7. siBindings[c] = w.name
  BY <1>0 DEF LoopSoFar
<1>8. siOn' = siOn
  BY <1>1 DEF siRows
<1>9. siDb'[c] = w /\ \A d \in SiChannels \ {c} : siDb'[d] = siDb[d] /\ siBindings'[d] = siBindings[d]
  BY <1>0, <1>1, <1>4
<1> QED  BY <1>0, <1>1, <1>6, <1>7, <1>8, <1>9, DoneUndisturbed

LEMMA BindUndisturbed ==
  ASSUME NEW p \in SiProcs, Stands(p), Bind(p), NEW t, siProc'[p] = t, t.clean
  PROVE  Undisturbed(t)'
<1> DEFINE s == siProc[p]
           c == s.cur.c
           w == s.cur.row
<1>0. /\ s \in Places /\ s.pc = "bind" /\ c \in SiChannels /\ LoopSoFar(s)
      /\ siCache = siDb /\ siBindings \in [SiChannels -> Names \cup {SiNone}]
      /\ s.want = Wanted /\ s.saw = PausedGroups
  BY StandsFacts DEF Bind, Stands, Undisturbed, InLoop, Projects
<1>1. /\ t = Bucketless(p, c) /\ UNCHANGED siRows /\ siBindings[c] = SiNone
      /\ siBindings' = [siBindings EXCEPT ![c] = w.name]
      /\ siDb' = siDb /\ siCache' = siCache
  <2>1. t # Idle
    BY DEF Idle
  <2>2. \A u : Quiet(p, u) \/ Wrote(p, u) => t = u
    BY OwnStep
  <2> QED  BY <2>1, <2>2 DEF Bind, siRows
<1>2. t.pc \in {"bucket", "join"} /\ t.want = s.want /\ t.saw = s.saw
  BY <1>0, <1>1 DEF Bucketless, Places
<1>3. UpToDate(t)'
  BY <1>0, <1>1, <1>2, RowsStay DEF UpToDate, AtSwitch
<1>4. siOn' = siOn /\ siDb'[c] = w
  BY <1>0, <1>1 DEF siRows, LoopSoFar
<1>5. /\ siBindings'[c] = w.name
      /\ \A d \in SiChannels \ {c} : siDb'[d] = siDb[d] /\ siBindings'[d] = siBindings[d]
  BY <1>0, <1>1
<1> QED  BY <1>0, <1>1, <1>3, <1>4, <1>5, DoneUndisturbed

LEMMA CreateUndisturbed ==
  ASSUME NEW p \in SiProcs, Stands(p), Create(p), NEW t, siProc'[p] = t, t.clean
  PROVE  Undisturbed(t)'
<1> DEFINE s == siProc[p]
           w == s.cur.row
<1>0. /\ s \in Places /\ s.pc = "create" /\ s.cur \in Buckets /\ LoopSoFar(s)
      /\ siCache = siDb /\ siDb \in [SiChannels -> ChannelRows \cup {SiNone}]
      /\ s.want = Wanted /\ s.saw = PausedGroups
  BY StandsFacts DEF Create, Stands, Undisturbed, InLoop, Projects
<1>1. PICK d \in SiChannels :
        /\ t = [s EXCEPT !.pc = "bind", !.cur.c = d] /\ siDb[d] = SiNone
        /\ siDb' = [siDb EXCEPT ![d] = w] /\ siCache' = [siCache EXCEPT ![d] = w]
        /\ siBindings' = siBindings /\ UNCHANGED siRows
  <2>1. t # Idle
    BY DEF Idle
  <2>2. \A u : Quiet(p, u) \/ Wrote(p, u) => t = u
    BY OwnStep
  <2> QED  BY <2>1, <2>2 DEF Create, siRows, FreshChannel
<1>2. /\ t.pc = "bind" /\ t.cur.c = d /\ t.cur.row = w /\ t.want = s.want /\ t.saw = s.saw /\ t.todo = s.todo
      /\ t.made = s.made /\ t.bound = s.bound
  BY <1>0, <1>1 DEF Places, Buckets
<1>3. UpToDate(t)'
  BY <1>0, <1>1, <1>2, RowsStay DEF UpToDate, AtSwitch
<1>4. Handled(t) = Handled(s) /\ InHand(t) = {w} /\ InHand(s) = {w}
  BY <1>0, <1>2 DEF Handled, InHand
<1>5. HandledStand(t)'
  <2>1. \A v \in Handled(s) : v # SiNone
    BY <1>0, WantedAreRows, Constants DEF Handled, Stands, Shape
  <2>2. \A v \in Handled(s), c \in SiChannels : siDb[c] = v => siDb'[c] = v
    BY <1>0, <1>1, <2>1
  <2>3. HandledStand(s)
    BY <1>0 DEF LoopSoFar
  <2>4. \A v \in Handled(s) : \E c \in SiChannels :
          <<v.name, c>> \in s.made /\ siBindings'[c] = v.name /\ siDb'[c] = v
    BY <1>1, <2>2, <2>3 DEF HandledStand
  <2>5. \A e \in s.made : siBindings'[e[2]] = e[1] /\ \E v \in Handled(s) : v.name = e[1]
    BY <1>1, <2>3 DEF HandledStand
  <2> QED  BY <1>2, <1>4, <2>4, <2>5 DEF HandledStand, Handled
<1>6. BoundAsListed(t)'
  <2> SUFFICES ASSUME NEW n \in Names, \A v \in Handled(t) \cup InHand(t) : v.name # n
               PROVE  Bound(t.bound, n) = Bound(Entries, n)'
    BY DEF BoundAsListed, Handled, InHand, Bound
  <2>1. Bound(s.bound, n) = Bound(Entries, n)
    BY <1>0, <1>4 DEF LoopSoFar, BoundAsListed
  <2>2. Bound(Entries, n)' = Bound(Entries, n)
    BY <1>1, BoundStays
  <2> QED  BY <1>2, <2>1, <2>2
<1>7. LoopSoFar(t)'
  BY <1>0, <1>1, <1>2, <1>4, <1>5, <1>6 DEF LoopSoFar, InHand, siRows
<1> QED  BY <1>2, <1>3, <1>7, InLoopUndisturbed

LEMMA JoinUndisturbed ==
  ASSUME NEW p \in SiProcs, Stands(p), Join(p), NEW t, siProc'[p] = t
  PROVE  Undisturbed(t)'
<1> DEFINE s == siProc[p]
<1>0. s \in Places /\ s.pc = "join" /\ LoopSoFar(s) /\ s.want = Wanted /\ s.saw = PausedGroups /\ siCache = siDb
  BY StandsFacts DEF Join, Stands, Undisturbed, InLoop
<1>1. t = [s EXCEPT !.pc = "bucket", !.cur = SiNone] /\ UNCHANGED <<siRows, siDb, siCache, siBindings, siRetired>>
  BY OwnStep DEF Join
<1>2. /\ t.pc = "bucket" /\ t.want = s.want /\ t.saw = s.saw /\ t.todo = s.todo /\ t.made = s.made
      /\ t.bound = s.bound
  BY <1>0, <1>1 DEF Places
<1>3. UpToDate(t)'
  BY <1>0, <1>1, <1>2, RowsStay DEF UpToDate, AtSwitch
<1>4. Handled(t) = Handled(s) /\ InHand(t) = {} /\ InHand(s) = {}
  BY <1>0, <1>2 DEF Handled, InHand
<1>5. HandledStand(t)'
  BY <1>0, <1>1, <1>2, <1>4 DEF LoopSoFar, HandledStand, Handled
<1>6. BoundAsListed(t)'
  <2> SUFFICES ASSUME NEW n \in Names, \A v \in Handled(t) \cup InHand(t) : v.name # n
               PROVE  Bound(t.bound, n) = Bound(Entries, n)'
    BY DEF BoundAsListed, Handled, InHand, Bound
  <2>1. Bound(s.bound, n) = Bound(Entries, n)
    BY <1>0, <1>4 DEF LoopSoFar, BoundAsListed
  <2>2. Bound(Entries, n)' = Bound(Entries, n)
    BY <1>1, BoundStays
  <2> QED  BY <1>2, <2>1, <2>2
<1>7. LoopSoFar(t)'
  BY <1>0, <1>1, <1>2, <1>4, <1>5, <1>6 DEF LoopSoFar, InHand, siRows
<1> QED  BY <1>2, <1>3, <1>7, InLoopUndisturbed

LEMMA CleansUndisturbed ==
  ASSUME NEW t, Cleans(t), UpToDate(t)', CleanSoFar(t)'
  PROVE  Undisturbed(t)'
BY DEF Undisturbed, GoesOff, Cleans, InLoop, AtSwitch

LEMMA RewriteUndisturbed ==
  ASSUME NEW p \in SiProcs, Stands(p), Rewrite(p), NEW t, siProc'[p] = t, t.clean
  PROVE  Undisturbed(t)'
<1> DEFINE s == siProc[p]
           unwanted == {e \in s.bound : \A w \in s.want : w.name # e[1]}
<1>0. /\ s \in Places /\ s.pc = "bucket" /\ s.todo = {} /\ LoopSoFar(s) /\ siCache = siDb
      /\ s.want = Wanted /\ s.saw = PausedGroups /\ siBindings \in [SiChannels -> Names \cup {SiNone}]
      /\ siItems \subseteq SiModels \X SiChannels
  BY StandsFacts DEF Rewrite, Rewriting, Stands, Undisturbed, InLoop, Shape, SiTypeOK
<1>1. /\ t = [s EXCEPT !.pc = "stale", !.todo = unwanted]
      /\ siItems' = (siItems \ (Gone(p) \cup Moved(p))) \cup UNION {At(p, i) : i \in Moved(p)}
      /\ UNCHANGED <<siRows, siDb, siCache, siBindings, siRetired>>
  <2>1. t # Idle
    BY DEF Idle
  <2>2. \A u : Quiet(p, u) \/ Wrote(p, u) => t = u
    BY OwnStep
  <2> QED  BY <2>1, <2>2 DEF Rewrite, RewriteSome
<1>2. t.pc = "stale" /\ t.want = s.want /\ t.saw = s.saw /\ t.todo = unwanted /\ t.made = s.made
  BY <1>0, <1>1 DEF Places
<1>3. Handled(s) = s.want /\ InHand(s) = {} /\ HandledStand(s) /\ siOn /\ BoundAsListed(s)
  BY <1>0 DEF Handled, InHand, LoopSoFar
<1>4. UpToDate(t)'
  BY <1>0, <1>1, <1>2, RowsStay DEF UpToDate, AtSwitch
<1>5. WantedStand(t)'
  BY <1>1, <1>2, <1>3 DEF WantedStand, HandledStand
<1>6. \A n \in Names : (\A w \in s.want : w.name # n) => Bound(s.bound, n) = Bound(Entries, n)
  BY <1>3 DEF BoundAsListed
<1>7. OthersGo(t)'
  <2> SUFFICES ASSUME NEW c \in SiChannels, siBindings[c] # SiNone, ~Wants(s, siBindings[c])
               PROVE  <<siBindings[c], c>> \in unwanted
    BY <1>1, <1>2 DEF OthersGo, Wants
  <2> DEFINE n == siBindings[c]
  <2>1. n \in Names /\ \A w \in s.want : w.name # n
    BY <1>0 DEF Wants
  <2>2. c \in Bound(s.bound, n)
    BY <1>6, <2>1, BoundEntries
  <2>3. <<n, c>> \in s.bound
    BY <1>0, <2>2, BoundPairs DEF Places
  <2> QED  BY <2>1, <2>3
<1>8. ItemsStand(t)'
  <2>0. \A c, n : c \in Bound(s.made, n) => siBindings[c] = n
    <3>1. s.made \in SUBSET Binding
      BY <1>0 DEF Places
    <3>2. ASSUME NEW c, NEW n, <<n, c>> \in s.made
          PROVE  siBindings[c] = n
      BY <1>3, <3>2 DEF HandledStand
    <3> QED  BY <3>1, <3>2, BoundPairs
  <2>1. \A i, c : c \in Targets(p, i) => \E w \in s.want : w.name = siBindings[c] /\ i[1] \in w.models
    BY <2>0 DEF Targets
  <2>2. ASSUME NEW i \in siItems', siBindings[i[2]] # SiNone, siBindings[i[2]][1] \notin s.saw
        PROVE  \E w \in s.want : w.name = siBindings[i[2]] /\ i[1] \in w.models
    <3>1. CASE i \in siItems \ (Gone(p) \cup Moved(p))
      <4>1. i \in ManagedItems(p)
        BY <2>2, <3>1 DEF ManagedItems
      <4>2. i[2] \in Targets(p, i)
        BY <3>1, <4>1 DEF Gone, Moved
      <4> QED  BY <2>1, <4>2
    <3>2. ASSUME NEW j \in Moved(p), i \in At(p, j)
          PROVE  \E w \in s.want : w.name = siBindings[i[2]] /\ i[1] \in w.models
      <4>1. PICK c \in Targets(p, j) : i = <<j[1], c>>
        BY <3>2 DEF At
      <4> QED  BY <2>1, <4>1
    <3> QED  BY <1>1, <2>2, <3>1, <3>2
  <2> QED  BY <1>1, <1>2, <2>2 DEF ItemsStand
<1>9. \A e \in unwanted : siBindings[e[2]] = e[1] /\ ~Wants(s, e[1])
  <2> SUFFICES ASSUME NEW e \in unwanted
               PROVE  siBindings[e[2]] = e[1] /\ ~Wants(s, e[1])
    OBVIOUS
  <2>1. e \in Binding /\ e = <<e[1], e[2]>> /\ e[1] \in Names /\ \A w \in s.want : w.name # e[1]
    BY <1>0 DEF Places, Binding
  <2>2. e[2] \in Bound(s.bound, e[1])
    BY <1>0, <2>1, BoundPairs DEF Places
  <2>3. e[2] \in Bound(Entries, e[1])
    BY <1>6, <2>1, <2>2
  <2> QED  BY <2>1, <2>3, BoundEntries DEF Wants
<1>10. \A e \in s.made : siBindings[e[2]] = e[1] /\ Wants(s, e[1])
  BY <1>3 DEF HandledStand, Wants
<1>11. siOn' /\ \A n : Wants(t, n) <=> Wants(s, n)
  BY <1>1, <1>2, <1>3 DEF Wants, siRows
<1>12. CleanSoFar(t)'
  BY <1>1, <1>2, <1>5, <1>7, <1>8, <1>9, <1>10, <1>11 DEF CleanSoFar, AtSwitch, Wants
<1> QED  BY <1>2, <1>4, <1>12, CleansUndisturbed DEF Cleans

\* The switch of a channel that is not wanted, or of one that is retired.
LEMMA SwitchBegunUndisturbed ==
  ASSUME Shape, OneBinding, NEW s \in Places, Projects(s), Undisturbed(s), s.pc = "stale",
         NEW e \in s.todo \cup s.made, NEW then \in Places,
         then.pc = "stale", then.want = s.want, then.saw = s.saw,
         then.todo = s.todo \ {e}, then.made = s.made \ {e},
         IF e \in s.todo THEN e[1][1] \in s.saw ELSE s.todo = {} /\ siRetired[e[2]] # SiNone,
         NEW t, t = Switching(e[2], FALSE, then)
  PROVE  Undisturbed(t)
<1> DEFINE c == e[2]
<1>0. /\ UpToDate(s) /\ CleanSoFar(s) /\ siCache = siDb /\ s.want = Wanted /\ s.todo \subseteq Binding
      /\ siBindings \in [SiChannels -> Names \cup {SiNone}] /\ ~AtSwitch(s)
  BY DEF Undisturbed, UpToDate, Cleans, Projects, AtSwitch, Shape, SiTypeOK
<1>1. /\ e \in Binding /\ c \in SiChannels /\ e = <<e[1], c>> /\ siBindings[c] = e[1] /\ e[1] # SiNone
      /\ e[1] \in Names /\ (e \in s.todo => ~Wants(s, e[1])) /\ (e \in s.made => Wants(s, e[1]))
  BY <1>0, Constants DEF Places, Binding, CleanSoFar
<1>2. UpToDate(then) /\ ~AtSwitch(then)
  BY <1>0 DEF UpToDate, AtSwitch
<1>3. SwitchBegun(t, c, then)
  BY <1>1, <1>2, SwitchingIsUpToDate
<1>4. /\ UpToDate(t) /\ t.made = s.made \ {e} /\ t.todo = s.todo \ {e} /\ t.want = s.want /\ t.saw = s.saw
      /\ \/ t.pc = "stale" /\ siCache[c] = SiNone /\ siDb[c] = SiNone
         \/ t.pc = "switch" /\ t.switch.c = c /\ t.switch.back = "stale"
  BY <1>3 DEF SwitchBegun
<1>5. \A n : Wants(t, n) <=> Wants(s, n)
  BY <1>4 DEF Wants
<1>6. WantedStand(t)
  <2> SUFFICES ASSUME NEW w \in s.want
               PROVE  \E d \in SiChannels :
                        /\ siBindings[d] = w.name
                        /\ \/ <<w.name, d>> \in t.made /\ siDb[d] = w
                           \/ siDb[d] = [w EXCEPT !.on = siRetired[d] = SiNone]
                           \/ t.pc = "switch" /\ t.switch.c = d /\ siDb[d] = w /\ siRetired[d] # SiNone
    BY <1>4 DEF WantedStand
  <2>1. PICK d \in SiChannels :
          /\ siBindings[d] = w.name
          /\ \/ <<w.name, d>> \in s.made /\ siDb[d] = w
             \/ siDb[d] = [w EXCEPT !.on = siRetired[d] = SiNone]
    BY <1>0 DEF CleanSoFar, WantedStand
  <2>2. CASE <<w.name, d>> = e /\ siDb[d] = w /\ e \in s.made
    <3>1. d = c /\ siDb[c] = w /\ e \notin s.todo
      BY <1>1, <2>2
    <3>2. w # SiNone
      BY <1>0, WantedAreRows, Constants DEF Shape
    <3>3. t.pc = "switch" /\ t.switch.c = d /\ siRetired[d] # SiNone
      BY <1>4, <3>1, <3>2
    <3> QED  BY <2>1, <2>2, <3>3
  <2> QED  BY <1>4, <2>1, <2>2
<1>7. OthersGo(t)
  <2> SUFFICES ASSUME NEW d \in SiChannels, siBindings[d] # SiNone
               PROVE  \/ Wants(s, siBindings[d]) \/ <<siBindings[d], d>> \in t.todo
                      \/ siBindings[d][1] \in s.saw /\ (IsOff(d) \/ Turning(t, d))
    BY <1>4, <1>5 DEF OthersGo
  <2>1. \/ Wants(s, siBindings[d]) \/ <<siBindings[d], d>> \in s.todo
        \/ siBindings[d][1] \in s.saw /\ IsOff(d)
    BY <1>0 DEF CleanSoFar, OthersGo, Turning
  <2>2. CASE <<siBindings[d], d>> = e /\ e \in s.todo
    <3>1. d = c /\ siBindings[d][1] \in s.saw
      BY <2>2
    <3>2. IsOff(d) \/ Turning(t, d)
      BY <1>4, <3>1 DEF IsOff, Turning, AtSwitch
    <3> QED  BY <3>1, <3>2
  <2> QED  BY <1>4, <2>1, <2>2
<1>8. ItemsStand(t)
  BY <1>0, <1>4 DEF CleanSoFar, ItemsStand
<1>9. AtSwitch(t) => LET n == siBindings[t.switch.c] IN
        n # SiNone /\ IF Wants(t, n) THEN t.todo = {} /\ siRetired[t.switch.c] # SiNone
                                          /\ <<n, t.switch.c>> \notin t.made
                      ELSE n[1] \in t.saw
  <2> SUFFICES ASSUME t.switch.c = c
               PROVE  siBindings[c] # SiNone /\ IF Wants(s, siBindings[c])
                        THEN t.todo = {} /\ siRetired[c] # SiNone /\ <<siBindings[c], c>> \notin t.made
                        ELSE siBindings[c][1] \in t.saw
    BY <1>4, <1>5 DEF AtSwitch
  <2> QED  BY <1>1, <1>4
<1>10. CleanSoFar(t)
  <2>1. t.pc # "unbind"
    BY <1>4
  <2>2. siOn /\ \A d \in t.made : siBindings[d[2]] = d[1] /\ Wants(t, d[1])
    BY <1>0, <1>4, <1>5 DEF CleanSoFar
  <2>3. \A d \in t.todo : siBindings[d[2]] = d[1] /\ ~Wants(t, d[1])
    BY <1>0, <1>4, <1>5 DEF CleanSoFar
  <2> QED  BY <1>6, <1>7, <1>8, <1>9, <2>1, <2>2, <2>3 DEF CleanSoFar
<1>11. ~GoesOff(t) /\ ~InLoop(t)
  BY <1>4 DEF GoesOff, InLoop, AtSwitch
<1> QED  BY <1>4, <1>10, <1>11 DEF Undisturbed

LEMMA StaleUndisturbed ==
  ASSUME NEW p \in SiProcs, Stands(p), Stale(p), NEW t, siProc'[p] = t
  PROVE  Undisturbed(t)'
<1> DEFINE s == siProc[p]
<1>0. /\ s \in Places /\ Projects(s) /\ s.pc = "stale" /\ UpToDate(s) /\ CleanSoFar(s) /\ siCache = siDb
      /\ s.want = Wanted /\ s.todo \subseteq Binding /\ siDb \in [SiChannels -> ChannelRows \cup {SiNone}]
      /\ siBindings \in [SiChannels -> Names \cup {SiNone}] /\ ~AtSwitch(s) /\ s.saw = PausedGroups
      /\ Shape /\ OneBinding /\ Undisturbed(s)
  BY StandsFacts DEF Stale, Stands, Undisturbed, Cleans, Projects, AtSwitch
<1>1. PICK e \in s.todo : LET c == e[2]  rest == [s EXCEPT !.todo = @ \ {e}] IN
        /\ UNCHANGED <<siRows, siBindings, siRetired>>
        /\ \/ /\ e[1][1] \in s.saw /\ t = Switching(c, FALSE, rest)
              /\ UNCHANGED <<siDb, siCache, siItems>>
           \/ /\ t = [rest EXCEPT !.pc = "unbind", !.cur = c]
              /\ siItems' \subseteq siItems
              /\ \/ siDb' = siDb /\ siCache' = siCache
                 \/ siDb' = [siDb EXCEPT ![c] = SiNone] /\ siCache' = [siCache EXCEPT ![c] = SiNone]
  <2>2. \A u : Quiet(p, u) \/ Wrote(p, u) => t = u
    BY OwnStep
  <2> QED  BY <2>2 DEF Stale
<1> DEFINE c == e[2]
           rest == [s EXCEPT !.todo = @ \ {e}]
<1>2. /\ rest \in Places /\ rest.pc = "stale" /\ rest.want = s.want /\ rest.saw = s.saw
      /\ rest.todo = s.todo \ {e} /\ rest.made = s.made
  BY <1>0 DEF Places
<1>3. /\ e = <<e[1], c>> /\ c \in SiChannels /\ siBindings[c] = e[1] /\ e[1] # SiNone /\ ~Wants(s, e[1])
      /\ e \notin s.made
  BY <1>0, Constants DEF Binding, CleanSoFar
<1>4. CASE e[1][1] \in s.saw /\ t = Switching(c, FALSE, rest) /\ UNCHANGED <<siDb, siCache, siItems>>
  <2>1. rest.made = s.made \ {e}
    BY <1>2, <1>3
  <2> HIDE DEF rest
  <2>2. Undisturbed(t)
    BY <1>0, <1>2, <1>4, <2>1, SwitchBegunUndisturbed
  <2>3. UNCHANGED <<siRows, siChannelVars>>
    BY <1>1, <1>4 DEF siChannelVars
  <2> QED  BY <2>2, <2>3, StillUndisturbed
<1>5. CASE /\ t = [rest EXCEPT !.pc = "unbind", !.cur = c] /\ siItems' \subseteq siItems
           /\ \/ siDb' = siDb /\ siCache' = siCache
              \/ siDb' = [siDb EXCEPT ![c] = SiNone] /\ siCache' = [siCache EXCEPT ![c] = SiNone]
  <2>1. /\ t.pc = "unbind" /\ t.cur = c /\ t.want = s.want /\ t.saw = s.saw /\ t.todo = s.todo \ {e}
        /\ t.made = s.made
    BY <1>2, <1>5 DEF Places
  <2>2. /\ siCache' = siDb' /\ siBindings' = siBindings /\ siRetired' = siRetired /\ UNCHANGED siRows
        /\ \A d \in SiChannels \ {c} : siDb'[d] = siDb[d] /\ siCache'[d] = siCache[d]
    BY <1>0, <1>1, <1>5
  <2>3. UpToDate(t)'
    BY <1>0, <2>1, <2>2, RowsStay DEF UpToDate, AtSwitch
  <2>4. \A n : Wants(t, n) <=> Wants(s, n)
    BY <2>1 DEF Wants
  <2>5. WantedStand(t)'
    <3> SUFFICES ASSUME NEW w \in s.want
                 PROVE  \E d \in SiChannels :
                          /\ siBindings[d] = w.name
                          /\ \/ <<w.name, d>> \in s.made /\ siDb'[d] = w
                             \/ siDb'[d] = [w EXCEPT !.on = siRetired[d] = SiNone]
      BY <2>1, <2>2 DEF WantedStand
    <3>1. PICK d \in SiChannels :
            /\ siBindings[d] = w.name
            /\ \/ <<w.name, d>> \in s.made /\ siDb[d] = w
               \/ siDb[d] = [w EXCEPT !.on = siRetired[d] = SiNone]
      BY <1>0 DEF CleanSoFar, WantedStand
    <3>2. d # c
      BY <1>3, <3>1 DEF Wants
    <3> QED  BY <2>2, <3>1, <3>2
  <2>6. OthersGo(t)'
    <3> SUFFICES ASSUME NEW d \in SiChannels, siBindings[d] # SiNone, d # c
                 PROVE  \/ Wants(s, siBindings[d]) \/ <<siBindings[d], d>> \in t.todo
                        \/ siBindings[d][1] \in s.saw /\ IsOff(d)'
      BY <2>1, <2>2, <2>4 DEF OthersGo, Wants
    <3>1. \/ Wants(s, siBindings[d]) \/ <<siBindings[d], d>> \in s.todo
          \/ siBindings[d][1] \in s.saw /\ IsOff(d)
      BY <1>0 DEF CleanSoFar, OthersGo, Turning
    <3>2. <<siBindings[d], d>> # e
      BY <1>3
    <3> QED  BY <2>1, <2>2, <3>1, <3>2 DEF IsOff
  <2>7. ItemsStand(t)'
    BY <1>0, <1>5, <2>1, <2>2 DEF CleanSoFar, ItemsStand
  <2>8. \A d \in t.todo : d[2] # c
    <3>1. ASSUME NEW d \in t.todo, d[2] = c
          PROVE  FALSE
      <4>1. d = <<d[1], d[2]>> /\ siBindings[d[2]] = d[1] /\ d # e
        BY <1>0, <2>1, <3>1 DEF Binding, CleanSoFar
      <4> QED  BY <1>3, <3>1, <4>1
    <3> QED  BY <3>1
  <2>9. siOn' /\ ~AtSwitch(t)
    BY <1>0, <2>1, <2>2 DEF CleanSoFar, siRows, AtSwitch
  <2>10. /\ \A d \in t.made : siBindings[d[2]] = d[1] /\ Wants(t, d[1])
         /\ \A d \in t.todo : siBindings[d[2]] = d[1] /\ ~Wants(t, d[1])
    BY <1>0, <2>1, <2>4 DEF CleanSoFar
  <2>11. ~Wants(t, siBindings[c])
    BY <1>3, <2>4
  <2>12. CleanSoFar(t)'
    BY <2>1, <2>2, <2>5, <2>6, <2>7, <2>8, <2>9, <2>10, <2>11 DEF CleanSoFar, AtSwitch, Wants
  <2> QED  BY <2>1, <2>3, <2>12, CleansUndisturbed DEF Cleans
<1> QED  BY <1>1, <1>4, <1>5

LEMMA UnbindUndisturbed ==
  ASSUME NEW p \in SiProcs, Stands(p), Unbind(p), NEW t, siProc'[p] = t
  PROVE  Undisturbed(t)'
<1> DEFINE s == siProc[p]
           c == s.cur
<1>0. /\ s \in Places /\ s.pc = "unbind" /\ CleanSoFar(s) /\ siCache = siDb /\ c \in SiChannels
      /\ s.want = Wanted /\ siBindings \in [SiChannels -> Names \cup {SiNone}] /\ s.saw = PausedGroups
      /\ s.todo \subseteq Binding /\ s.made \subseteq Binding
  BY StandsFacts DEF Unbind, Stands, Undisturbed, Cleans, Projects, Places
<1>1. /\ t = [s EXCEPT !.pc = "stale", !.cur = SiNone] /\ siBindings' = [siBindings EXCEPT ![c] = SiNone]
      /\ UNCHANGED <<siRows, siDb, siCache, siItems, siRetired>>
  BY OwnStep DEF Unbind
<1>2. /\ t.pc = "stale" /\ t.want = s.want /\ t.saw = s.saw /\ t.todo = s.todo /\ t.made = s.made
      /\ ~AtSwitch(t) /\ ~AtSwitch(s)
  BY <1>0, <1>1 DEF Places, AtSwitch
<1>3. UpToDate(t)'
  BY <1>0, <1>1, <1>2, RowsStay DEF UpToDate, AtSwitch
<1>4. /\ siBindings'[c] = SiNone /\ \A d \in SiChannels \ {c} : siBindings'[d] = siBindings[d]
      /\ ~Wants(s, siBindings[c]) /\ \A e \in s.todo : e[2] # c
  BY <1>0, <1>1 DEF CleanSoFar
<1>5. \A d \in SiChannels : Wants(s, siBindings[d]) => siBindings'[d] = siBindings[d]
  BY <1>4
<1>6. WantedStand(t)'
  <2> SUFFICES ASSUME NEW w \in s.want
               PROVE  \E d \in SiChannels :
                        /\ siBindings'[d] = w.name
                        /\ \/ <<w.name, d>> \in s.made /\ siDb[d] = w
                           \/ siDb[d] = [w EXCEPT !.on = siRetired[d] = SiNone]
    BY <1>1, <1>2 DEF WantedStand
  <2>1. PICK d \in SiChannels :
          /\ siBindings[d] = w.name
          /\ \/ <<w.name, d>> \in s.made /\ siDb[d] = w
             \/ siDb[d] = [w EXCEPT !.on = siRetired[d] = SiNone]
    BY <1>0 DEF CleanSoFar, WantedStand
  <2>2. siBindings'[d] = w.name
    BY <1>5, <2>1 DEF Wants
  <2> QED  BY <2>1, <2>2
<1>7. OthersGo(t)'
  <2> SUFFICES ASSUME NEW d \in SiChannels, siBindings'[d] # SiNone
               PROVE  \/ Wants(s, siBindings'[d]) \/ <<siBindings'[d], d>> \in s.todo
                      \/ siBindings'[d][1] \in s.saw /\ IsOff(d)
    BY <1>1, <1>2 DEF OthersGo, Wants, IsOff
  <2>1. d # c /\ siBindings'[d] = siBindings[d]
    BY <1>4
  <2> QED  BY <1>0, <1>2, <2>1 DEF CleanSoFar, OthersGo, Turning
<1>8. ItemsStand(t)'
  <2> SUFFICES ASSUME NEW i \in siItems, siBindings'[i[2]] # SiNone, siBindings'[i[2]][1] \notin s.saw
               PROVE  \E w \in s.want : w.name = siBindings'[i[2]] /\ i[1] \in w.models
    BY <1>1, <1>2 DEF ItemsStand
  <2>1. i[2] \in SiChannels
    BY DEF Stands, Shape, SiTypeOK
  <2>2. siBindings'[i[2]] = siBindings[i[2]]
    BY <1>4, <2>1
  <2> QED  BY <1>0, <2>2 DEF CleanSoFar, ItemsStand
<1>9. \A n : Wants(t, n) <=> Wants(s, n)
  BY <1>2 DEF Wants
<1>10. \A e \in t.made : siBindings'[e[2]] = e[1] /\ Wants(t, e[1])
  <2> SUFFICES ASSUME NEW e \in s.made
               PROVE  siBindings'[e[2]] = e[1] /\ Wants(s, e[1])
    BY <1>2, <1>9
  <2>1. siBindings[e[2]] = e[1] /\ Wants(s, e[1]) /\ e[2] \in SiChannels
    BY <1>0 DEF CleanSoFar, Binding
  <2> QED  BY <1>5, <2>1
<1>11. \A e \in t.todo : siBindings'[e[2]] = e[1] /\ ~Wants(t, e[1])
  <2> SUFFICES ASSUME NEW e \in s.todo
               PROVE  siBindings'[e[2]] = e[1] /\ ~Wants(s, e[1])
    BY <1>2, <1>9
  <2>1. siBindings[e[2]] = e[1] /\ ~Wants(s, e[1]) /\ e[2] \in SiChannels
    BY <1>0 DEF CleanSoFar, Binding
  <2> QED  BY <1>4, <2>1
<1>12. siOn'
  BY <1>0, <1>1 DEF CleanSoFar, siRows
<1>13. CleanSoFar(t)'
  BY <1>2, <1>6, <1>7, <1>8, <1>10, <1>11, <1>12 DEF CleanSoFar, AtSwitch, Wants
<1> QED  BY <1>2, <1>3, <1>13, CleansUndisturbed DEF Cleans

LEMMA KeepRetiredUndisturbed ==
  ASSUME NEW p \in SiProcs, Stands(p), KeepRetired(p), NEW t, siProc'[p] = t
  PROVE  Undisturbed(t)'
<1> DEFINE s == siProc[p]
<1>0. /\ s \in Places /\ Projects(s) /\ s.pc = "stale" /\ s.todo = {} /\ UpToDate(s) /\ CleanSoFar(s)
      /\ ~AtSwitch(s) /\ Shape /\ OneBinding /\ Undisturbed(s) /\ s.want = Wanted
  BY StandsFacts DEF KeepRetired, Stands, Undisturbed, Cleans, AtSwitch
<1>1. PICK e \in s.made : LET rest == [s EXCEPT !.made = @ \ {e}] IN
        t = IF siRetired[e[2]] # SiNone THEN Switching(e[2], FALSE, rest) ELSE rest
  <2>1. \A u : Quiet(p, u) => t = u
    BY OwnStep
  <2> QED  BY <2>1 DEF KeepRetired
<1> DEFINE rest == [s EXCEPT !.made = @ \ {e}]
<1>2. /\ rest \in Places /\ rest.pc = "stale" /\ rest.want = s.want /\ rest.saw = s.saw
      /\ rest.todo = s.todo \ {e} /\ rest.made = s.made \ {e} /\ rest.todo = {}
  BY <1>0 DEF Places
<1>3. UNCHANGED <<siRows, siChannelVars>>
  BY DEF KeepRetired
<1> SUFFICES Undisturbed(t)
  BY <1>3, StillUndisturbed
<1>4. CASE siRetired[e[2]] # SiNone
  <2>1. t = Switching(e[2], FALSE, rest)
    BY <1>1, <1>4
  <2> HIDE DEF rest
  <2> QED  BY <1>0, <1>2, <1>4, <2>1, SwitchBegunUndisturbed
<1>5. CASE siRetired[e[2]] = SiNone
  <2>1. t = rest
    BY <1>1, <1>5
  <2> HIDE DEF rest
  <2>2. UpToDate(t) /\ ~AtSwitch(t)
    BY <1>0, <1>2, <2>1 DEF UpToDate, AtSwitch
  <2>3. WantedStand(t)
    <3> SUFFICES ASSUME NEW w \in s.want
                 PROVE  \E d \in SiChannels :
                          /\ siBindings[d] = w.name
                          /\ \/ <<w.name, d>> \in t.made /\ siDb[d] = w
                             \/ siDb[d] = [w EXCEPT !.on = siRetired[d] = SiNone]
      BY <1>2, <2>1 DEF WantedStand
    <3>1. PICK d \in SiChannels :
            /\ siBindings[d] = w.name
            /\ \/ <<w.name, d>> \in s.made /\ siDb[d] = w
               \/ siDb[d] = [w EXCEPT !.on = siRetired[d] = SiNone]
      BY <1>0 DEF CleanSoFar, WantedStand
    <3>2. CASE <<w.name, d>> = e /\ siDb[d] = w
      <4>1. e[2] = d /\ w = [w EXCEPT !.on = TRUE]
        BY <1>0, <3>2, WantedFacts
      <4> QED  BY <1>5, <3>1, <3>2, <4>1
    <3> QED  BY <1>2, <2>1, <3>1, <3>2
  <2>4. OthersGo(t) /\ ItemsStand(t)
    BY <1>0, <1>2, <2>1 DEF CleanSoFar, OthersGo, ItemsStand, Wants, Turning
  <2>5. CleanSoFar(t)
    BY <1>0, <1>2, <2>1, <2>2, <2>3, <2>4 DEF CleanSoFar, Wants
  <2>6. ~GoesOff(t) /\ ~InLoop(t)
    BY <1>2, <2>1 DEF GoesOff, InLoop, AtSwitch
  <2> QED  BY <2>2, <2>5, <2>6 DEF Undisturbed
<1> QED  BY <1>4, <1>5

LEMMA SwitchRowUndisturbed ==
  ASSUME NEW p \in SiProcs, Stands(p), SwitchRow(p), NEW t, siProc'[p] = t
  PROVE  Undisturbed(t)'
<1> DEFINE s == siProc[p]
           c == s.switch.c
           n == siBindings[c]
<1>0. /\ s \in Places /\ Projects(s) /\ s.pc = "switch" /\ AtSwitch(s) /\ UpToDate(s) /\ siCache = siDb
      /\ c \in SiChannels /\ s.switch.copy \in ChannelRows /\ s.switch.back \in {"off", "stale"} /\ ~s.switch.to
      /\ s.switch.copy = siCache[c] /\ s.want = Wanted /\ s.saw = PausedGroups
      /\ siDb \in [SiChannels -> ChannelRows \cup {SiNone}]
  BY StandsFacts DEF SwitchRow, Stands, Undisturbed, UpToDate, AtSwitch, Projects
<1>1. /\ t = [s EXCEPT !.pc = "cache"]
      /\ siDb' = IF siDb[c] = SiNone THEN siDb ELSE [siDb EXCEPT ![c].on = s.switch.to]
      /\ UNCHANGED <<siRows, siCache, siBindings, siItems, siRetired>>
  BY OwnStep DEF SwitchRow
<1>2. /\ t.pc = "cache" /\ t.switch = s.switch /\ t.want = s.want /\ t.saw = s.saw /\ t.todo = s.todo
      /\ t.made = s.made /\ AtSwitch(t)
  BY <1>0, <1>1 DEF Places, AtSwitch
<1>3. siDb[c] # SiNone /\ siDb[c] \in ChannelRows /\ siDb' = [siDb EXCEPT ![c] = [siDb[c] EXCEPT !.on = FALSE]]
  <2>1. siDb[c] # SiNone /\ siDb[c] \in ChannelRows
    BY <1>0, Constants
  <2>2. s.switch.to = FALSE
    BY <1>0 DEF Projects, Places, Switches
  <2> QED  BY <1>0, <1>1, <2>1, <2>2
<1>4. UpToDate(t)'
  <2>1. siDb' = [siCache EXCEPT ![c] = [s.switch.copy EXCEPT !.on = FALSE]]
    BY <1>0, <1>3
  <2>2. t.switch.c = c /\ t.switch.copy = s.switch.copy /\ siCache' = siCache /\ Wanted' = Wanted
        /\ PausedGroups' = PausedGroups
    BY <1>1, <1>2, RowsStay
  <2> QED  BY <1>0, <1>2, <2>1, <2>2 DEF UpToDate
<1>5. \A d \in SiChannels \ {c} : siDb'[d] = siDb[d]
  BY <1>0, <1>3
<1>6. CASE s.switch.back = "off"
  <2>1. OffSoFar(s) /\ s.made = {}
    BY <1>0, <1>6 DEF Stands, Undisturbed, GoesOff, OffSoFar
  <2>2. \A d \in SiChannels \ {c} : IsOff(d) => IsOff(d)'
    BY <1>1, <1>5 DEF IsOff
  <2>3. OffSoFar(t)'
    BY <1>1, <1>2, <2>1, <2>2 DEF OffSoFar, Turning, siRows
  <2> QED  BY <1>2, <1>4, <1>6, <2>3 DEF Undisturbed, GoesOff, InLoop, Cleans
<1>7. CASE s.switch.back = "stale"
  <2>1. CleanSoFar(s)
    BY <1>0, <1>7 DEF Stands, Undisturbed, Cleans
  <2>2. \A m : Wants(t, m) <=> Wants(s, m)
    BY <1>2 DEF Wants
  <2>3. /\ n # SiNone
        /\ IF Wants(s, n) THEN s.todo = {} /\ siRetired[c] # SiNone /\ <<n, c>> \notin s.made ELSE n[1] \in s.saw
    BY <1>0, <2>1 DEF CleanSoFar
  <2>4. WantedStand(t)'
    <3> SUFFICES ASSUME NEW w \in s.want
                 PROVE  \E d \in SiChannels :
                          /\ siBindings[d] = w.name
                          /\ \/ <<w.name, d>> \in s.made /\ siDb'[d] = w
                             \/ siDb'[d] = [w EXCEPT !.on = siRetired[d] = SiNone]
      BY <1>1, <1>2 DEF WantedStand
    <3>1. PICK d \in SiChannels :
            /\ siBindings[d] = w.name
            /\ \/ <<w.name, d>> \in s.made /\ siDb[d] = w
               \/ siDb[d] = [w EXCEPT !.on = siRetired[d] = SiNone]
               \/ d = c /\ siDb[d] = w /\ siRetired[d] # SiNone
      BY <2>1 DEF CleanSoFar, WantedStand
    <3>2. CASE d # c
      BY <1>5, <3>1, <3>2
    <3>3. CASE d = c
      <4>1. Wants(s, n) /\ n = w.name
        BY <3>1, <3>3 DEF Wants
      <4>2. siRetired[c] # SiNone /\ <<w.name, c>> \notin s.made
        BY <2>3, <4>1
      <4>3. siDb[c] = w \/ siDb[c] = [w EXCEPT !.on = FALSE]
        BY <3>1, <3>3, <4>2
      <4>4. siDb'[c] = [siDb[c] EXCEPT !.on = FALSE]
        BY <1>0, <1>3
      <4>5. w \in ChannelRows
        BY <1>0, WantedAreRows DEF Stands, Shape
      <4>6. siDb'[c] = [w EXCEPT !.on = FALSE]
        BY <4>3, <4>4, <4>5 DEF ChannelRows
      <4> QED  BY <3>1, <3>3, <4>2, <4>6
    <3> QED  BY <3>2, <3>3
  <2>5. OthersGo(t)'
    <3> SUFFICES ASSUME NEW d \in SiChannels, siBindings[d] # SiNone
                 PROVE  \/ Wants(s, siBindings[d]) \/ <<siBindings[d], d>> \in s.todo
                        \/ siBindings[d][1] \in s.saw /\ (IsOff(d)' \/ d = c)
      BY <1>1, <1>2, <2>2 DEF OthersGo, Turning, Wants
    <3>1. \/ Wants(s, siBindings[d]) \/ <<siBindings[d], d>> \in s.todo
          \/ siBindings[d][1] \in s.saw /\ (IsOff(d) \/ d = c)
      BY <1>0, <2>1 DEF CleanSoFar, OthersGo, Turning
    <3>2. d # c => (IsOff(d) => IsOff(d)')
      BY <1>1, <1>5 DEF IsOff
    <3> QED  BY <3>1, <3>2
  <2>6. ItemsStand(t)'
    BY <1>1, <1>2, <2>1 DEF CleanSoFar, ItemsStand
  <2>7. siOn'
    BY <1>1, <2>1 DEF CleanSoFar, siRows
  <2>8. /\ \A e \in t.made : siBindings[e[2]] = e[1] /\ Wants(t, e[1])
        /\ \A e \in t.todo : siBindings[e[2]] = e[1] /\ ~Wants(t, e[1])
    BY <1>2, <2>1, <2>2 DEF CleanSoFar
  <2>9. /\ n # SiNone
        /\ IF Wants(t, n) THEN t.todo = {} /\ siRetired[c] # SiNone /\ <<n, c>> \notin t.made ELSE n[1] \in t.saw
    BY <1>2, <2>2, <2>3
  <2>10. CleanSoFar(t)'
    BY <1>1, <1>2, <2>4, <2>5, <2>6, <2>7, <2>8, <2>9 DEF CleanSoFar, Wants
  <2> QED  BY <1>2, <1>4, <1>7, <2>10, CleansUndisturbed DEF Cleans
<1> QED  BY <1>0, <1>6, <1>7

LEMMA SwitchCacheUndisturbed ==
  ASSUME NEW p \in SiProcs, Stands(p), SwitchCache(p), NEW t, siProc'[p] = t
  PROVE  Undisturbed(t)'
<1> DEFINE s == siProc[p]
           c == s.switch.c
           n == siBindings[c]
<1>0. /\ s \in Places /\ Projects(s) /\ s.pc = "cache" /\ AtSwitch(s)
      /\ siDb = [siCache EXCEPT ![c] = [s.switch.copy EXCEPT !.on = FALSE]]
      /\ c \in SiChannels /\ s.switch.back \in {"off", "stale"} /\ s.switch.copy \in ChannelRows
      /\ s.want = Wanted /\ s.saw = PausedGroups /\ siCache \in [SiChannels -> ChannelRows \cup {SiNone}]
  BY StandsFacts DEF SwitchCache, Stands, Undisturbed, UpToDate, AtSwitch, Projects
<1>1. /\ t = [s EXCEPT !.pc = s.switch.back, !.switch = NoSwitch]
      /\ siCache' = [siCache EXCEPT ![c] = [s.switch.copy EXCEPT !.on = s.switch.to]]
      /\ UNCHANGED <<siRows, siDb, siBindings, siItems, siRetired>>
  BY OwnStep DEF SwitchCache
<1>2. /\ t.pc = s.switch.back /\ t.want = s.want /\ t.saw = s.saw /\ t.todo = s.todo
      /\ t.made = s.made /\ ~AtSwitch(t)
  BY <1>0, <1>1 DEF Places, AtSwitch
<1>3. siCache' = siDb
  <2>1. s.switch.to = FALSE
    BY <1>0 DEF Projects, Places, Switches
  <2> QED  BY <1>0, <1>1, <2>1
<1>4. UpToDate(t)'
  BY <1>0, <1>1, <1>2, <1>3, RowsStay DEF UpToDate, AtSwitch
<1>5. /\ \A d \in SiChannels \ {c} : siDb[d] = siCache[d]
      /\ ~siDb[c].on
  BY <1>0 DEF ChannelRows
<1>6. \A d \in SiChannels : d = c \/ IsOff(d) => IsOff(d)'
  BY <1>1, <1>3, <1>5 DEF IsOff
<1>7. CASE s.switch.back = "off"
  <2>1. OffSoFar(s)
    BY <1>0, <1>7 DEF Stands, Undisturbed, GoesOff
  <2>2. OffSoFar(t)'
    <3> SUFFICES ASSUME NEW d \in SiChannels, siBindings[d] # SiNone
                 PROVE  <<siBindings[d], d>> \in s.todo \/ IsOff(d)'
      BY <1>1, <1>2, <2>1 DEF OffSoFar, siRows
    <3>1. <<siBindings[d], d>> \in s.todo \/ IsOff(d) \/ d = c
      BY <2>1 DEF OffSoFar, Turning
    <3> QED  BY <1>6, <3>1
  <2> QED  BY <1>2, <1>4, <1>7, <2>2 DEF Undisturbed, GoesOff, InLoop, Cleans
<1>8. CASE s.switch.back = "stale"
  <2>1. CleanSoFar(s)
    BY <1>0, <1>8 DEF Stands, Undisturbed, Cleans
  <2>2. \A m : Wants(t, m) <=> Wants(s, m)
    BY <1>2 DEF Wants
  <2>3. WantedStand(t)'
    BY <1>0, <1>1, <1>2, <2>1 DEF CleanSoFar, WantedStand
  <2>4. OthersGo(t)'
    <3> SUFFICES ASSUME NEW d \in SiChannels, siBindings[d] # SiNone
                 PROVE  \/ Wants(s, siBindings[d]) \/ <<siBindings[d], d>> \in s.todo
                        \/ siBindings[d][1] \in s.saw /\ IsOff(d)'
      BY <1>1, <1>2, <2>2 DEF OthersGo, Wants
    <3>1. \/ Wants(s, siBindings[d]) \/ <<siBindings[d], d>> \in s.todo
          \/ siBindings[d][1] \in s.saw /\ (IsOff(d) \/ d = c)
      BY <1>0, <2>1 DEF CleanSoFar, OthersGo, Turning
    <3> QED  BY <1>6, <3>1
  <2>5. ItemsStand(t)'
    BY <1>1, <1>2, <2>1 DEF CleanSoFar, ItemsStand
  <2>6. siOn'
    BY <1>1, <2>1 DEF CleanSoFar, siRows
  <2>7. /\ \A e \in t.made : siBindings[e[2]] = e[1] /\ Wants(t, e[1])
        /\ \A e \in t.todo : siBindings[e[2]] = e[1] /\ ~Wants(t, e[1])
    BY <1>2, <2>1, <2>2 DEF CleanSoFar
  <2>8. CleanSoFar(t)'
    BY <1>1, <1>2, <1>8, <2>3, <2>4, <2>5, <2>6, <2>7 DEF CleanSoFar, Wants
  <2> QED  BY <1>2, <1>4, <1>8, <2>8, CleansUndisturbed DEF Cleans
<1> QED  BY <1>0, <1>7, <1>8

\* A goroutine is undisturbed only since it began.
LEMMA CleanBefore ==
  ASSUME Shape, NEW p \in SiProcs, SiProject(p) \/ SiSwitch(p), ~ProjectStart(p), ~Load(p),
         siProc'[p].clean
  PROVE  siProc[p].clean /\ ~Projected(p)
<1> DEFINE s == siProc[p]
           t == siProc'[p]
<1>0. s \in Places /\ DOMAIN siProc = Goroutines /\ p \in Goroutines
  BY Constants DEF Shape, PlacesFit
<1>a. \A new : Quiet(p, new) \/ Wrote(p, new) => t = new
  BY <1>0 DEF Quiet, Wrote
<1>b. t # Idle
  BY DEF Idle
<1>c. ~Projected(p)
  BY <1>0, <1>b DEF Projected
<1>d. \A c, then : then \in Places /\ t = Switching(c, FALSE, then) => then.clean
  <2>1. ASSUME NEW c, NEW then \in Places, NEW sw, t = [then EXCEPT !.pc = "switch", !.switch = sw]
        PROVE  then.clean
    BY <2>1 DEF Places
  <2> QED  BY <2>1 DEF Switching
<1>1. CASE List(p) \/ Join(p) \/ Unbind(p) \/ SiSwitch(p)
  <2>1. \/ t = [s EXCEPT !.pc = "bucket", !.bound = Entries]
        \/ \E pc : t = [s EXCEPT !.pc = pc, !.cur = SiNone]
        \/ \E pc : t = [s EXCEPT !.pc = pc, !.switch = NoSwitch]
        \/ t = [s EXCEPT !.pc = "cache"]
    BY <1>1, <1>a DEF List, Join, Unbind, SiSwitch, SwitchRow, SwitchCache
  <2> QED  BY <1>0, <1>c, <2>1 DEF Places
<1>2. CASE Off(p)
  <2>1. PICK e \in s.todo : t = Switching(e[2], FALSE, [s EXCEPT !.todo = @ \ {e}])
    BY <1>2, <1>a DEF Off
  <2>2. LET then == [s EXCEPT !.todo = @ \ {e}] IN then \in Places /\ then.clean = s.clean
    BY <1>0 DEF Places
  <2> QED  BY <1>c, <1>d, <2>1, <2>2
<1>3. CASE Stale(p)
  <2>1. PICK e \in s.todo :
          \/ t = Switching(e[2], FALSE, [s EXCEPT !.todo = @ \ {e}])
          \/ t = [[s EXCEPT !.todo = @ \ {e}] EXCEPT !.pc = "unbind", !.cur = e[2]]
    BY <1>3, <1>a DEF Stale
  <2>2. LET then == [s EXCEPT !.todo = @ \ {e}] IN then \in Places /\ then.clean = s.clean
    BY <1>0 DEF Places
  <2>3. t = [[s EXCEPT !.todo = @ \ {e}] EXCEPT !.pc = "unbind", !.cur = e[2]] => t.clean = s.clean
    BY <1>0 DEF Places
  <2> QED  BY <1>c, <1>d, <2>1, <2>2, <2>3
<1>4. CASE KeepRetired(p)
  <2>1. PICK e \in s.made : \/ t = Switching(e[2], FALSE, [s EXCEPT !.made = @ \ {e}])
                            \/ t = [s EXCEPT !.made = @ \ {e}]
    BY <1>4, <1>a DEF KeepRetired
  <2>2. LET then == [s EXCEPT !.made = @ \ {e}] IN then \in Places /\ then.clean = s.clean
    BY <1>0 DEF Places
  <2> QED  BY <1>c, <1>d, <2>1, <2>2
<1>5. CASE Bucketed(p)
  <2>1. PICK w \in s.todo : \E c, pc : /\ t = Idle \/ t = [s EXCEPT !.pc = pc, !.cur = [row |-> w, c |-> c]]
                                       /\ pc \in {"update", "create"}
    BY <1>5, <1>a DEF Bucketed
  <2>2. PICK c, pc : t = [s EXCEPT !.pc = pc, !.cur = [row |-> w, c |-> c]]
    BY <1>b, <2>1
  <2> QED  BY <1>0, <1>c, <2>2 DEF Places
<1>6. CASE Update(p) \/ Bind(p)
  <2>1. t = Bucketless(p, s.cur.c)
    BY <1>6, <1>a, <1>b DEF Update, Bind
  <2> QED  BY <1>0, <1>c, <2>1 DEF Places, Bucketless
<1>7. CASE Create(p)
  <2>1. PICK c : t = [s EXCEPT !.pc = "bind", !.cur.c = c]
    BY <1>7, <1>a, <1>b DEF Create
  <2> QED  BY <1>0, <1>c, <2>1 DEF Places
<1>8. CASE Rewrite(p)
  <2>1. t = [s EXCEPT !.pc = "stale", !.todo = {e \in s.bound : \A w \in s.want : w.name # e[1]}]
    BY <1>8, <1>a, <1>b DEF Rewrite, RewriteSome
  <2> QED  BY <1>0, <1>c, <2>1 DEF Places
<1> QED  BY <1>1, <1>2, <1>3, <1>4, <1>5, <1>6, <1>7, <1>8, <1>c DEF SiProject

\* A failure, and a synchronisation, leave nobody undisturbed who was at it.
LEMMA FailuresDisturb ==
  ASSUME Shape, NEW p \in SiProcs, SiSync(p) \/ SiFail(p)
  PROVE  ~siProc'[p].clean
<1> DEFINE s == siProc[p]
           t == siProc'[p]
<1>0. s \in Places /\ DOMAIN siProc = Goroutines /\ p \in Goroutines
  BY Constants DEF Shape, PlacesFit
<1>a. \A new : Quiet(p, new) \/ Wrote(p, new) => t = new
  BY <1>0 DEF Quiet, Wrote
<1>1. CASE SiSync(p)
  <2>1. \/ t = Idle \/ t = [Idle EXCEPT !.pc = "load"]
        \/ \E a : t = [Idle EXCEPT !.pc = IF a = SiNone THEN "failed" ELSE "persist",
                                   !.answer = a, !.saw = KnownGroups]
    BY <1>1, <1>a DEF SiSync, SyncStart, Persist, MarkStale
  <2>2. CASE t = Idle \/ t = [Idle EXCEPT !.pc = "load"]
    BY <2>2 DEF Idle
  <2>3. ASSUME NEW a, t = [Idle EXCEPT !.pc = IF a = SiNone THEN "failed" ELSE "persist",
                                       !.answer = a, !.saw = KnownGroups]
        PROVE  ~t.clean
    BY <2>3 DEF Idle
  <2> QED  BY <2>1, <2>2, <2>3
<1>2. CASE SiFail(p)
  <2>1. \/ t = Idle
        \/ \E pc, cur : t = [s EXCEPT !.switch = NoSwitch, !.clean = FALSE, !.pc = pc, !.cur = cur]
        \/ \E e : t = [s EXCEPT !.pc = "unbind", !.cur = e[2], !.clean = FALSE, !.todo = @ \ {e}]
        \/ \E e : t = [s EXCEPT !.made = @ \ {e}, !.clean = FALSE]
    <3>1. ASSUME s.pc \in {"switch", "join"},
                 Quiet(p, [s EXCEPT !.switch = NoSwitch, !.clean = FALSE,
                                    !.pc = IF @ = "switch" THEN s.switch.back ELSE "bucket",
                                    !.cur = IF s.pc = "join" THEN SiNone ELSE @])
          PROVE  \E pc, cur : t = [s EXCEPT !.switch = NoSwitch, !.clean = FALSE, !.pc = pc, !.cur = cur]
      <4> DEFINE pc == IF s.pc = "switch" THEN s.switch.back ELSE "bucket"
                 cur == IF s.pc = "join" THEN SiNone ELSE s.cur
      <4>1. t = [s EXCEPT !.switch = NoSwitch, !.clean = FALSE, !.pc = pc, !.cur = cur]
        BY <1>a, <3>1
      <4> QED  BY <4>1
    <3> QED  BY <1>2, <1>a, <3>1 DEF SiFail, RewriteSome
  <2>2. t # Idle => t.clean = FALSE
    BY <1>0, <2>1 DEF Places
  <2> QED  BY <2>2 DEF Idle
<1> QED  BY <1>1, <1>2

LEMMA UndisturbedStep ==
  ASSUME Shape, OneBinding, OneName, AllUndisturbed, [SoNext]_siVars
  PROVE  AllUndisturbed'
<1> SUFFICES ASSUME NEW p \in SiProcs, siProc'[p].clean
             PROVE  Undisturbed(siProc[p])'
  BY DEF AllUndisturbed
<1> DEFINE s == siProc[p]
           t == siProc'[p]
<1>0. s \in Places /\ Projects(s) /\ DOMAIN siProc = Goroutines /\ p \in Goroutines
  BY Constants DEF Shape, PlacesFit, Fits
<1>a. \A new : Quiet(p, new) => t = new
  BY <1>0 DEF Quiet
<1>1. CASE t = s /\ UNCHANGED <<siRows, siChannelVars>>
  BY <1>1, StillUndisturbed DEF AllUndisturbed
<1>2. CASE ProjectStart(p) \/ Load(p)
  <2>1. t = Loaded /\ UNCHANGED <<siRows, siChannelVars>>
    BY <1>2, <1>a DEF ProjectStart, Load
  <2>2. siCache = siDb
    BY <2>1 DEF Loaded, Idle
  <2> QED  BY <2>1, <2>2, LoadedUndisturbed, StillUndisturbed
<1>3. ASSUME SiProject(p) \/ SiSwitch(p), ~ProjectStart(p), ~Load(p)
      PROVE  Undisturbed(siProc[p])'
  <2>1. s.clean /\ ~Projected(p)
    BY <1>3, CleanBefore
  <2>2. Stands(p) /\ Undisturbed(s)
    BY <2>1 DEF AllUndisturbed, Stands
  <2>3. CASE List(p)
    <3>1. t = [s EXCEPT !.pc = "bucket", !.bound = Entries] /\ UNCHANGED <<siRows, siChannelVars>> /\ s.pc = "list"
      BY <1>a, <2>3 DEF List
    <3> QED  BY <1>0, <2>2, <3>1, ListUndisturbed, StillUndisturbed
  <2>4. CASE Off(p)
    <3>1. PICK e \in s.todo : t = Switching(e[2], FALSE, [s EXCEPT !.todo = @ \ {e}])
      BY <1>a, <2>4 DEF Off
    <3>2. UNCHANGED <<siRows, siChannelVars>> /\ s.pc = "off"
      BY <2>4 DEF Off
    <3>3. Undisturbed(t)
      BY <1>0, <2>2, <3>1, <3>2, OffUndisturbed
    <3> QED  BY <3>2, <3>3, StillUndisturbed
  <2>5. CASE Bucketed(p) \/ Update(p) \/ Create(p) \/ Bind(p) \/ Join(p)
    BY <2>2, <2>5, BucketedUndisturbed, UpdateUndisturbed, CreateUndisturbed, BindUndisturbed, JoinUndisturbed
  <2>6. CASE Rewrite(p) \/ Stale(p) \/ Unbind(p) \/ KeepRetired(p)
    BY <2>2, <2>6, RewriteUndisturbed, StaleUndisturbed, UnbindUndisturbed, KeepRetiredUndisturbed
  <2>7. CASE SiSwitch(p)
    BY <2>2, <2>7, SwitchRowUndisturbed, SwitchCacheUndisturbed DEF SiSwitch
  <2> QED  BY <1>3, <2>1, <2>3, <2>4, <2>5, <2>6, <2>7 DEF SiProject
<1> QED  BY <1>1, <1>2, <1>3, CleanSteps, FailuresDisturb

\* What a projection leaves that nothing disturbed.
LEMMA TheEndIsFaithful ==
  ASSUME NEW p \in SiProcs, Stands(p), Projected(p)
  PROVE  ChannelsAreTheAccounts
<1> DEFINE s == siProc[p]
<1>0. /\ s.pc \in {"stale", "off"} /\ s.todo = {} /\ s.made = {} /\ s.want = Wanted /\ s.saw = PausedGroups
      /\ siCache = siDb /\ ~AtSwitch(s) /\ siBindings \in [SiChannels -> Names \cup {SiNone}]
      /\ siItems \subseteq SiModels \X SiChannels /\ Undisturbed(s)
  BY StandsFacts DEF Projected, AtSwitch, Stands, Shape, SiTypeOK
<1>1. \A e \in Entries : e[2] \in SiChannels /\ e[1] = siBindings[e[2]] /\ e[1] # SiNone
  BY DEF Entries
<1>2. CASE s.pc = "off"
  <2>1. OffSoFar(s)
    BY <1>0, <1>2 DEF Undisturbed, GoesOff
  <2> QED  BY <1>0, <1>1, <2>1 DEF OffSoFar, Turning, ChannelsAreTheAccounts
<1>3. CASE s.pc = "stale"
  <2>1. CleanSoFar(s)
    BY <1>0, <1>3 DEF Undisturbed, Cleans
  <2>2. ASSUME NEW w \in Wanted
        PROVE  \E c \in SiChannels : siBindings[c] = w.name /\ Bound(Entries, w.name) = {c} /\ Serves(c, w)
    <3>1. PICK c \in SiChannels : siBindings[c] = w.name /\ siDb[c] = [w EXCEPT !.on = siRetired[c] = SiNone]
      BY <1>0, <1>3, <2>1, <2>2 DEF CleanSoFar, WantedStand
    <3>2. w.name # SiNone
      BY WantedFacts, Constants
    <3>3. \A d \in SiChannels : siBindings[d] = w.name => d = c
      BY <3>1, <3>2 DEF Stands, OneBinding
    <3>4. Bound(Entries, w.name) = {c}
      BY <3>1, <3>2, <3>3, BoundEntries
    <3> QED  BY <1>0, <3>1, <3>4 DEF Serves
  <2>3. ASSUME NEW e \in Entries
        PROVE  (\E w \in Wanted : w.name = e[1]) \/ (e[1][1] \in PausedGroups /\ IsOff(e[2]))
    BY <1>0, <1>1, <1>3, <2>1 DEF CleanSoFar, OthersGo, Wants, Turning
  <2>4. ASSUME NEW i \in siItems, siBindings[i[2]] # SiNone, siBindings[i[2]][1] \notin PausedGroups
        PROVE  i[1] \in siDb[i[2]].models
    <3>1. PICK w \in Wanted : w.name = siBindings[i[2]] /\ i[1] \in w.models
      BY <1>0, <2>1, <2>4 DEF CleanSoFar, ItemsStand
    <3>2. PICK c \in SiChannels : siBindings[c] = w.name /\ Serves(c, w)
      BY <2>2
    <3>3. c = i[2]
      BY <1>0, <2>4, <3>1, <3>2 DEF Stands, OneBinding
    <3>4. w \in ChannelRows
      BY WantedAreRows DEF Stands, Shape
    <3>5. siDb[c].models = w.models
      BY <3>2, <3>4 DEF Serves, ChannelRows
    <3> QED  BY <3>1, <3>3, <3>5
  <2>5. siOn
    BY <2>1 DEF CleanSoFar
  <2> QED  BY <2>2, <2>3, <2>4, <2>5 DEF ChannelsAreTheAccounts
<1> QED  BY <1>0, <1>2, <1>3

LEMMA FaithfulStays ==
  ASSUME UNCHANGED <<siRows, siChannelVars>>, ChannelsAreTheAccounts
  PROVE  ChannelsAreTheAccounts'
<1>0. /\ siDb' = siDb /\ siCache' = siCache /\ siBindings' = siBindings /\ siItems' = siItems
      /\ siRetired' = siRetired
  BY DEF siChannelVars
<1>1. Wanted' = Wanted /\ PausedGroups' = PausedGroups /\ siOn' = siOn
  BY RowsStay
<1>2. Entries' = Entries
  BY <1>0 DEF Entries
<1> QED  BY <1>0, <1>1, <1>2 DEF ChannelsAreTheAccounts, Serves, IsOff

ProjectionInv == Shape /\ OneBinding /\ OneName /\ AllUndisturbed /\ ProjectionFaithful

LEMMA ProjectionInvInit ==
  ASSUME SiInit
  PROVE  ProjectionInv
<1>1. /\ siProc = [p \in Goroutines |-> Idle] /\ siFresh = FALSE
      /\ siDb = [c \in SiChannels |-> SiNone] /\ siBindings = [c \in SiChannels |-> SiNone]
  BY DEF SiInit, Goroutines
<1>2. OneBinding
  BY <1>1 DEF OneBinding
<1>3. OneName
  <2>1. \A s \in {Idle} : s.bound = {} /\ s.made = {} /\ s.pc = "idle" /\ s.clean = FALSE
    BY DEF Idle
  <2>2. ASSUME NEW n \in Names, NEW c \in SiChannels, Called(n, c)
        PROVE  FALSE
    BY <1>1, <2>1, <2>2, Constants DEF Called, Mentions
  <2> QED  BY <2>2 DEF OneName
<1>4. AllUndisturbed
  BY <1>1, Constants DEF AllUndisturbed, Idle
<1> QED  BY <1>1, <1>2, <1>3, <1>4, ShapeInit DEF ProjectionInv, ProjectionFaithful

LEMMA ProjectionInvStep ==
  ASSUME ProjectionInv, [SoNext]_siVars
  PROVE  ProjectionInv'
<1>1. Shape' /\ OneBinding' /\ OneName' /\ AllUndisturbed'
  BY ShapeStep, OneBindingStep, OneNameStep, UndisturbedStep DEF ProjectionInv
<1>2. ASSUME siFresh'
      PROVE  ChannelsAreTheAccounts'
  <2>1. CASE siFresh /\ UNCHANGED <<siRows, siChannelVars>>
    BY <2>1, FaithfulStays DEF ProjectionInv, ProjectionFaithful
  <2>2. ASSUME NEW p \in SiProcs, Projected(p), siProc[p].clean, UNCHANGED <<siRows, siChannelVars>>
        PROVE  ChannelsAreTheAccounts'
    <3>1. Stands(p)
      BY <2>2 DEF ProjectionInv, AllUndisturbed, Stands
    <3> QED  BY <2>2, <3>1, TheEndIsFaithful, FaithfulStays
  <2> QED  BY <1>2, <2>1, <2>2, CleanSteps DEF ProjectionInv
<1> QED  BY <1>1, <1>2 DEF ProjectionInv, ProjectionFaithful

(* A projection that began with a cache that agreed with the table and that  *)
(* nothing disturbed leaves the channels, the bindings, the cache and the    *)
(* items the account's rows ask for, whatever failed or overlapped before    *)
(* (ProjectAccount, sitesync/project.go).                                    *)
THEOREM ProjectionIsTheAccounts == SoSpec => []ProjectionFaithful
<1>1. SiInit => ProjectionInv
  BY ProjectionInvInit
<1>2. ProjectionInv /\ [SoNext]_siVars => ProjectionInv'
  BY ProjectionInvStep
<1>3. ProjectionInv => ProjectionFaithful
  BY DEF ProjectionInv
<1> QED  BY <1>1, <1>2, <1>3, PTL DEF SoSpec

=============================================================================
