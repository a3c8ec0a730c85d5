------------------------------ MODULE SiteSync ------------------------------
(***************************************************************************)
(* The synchronisation of one site account with the panel it lives on      *)
(* (internal/sitesync), and its projection onto managed channels: what the *)
(* panel answers about its tokens, groups and models, what one transaction *)
(* keeps of it beside the administrator's choices (persistSyncSnapshot),   *)
(* and the channels, bindings and group items ProjectAccount derives from  *)
(* the rows.  Nothing serialises the synchronisations and projections of   *)
(* an account: the batch task, the handlers, the goroutines they leave     *)
(* behind and the relay's route learning overlap (server/handlers/site.go, *)
(* relay/route_learning.go).                                               *)
(*                                                                         *)
(* A process is one such goroutine.  A step is one transaction or one      *)
(* operation of the op package, the managed switch of a channel in three;  *)
(* a failure or a restart may come between any two.  The platform is a     *)
(* management panel, whose channels are always split by route, so a        *)
(* channel's binding key and its name are the same pair of a group and a   *)
(* route.  Names are normalised and distinct, a token keeps its value, and *)
(* a group's suspension and the status that goes with it are one flag.     *)
(* Prices, balances and the texts of a synchronisation are left out.       *)
(***************************************************************************)
EXTENDS Naturals, FiniteSets, FiniteSetsExt

CONSTANTS
  SiProcs,           \* goroutines that synchronise or project the account, numbered
  SiTask,            \* the goroutine that retires outliers (SiteOutlier)
  SiGroups,          \* token groups, SiDefault among them: numbers, in the order of their keys
  SiDefault,
  SiModels,
  SiRoutes,          \* routes that are projected
  SiRouteOf,         \* InferSiteModelRouteType
  SiAnswers,         \* what the panel may answer
  SiChannels,        \* channel IDs, natural numbers
  SiEdited,          \* bound: groups whose rows the administrators edit
  SiStarts,          \* how a behaviour may start: whether the setting that makes projected
                     \* channels' models join the routing group is on, and bounds: how many
                     \* operations (synchronisations, projections, edits, rounds of SiTask)
                     \* it may have, how many of them, the last ones, may overlap, how many
                     \* may be rounds, and how many failures and restarts it may have
  SiNone

ModelKeys == SiGroups \X SiModels
Names == SiGroups \X SiRoutes

\* What the panel says, and the rows of the tables.
PanelSays == [tokens : [SiGroups -> {"none", "full", "masked"}], listed : SUBSET SiGroups,
              got : [SiGroups -> {"names", "failed", "unresolved"}],
              names : [SiGroups -> SUBSET SiModels], enable : [SiModels -> SUBSET SiGroups]]
TokenRows == [group : SiGroups, name : {"panel", "own"}, full : BOOLEAN, manual : BOOLEAN, on : BOOLEAN]
ModelRows == [on : BOOLEAN, route : SiRoutes, how : {"synced", "manual", "learned"},
              only : SUBSET SiGroups, own : BOOLEAN]
ChannelRows == [name : Names, models : SUBSET SiModels, on : BOOLEAN,
                keys : SUBSET ({"panel", "own"} \X BOOLEAN)]

ASSUME SiteAssumption ==
  /\ SiDefault \in SiGroups /\ SiTask \notin SiProcs
  /\ SiProcs \subseteq Nat /\ SiGroups \subseteq Nat /\ SiEdited \subseteq SiGroups
  /\ SiStarts \subseteq BOOLEAN \X [steps : Nat, overlap : Nat, rounds : Nat, faults : Nat]
  /\ SiRouteOf \in [SiModels -> SiRoutes] /\ SiChannels \subseteq Nat
  /\ SiAnswers \subseteq PanelSays
  /\ SiNone \notin SiAnswers /\ SiNone \notin SiChannels /\ SiNone \notin Names
  /\ SiNone \notin ModelRows /\ SiNone \notin ChannelRows

VARIABLES
  siAuto,      \* ProjectedChannelGlobalAutoGroupMode is not none
  siOn,        \* the site and the account are enabled
  siGroups,    \* SiteUserGroup: [paused, disabled] or SiNone, per group
  siTokens,    \* SiteToken: the rows
  siModels,    \* SiteModel: [on, route, how, only, own] or SiNone, per group and model
  siDb,        \* Channel: [name, models, keys, on] or SiNone, per ID
  siCache,     \* channelCache
  siBindings,  \* SiteChannelBinding: the key a channel is bound to, or SiNone
  siItems,     \* GroupItem: models and channels of one routing group
  siRetired,   \* SiteChannelOutlierState: the probes a retired channel passed, or SiNone
  siProc,      \* where each goroutine stands, and what it read
  siLeft,      \* what the bounds leave
  siFresh      \* history: the last that happened to the account is a projection
               \* nothing disturbed, which began with a cache that agreed with the table

siRows == <<siAuto, siOn, siGroups, siTokens, siModels>>
siChannelVars == <<siDb, siCache, siBindings, siItems, siRetired>>
siVars == <<siRows, siChannelVars, siProc, siLeft, siFresh>>

Token(g, name, full, manual, on) ==
  [group |-> g, name |-> name, full |-> full, manual |-> manual, on |-> on]
Switched(c, to, back) == [c |-> c, to |-> to, copy |-> siCache[c], back |-> back]
NoSwitch == [c |-> SiNone, to |-> FALSE, copy |-> SiNone, back |-> "idle"]
Idle == [pc |-> "idle", answer |-> SiNone, saw |-> {}, want |-> {}, bound |-> {}, made |-> {},
         todo |-> {}, cur |-> SiNone, switch |-> NoSwitch, clean |-> FALSE]

SiInit ==
  /\ siOn = TRUE /\ siGroups = [g \in SiGroups |-> SiNone]
  /\ siTokens = {} /\ siModels = [gm \in ModelKeys |-> SiNone]
  /\ siDb = [c \in SiChannels |-> SiNone] /\ siCache = siDb /\ siBindings = siDb
  /\ siItems = {} /\ siRetired = siDb
  /\ siProc = [p \in SiProcs \cup {SiTask} |-> Idle]
  /\ \E s \in SiStarts : siAuto = s[1] /\ siLeft = s[2]
  /\ siFresh = FALSE

\* p goes on.  What the others have read is out of date when this step wrote something.
Disturbed(s) == [s EXCEPT !.clean = FALSE]
Quiet(p, to) == siProc' = [siProc EXCEPT ![p] = to] /\ UNCHANGED siFresh
Wrote(p, to) ==
  /\ siProc' = [q \in DOMAIN siProc |-> IF q = p THEN to ELSE Disturbed(siProc[q])]
  /\ siFresh' = FALSE
\* A new goroutine takes the first place that is free.
Starts(p) == siProc[p].pc = "idle" /\ \A q \in SiProcs : q < p => siProc[q].pc # "idle"
Spend(rounds) ==
  /\ siLeft.steps > 0 /\ siLeft.rounds >= rounds
  /\ siLeft' = [siLeft EXCEPT !.steps = @ - 1, !.rounds = @ - rounds]
  /\ siLeft.steps > siLeft.overlap => \A p \in DOMAIN siProc : siProc[p].pc = "idle"

-----------------------------------------------------------------------------
(* The panel's answer [tokens, listed, got, names, enable].  tokens: what   *)
(* the token list shows of each group's token, "none", "full" or "masked";  *)
(* listed: the groups of the group list, {} when no endpoint answered; got: *)
(* whether the models its token sees are known, "names", or the request     *)
(* "failed" or left them "unresolved"; names: these models; enable: per     *)
(* model, the groups its metadata names.                                    *)

TokenGroups(a) == {g \in SiGroups : a.tokens[g] # "none"}

\* mergeSiteGroups over fetchManagementGroups, which answers with the default
\* group when it got no answer.
PanelGroups(a) == (IF a.listed = {} THEN {SiDefault} ELSE a.listed) \cup TokenGroups(a)

\* syncSiteModelsByGroup, then expandExplicitGroupModelsToGroups.
Confirmed(a, g) == g \in TokenGroups(a) /\ a.got[g] = "names"
Fetched(a) ==
  {gm \in ModelKeys :
     \/ Confirmed(a, gm[1]) /\ gm[2] \in a.names[gm[1]]
     \/ /\ gm[1] \in (PanelGroups(a) \ TokenGroups(a)) \cap a.enable[gm[2]]
        /\ \E g \in SiGroups : Confirmed(a, g) /\ gm[2] \in a.names[g]}

\* finalizeSiteGroupSyncResults for a group the panel or the account knows.
HasModels(a, g) == \E m \in SiModels : <<g, m>> \in Fetched(a)
Result(a, g) ==
  CASE Confirmed(a, g) /\ a.names[g] = {} -> "empty"
    [] g \in TokenGroups(a) /\ ~Confirmed(a, g) -> a.got[g]
    [] HasModels(a, g) -> "synced"
    [] g \in PanelGroups(a) \ TokenGroups(a) /\ ~HasModels(a, g) -> "missing_key"
    [] g \notin PanelGroups(a) -> "removed"

\* collectExistingGroupNames.
KnownGroups ==
  {g \in SiGroups : \/ siGroups[g] # SiNone
                    \/ \E t \in siTokens : t.group = g
                    \/ \E m \in SiModels : siModels[<<g, m>>] # SiNone}

-----------------------------------------------------------------------------
(* What a synchronisation writes *)

\* applyPersistedGroupSyncState; the administrator's switch stays.
GroupAfter(a, g) ==
  IF g \notin PanelGroups(a) THEN SiNone
  ELSE [paused |-> Result(a, g) \in {"empty", "missing_key"},
        disabled |-> siGroups[g] # SiNone /\ siGroups[g].disabled]

\* mergeReadyIncomingSiteToken and mergeMaskedIncomingSiteToken: the row the panel's
\* token of g meets, if any: the same value, then the same name.
Met(a, g) ==
  LET same == {t \in siTokens : t.group = g /\ t.name = "panel"}
      full == {t \in same : t.full}
  IN IF full # {} THEN full
     ELSE {t \in same : a.tokens[g] = "full" => ~t.manual}
Merged(a, g) ==
  LET met == Met(a, g)
      full == a.tokens[g] = "full" \/ \E t \in met : t.full
  IN Token(g, "panel", full, FALSE, full /\ \A t \in met : t.on)

\* mergePersistedSiteTokens: rows the panel does not show stay when they are manual.
TokensAfter(a) ==
  {Merged(a, g) : g \in TokenGroups(a)}
    \cup {t \in siTokens : t.manual /\ ~(t.group \in TokenGroups(a) /\ t \in Met(a, t.group))}

\* applyPersistedRouteState: a manual or learned route stays, with its metadata; without
\* metadata of its own a model keeps what an earlier synchronisation found.
ModelSynced(a, gm) ==
  LET old == siModels[gm] IN
  IF old = SiNone
  THEN [on |-> TRUE, route |-> SiRouteOf[gm[2]], how |-> "synced", only |-> a.enable[gm[2]], own |-> FALSE]
  ELSE IF old.how # "synced" THEN [old EXCEPT !.own = FALSE]
  ELSE [old EXCEPT !.route = SiRouteOf[gm[2]], !.own = FALSE,
                   !.only = IF a.enable[gm[2]] = {} THEN old.only ELSE a.enable[gm[2]]]

\* Faulty variant: a failed request counts as an answer.
ReplacedOnFailure(a, known, g) ==
  g \in PanelGroups(a) \cup known /\ Result(a, g) \in {"synced", "empty", "removed", "failed"}

\* mergePersistedSiteModelsByGroup: a definite result replaces the group's models.
Replaced(a, known, g) ==
  g \in PanelGroups(a) \cup known /\ Result(a, g) \in {"synced", "empty", "removed"}
ModelAfter(a, known, gm) ==
  CASE Replaced(a, known, gm[1]) /\ gm \notin Fetched(a) -> SiNone
    [] gm \in Fetched(a) -> ModelSynced(a, gm)
    [] OTHER -> siModels[gm]

\* SyncAccount reads the account and asks the panel, which may fail altogether.
SyncStart(p) ==
  /\ Starts(p) /\ Spend(0)
  /\ \E a \in SiAnswers \cup {SiNone} :
       Quiet(p, [Idle EXCEPT !.pc = IF a = SiNone THEN "failed" ELSE "persist",
                             !.answer = a, !.saw = KnownGroups])
  /\ UNCHANGED <<siRows, siChannelVars>>

\* persistSyncSnapshot, one transaction.
Persist(p) ==
  LET a == siProc[p].answer IN
  /\ siProc[p].pc = "persist"
  /\ siGroups' = [g \in SiGroups |-> GroupAfter(a, g)]
  /\ siTokens' = TokensAfter(a)
  /\ siModels' = [gm \in ModelKeys |-> ModelAfter(a, siProc[p].saw, gm)]
  /\ Wrote(p, [Idle EXCEPT !.pc = "load"])
  /\ UNCHANGED <<siAuto, siOn, siChannelVars, siLeft>>

\* MarkAccountProjectionStale: the groups of tokens and models get their missing rows,
\* and the projection is left as it was.
MarkStale(p) ==
  /\ siProc[p].pc = "failed"
  /\ LET known == IF KnownGroups = {} THEN {SiDefault} ELSE KnownGroups IN
     siGroups' = [g \in SiGroups |-> IF siGroups[g] = SiNone /\ g \in known
                                     THEN [paused |-> FALSE, disabled |-> FALSE]
                                     ELSE siGroups[g]]
  /\ Wrote(p, Idle)
  /\ UNCHANGED <<siAuto, siOn, siTokens, siModels, siChannelVars, siLeft>>

-----------------------------------------------------------------------------
(* What an account projects to *)

\* isSiteGroupProjectionActive and isSiteGroupProjectionSystemPaused.
Usable(g) == {t \in siTokens : t.group = g /\ t.full}
ActiveGroup(g) ==
  Usable(g) # {} /\ (siGroups[g] # SiNone => ~siGroups[g].disabled /\ ~siGroups[g].paused)
PausedGroups == {g \in SiGroups : siGroups[g] # SiNone /\ siGroups[g].paused /\ ~siGroups[g].disabled}

\* partitionSiteModelsByRouteType over the models siteModelBelongsToProjectedGroup lets through.
Bucket(g, r) ==
  {m \in SiModels : LET row == siModels[<<g, m>>] IN
     /\ row # SiNone /\ row.on /\ row.route = r
     /\ row.only = {} \/ g \in row.only}
\* The channels the account wants: buildManagedChannelName, buildChannelKeys.
Wanted ==
  {[name |-> n, models |-> Bucket(n[1], n[2]), on |-> TRUE,
    keys |-> {<<t.name, t.on>> : t \in Usable(n[1])}] :
     n \in {n \in Names : siOn /\ ActiveGroup(n[1]) /\ Bucket(n[1], n[2]) # {}}}

\* diffManagedChannelKeys against the cached keys, applied to the table's: what the
\* diff does not know or finds unchanged stays, the rest is added or updated.
Named(keys) == {k[1] : k \in keys}
KeysAfter(db, cached, want) ==
  LET same == {k \in want : \A u \in cached : u[1] = k[1] <=> u = k} \cap cached IN
  {k \in db : k[1] \notin Named(cached) \/ k[1] \in Named(same)}
    \cup {k \in want : k[1] \notin Named(cached)}
    \cup {k \in want \ same : k[1] \in Named(cached) \cap Named(db)}

Entries == {<<siBindings[c], c>> : c \in {c \in SiChannels : siBindings[c] # SiNone}}
Ends(entries) == {e[2] : e \in entries}
Bound(entries, n) == {e[2] : e \in {e \in entries : e[1] = n}}

\* An ID no row, cache entry or goroutine has: IDs are not used twice.
Holds(s) ==
  Ends(s.bound \cup s.made) \cup {s.switch.c}
    \cup (IF s.pc \in {"update", "bind", "join"} THEN {s.cur.c} ELSE {})
    \cup (IF s.pc = "off" THEN Ends(s.todo) ELSE {})
FreshChannel(c) ==
  /\ siDb[c] = SiNone /\ siCache[c] = SiNone /\ siBindings[c] = SiNone /\ siRetired[c] = SiNone
  /\ \A i \in siItems : i[2] # c
  /\ \A p \in DOMAIN siProc : c \notin Holds(siProc[p])

-----------------------------------------------------------------------------
(* ProjectAccount *)

\* loadSiteAccount.  When the site or the account is off the bound channels are
\* switched off and nothing else is done.  What is cached may differ from the table:
\* a switch puts back the copy it read, over an update in between.
Loaded == [Idle EXCEPT !.pc = IF siOn THEN "list" ELSE "off", !.clean = siCache = siDb,
                       !.want = Wanted, !.saw = PausedGroups,
                       !.todo = IF siOn THEN Wanted ELSE Entries]
ProjectStart(p) ==
  /\ Starts(p) /\ Spend(0) /\ Quiet(p, Loaded)
  /\ UNCHANGED <<siRows, siChannelVars>>
\* The projection that follows a synchronisation.
Load(p) ==
  /\ siProc[p].pc = "load" /\ Quiet(p, Loaded)
  /\ UNCHANGED <<siRows, siChannelVars, siLeft>>

\* The bindings are listed after the models' prices were written.
List(p) ==
  /\ siProc[p].pc = "list"
  /\ Quiet(p, [siProc[p] EXCEPT !.pc = "bucket", !.bound = Entries])
  /\ UNCHANGED <<siRows, siChannelVars, siLeft>>

\* ChannelEnabledManaged(c, to): the cached copy is read, the row updated, and the copy
\* written back; a channel the cache lacks is left alone.  `then` goes on afterwards.
Switching(c, to, then) ==
  IF siCache[c] = SiNone THEN then
  ELSE [then EXCEPT !.pc = "switch", !.switch = Switched(c, to, then.pc)]
SwitchRow(p) ==
  LET s == siProc[p].switch IN
  /\ siProc[p].pc = "switch"
  /\ siDb' = IF siDb[s.c] = SiNone THEN siDb ELSE [siDb EXCEPT ![s.c].on = s.to]
  /\ Wrote(p, [siProc[p] EXCEPT !.pc = "cache"])
  /\ UNCHANGED <<siRows, siCache, siBindings, siItems, siRetired, siLeft>>

\* Faulty variant: the copy goes back as it was read.
SwitchCacheUnchanged(p) ==
  LET s == siProc[p].switch IN
  /\ siProc[p].pc = "cache"
  /\ siCache' = [siCache EXCEPT ![s.c] = s.copy]
  /\ Wrote(p, [siProc[p] EXCEPT !.pc = s.back, !.switch = NoSwitch])
  /\ UNCHANGED <<siRows, siDb, siBindings, siItems, siRetired, siLeft>>

SwitchCache(p) ==
  LET s == siProc[p].switch IN
  /\ siProc[p].pc = "cache"
  /\ siCache' = [siCache EXCEPT ![s.c] = [s.copy EXCEPT !.on = s.to]]
  /\ Wrote(p, [siProc[p] EXCEPT !.pc = s.back, !.switch = NoSwitch])
  /\ UNCHANGED <<siRows, siDb, siBindings, siItems, siRetired, siLeft>>

\* The channels of an account that is off.
Off(p) ==
  /\ siProc[p].pc = "off" /\ siProc[p].todo # {}
  /\ \E e \in siProc[p].todo :
       Quiet(p, Switching(e[2], FALSE, [siProc[p] EXCEPT !.todo = @ \ {e}]))
  /\ UNCHANGED <<siRows, siChannelVars, siLeft>>

\* One bucket, group by group: its binding, or a channel that already has the name
\* (reuseManagedChannelByName), or none.
Unnamed(n) == [c \in SiChannels |->
                 IF siCache[c] # SiNone /\ siCache[c].name = n THEN SiNone ELSE siCache[c]]
Bucketed(p) ==
  /\ siProc[p].pc = "bucket"
  /\ \E w \in siProc[p].todo :
       /\ \A v \in siProc[p].todo : w.name[1] <= v.name[1]
       /\ LET known == Bound(siProc[p].bound, w.name)
              named == {c \in SiChannels : siDb[c] # SiNone /\ siDb[c].name = w.name}
              next(pc, c) == [siProc[p] EXCEPT !.pc = pc, !.cur = [row |-> w, c |-> c]]
          IN \/ /\ known # {}
                /\ \E c \in known :
                     IF siCache[c] # SiNone
                     THEN Quiet(p, next("update", c)) /\ UNCHANGED siBindings
                     ELSE /\ siBindings' = [siBindings EXCEPT ![c] = SiNone]
                          /\ Wrote(p, next("create", SiNone))
                /\ UNCHANGED siCache
             \/ /\ known = {} /\ named = {}
                /\ siCache' = Unnamed(w.name)
                /\ Wrote(p, next("create", SiNone))
                /\ UNCHANGED siBindings
             \/ /\ known = {}
                /\ \E c \in named :
                     /\ siCache' = [siCache EXCEPT ![c] = siDb[c]]
                     /\ IF siBindings[c] # SiNone
                        THEN siBindings' = siBindings /\ Wrote(p, next("update", c))
                        ELSE IF Bound(Entries, w.name) = {}
                        THEN /\ siBindings' = [siBindings EXCEPT ![c] = w.name]
                             /\ Wrote(p, next("update", c))
                        ELSE siBindings' = siBindings /\ Wrote(p, Idle)
  /\ UNCHANGED <<siRows, siDb, siItems, siRetired, siLeft>>

\* The bucket is done: ChannelAutoGroupWithMode adds its models to the routing group.
Bucketless(p, c) ==
  [siProc[p] EXCEPT !.pc = IF siAuto THEN "join" ELSE "bucket",
                    !.todo = @ \ {siProc[p].cur.row},
                    !.made = @ \cup {<<siProc[p].cur.row.name, c>>},
                    !.cur = IF siAuto THEN [@ EXCEPT !.c = c] ELSE SiNone]

\* ChannelUpdate: one transaction, after which the cache reads the row.
Update(p) ==
  LET w == siProc[p].cur.row  c == siProc[p].cur.c IN
  /\ siProc[p].pc = "update"
  /\ IF siCache[c] = SiNone \/ siDb[c] = SiNone
     THEN Quiet(p, Idle) /\ UNCHANGED <<siDb, siCache>>
     ELSE /\ siDb' = [siDb EXCEPT ![c] =
                        [w EXCEPT !.keys = KeysAfter(siDb[c].keys, siCache[c].keys, w.keys)]]
          /\ siCache' = [siCache EXCEPT ![c] = siDb'[c]]
          /\ Wrote(p, Bucketless(p, c))
  /\ UNCHANGED <<siRows, siBindings, siItems, siRetired, siLeft>>

\* ChannelCreate, then its binding; a name, and a binding's key, is unique.
Create(p) ==
  LET w == siProc[p].cur.row IN
  /\ siProc[p].pc = "create"
  /\ IF \E c \in SiChannels : siDb[c] # SiNone /\ siDb[c].name = w.name
     THEN Quiet(p, Idle) /\ UNCHANGED <<siDb, siCache>>
     ELSE \E c \in SiChannels :
            /\ FreshChannel(c) /\ \A d \in SiChannels : FreshChannel(d) => c <= d
            /\ siDb' = [siDb EXCEPT ![c] = w] /\ siCache' = [siCache EXCEPT ![c] = w]
            /\ Wrote(p, [siProc[p] EXCEPT !.pc = "bind", !.cur.c = c])
  /\ UNCHANGED <<siRows, siBindings, siItems, siRetired, siLeft>>
Bind(p) ==
  LET n == siProc[p].cur.row.name  c == siProc[p].cur.c IN
  /\ siProc[p].pc = "bind"
  /\ IF Bound(Entries, n) # {} \/ siBindings[c] # SiNone
     THEN Quiet(p, Idle) /\ UNCHANGED siBindings
     ELSE siBindings' = [siBindings EXCEPT ![c] = n] /\ Wrote(p, Bucketless(p, c))
  /\ UNCHANGED <<siRows, siDb, siCache, siItems, siRetired, siLeft>>
Join(p) ==
  LET w == siProc[p].cur.row  c == siProc[p].cur.c IN
  /\ siProc[p].pc = "join"
  /\ siItems' = siItems \cup {<<m, c>> : m \in w.models}
  /\ Wrote(p, [siProc[p] EXCEPT !.pc = "bucket", !.cur = SiNone])
  /\ UNCHANGED <<siRows, siDb, siCache, siBindings, siRetired, siLeft>>

\* rewriteManagedGroupItemsForAccount: an item of a bound channel follows its model to
\* the channel it is projected on now, or goes; items of paused groups stay.
ManagedItems(p) ==
  {i \in siItems : siBindings[i[2]] # SiNone /\ siBindings[i[2]][1] \notin siProc[p].saw}
Targets(p, i) ==
  UNION {Bound(siProc[p].made, w.name) :
           w \in {w \in siProc[p].want : w.name[1] = siBindings[i[2]][1] /\ i[1] \in w.models}}
Gone(p) == {i \in ManagedItems(p) : Targets(p, i) = {}}
Moved(p) == {i \in ManagedItems(p) \ Gone(p) : i[2] \notin Targets(p, i)}
At(p, i) == {<<i[1], c>> : c \in Targets(p, i)}
Clash(p, i) == At(p, i) \cap siItems # {} \/ \E j \in Moved(p) \ {i} : At(p, i) = At(p, j)
Rewriting(p) == siProc[p].pc = "bucket" /\ siProc[p].todo = {}
\* The items move one by one, in any order, until one fails; those that go are not deleted.
RewriteSome(p) ==
  \E some \in SUBSET {i \in Moved(p) : At(p, i) \cap siItems = {}} :
    /\ \A i, j \in some : i # j => At(p, i) # At(p, j)
    /\ siItems' = (siItems \ some) \cup UNION {At(p, i) : i \in some}
    /\ Wrote(p, Idle)
    /\ UNCHANGED <<siDb, siCache, siBindings, siRetired>>
Rewrite(p) ==
  /\ Rewriting(p)
  /\ IF \E i \in Moved(p) : Clash(p, i)
     THEN RewriteSome(p)
     ELSE /\ siItems' = (siItems \ (Gone(p) \cup Moved(p))) \cup UNION {At(p, i) : i \in Moved(p)}
          /\ Wrote(p, [siProc[p] EXCEPT
               !.pc = "stale",
               !.todo = {e \in siProc[p].bound : \A w \in siProc[p].want : w.name # e[1]}])
          /\ UNCHANGED <<siDb, siCache, siBindings, siRetired>>
  /\ UNCHANGED <<siRows, siLeft>>

\* A binding that is not wanted: of a paused group, its channel is switched off;
\* otherwise ChannelDelManaged deletes the channel, and the binding goes.
Stale(p) ==
  /\ siProc[p].pc = "stale"
  /\ \E e \in siProc[p].todo :
       LET c == e[2]  rest == [siProc[p] EXCEPT !.todo = @ \ {e}] IN
       IF e[1][1] \in siProc[p].saw
       THEN Quiet(p, Switching(c, FALSE, rest)) /\ UNCHANGED <<siDb, siCache, siItems>>
       ELSE IF siBindings[c] = SiNone \/ siCache[c] = SiNone
       THEN /\ Quiet(p, [rest EXCEPT !.pc = "unbind", !.cur = c])
            /\ UNCHANGED <<siDb, siCache, siItems>>
       ELSE /\ siDb' = [siDb EXCEPT ![c] = SiNone] /\ siCache' = [siCache EXCEPT ![c] = SiNone]
            /\ siItems' = {i \in siItems : i[2] # c}
            /\ Wrote(p, [rest EXCEPT !.pc = "unbind", !.cur = c])
  /\ UNCHANGED <<siRows, siBindings, siRetired, siLeft>>
Unbind(p) ==
  /\ siProc[p].pc = "unbind"
  /\ siBindings' = [siBindings EXCEPT ![siProc[p].cur] = SiNone]
  /\ Wrote(p, [siProc[p] EXCEPT !.pc = "stale", !.cur = SiNone])
  /\ UNCHANGED <<siRows, siDb, siCache, siItems, siRetired, siLeft>>

\* The projection switched retired channels on again: they go off, one by one.
KeepRetired(p) ==
  /\ siProc[p].pc = "stale" /\ siProc[p].todo = {}
  /\ \E e \in siProc[p].made :
       LET rest == [siProc[p] EXCEPT !.made = @ \ {e}] IN
       Quiet(p, IF siRetired[e[2]] # SiNone THEN Switching(e[2], FALSE, rest) ELSE rest)
  /\ UNCHANGED <<siRows, siChannelVars, siLeft>>
Projected(p) ==
  /\ siProc[p].pc \in {"stale", "off"} /\ siProc[p].todo = {} /\ siProc[p].made = {}
  /\ siProc' = [siProc EXCEPT ![p] = Idle] /\ siFresh' = siProc[p].clean
  /\ UNCHANGED <<siRows, siChannelVars, siLeft>>

-----------------------------------------------------------------------------
(* Failures of the database, and restarts.  The operations of a projection  *)
(* whose error is only logged go on; any other error ends it.               *)
Break == siLeft.faults > 0 /\ siLeft' = [siLeft EXCEPT !.faults = @ - 1]
SiFail(p) ==
  /\ Break
  /\ \/ /\ siProc[p].pc \in {"switch", "join"}
        /\ Quiet(p, [siProc[p] EXCEPT !.switch = NoSwitch, !.clean = FALSE,
                                      !.pc = IF @ = "switch" THEN siProc[p].switch.back ELSE "bucket",
                                      !.cur = IF siProc[p].pc = "join" THEN SiNone ELSE @])
        /\ UNCHANGED siChannelVars
     \/ /\ siProc[p].pc = "stale"
        /\ \E e \in siProc[p].todo :
             /\ e[1][1] \notin siProc[p].saw
             /\ Quiet(p, [siProc[p] EXCEPT !.pc = "unbind", !.cur = e[2], !.clean = FALSE,
                                           !.todo = @ \ {e}])
        /\ UNCHANGED siChannelVars
     \/ /\ siProc[p].pc = "stale" /\ siProc[p].todo = {}
        /\ \E e \in siProc[p].made :
             Quiet(p, [siProc[p] EXCEPT !.made = @ \ {e}, !.clean = FALSE])
        /\ UNCHANGED siChannelVars
     \/ /\ siProc[p].pc \notin {"idle", "switch", "cache", "join", "off"}
        /\ Quiet(p, Idle) /\ UNCHANGED siChannelVars
     \/ Rewriting(p) /\ RewriteSome(p)
  /\ UNCHANGED siRows

\* channelRefreshCache fills the cache again.
SiRestart ==
  /\ Break
  /\ \E p \in DOMAIN siProc : siProc[p].pc # "idle"
  /\ siProc' = [p \in DOMAIN siProc |-> Idle]
  /\ siCache' = siDb /\ siFresh' = FALSE
  /\ UNCHANGED <<siRows, siDb, siBindings, siItems, siRetired>>

-----------------------------------------------------------------------------
(* The administrators' choices, and the routes the relay learns.  A handler *)
(* changes the rows and projects, itself or in a goroutine it leaves behind. *)
Edit ==
  /\ Spend(0) /\ siFresh' = FALSE
  /\ siProc' = [p \in DOMAIN siProc |-> Disturbed(siProc[p])]
  /\ UNCHANGED siChannelVars

\* restoreSystemPausedSiteGroupProjectionTx.
Restored(g) ==
  [siGroups EXCEPT ![g] = IF @ = SiNone THEN SiNone ELSE [@ EXCEPT !.paused = FALSE]]
ReadyKey(tokens, g) == \E t \in tokens : t.group = g /\ t.on /\ t.full

\* SiteAccountEnabled and SiteEnabled.
SwitchAccount == Edit /\ siOn' = ~siOn /\ UNCHANGED <<siAuto, siGroups, siTokens, siModels>>

\* UpdateSiteGroupProjection.
SetProjectionDisabled(g, to) ==
  /\ Edit
  /\ siGroups' = [siGroups EXCEPT ![g] =
       CASE @ # SiNone -> [@ EXCEPT !.disabled = to]
         [] @ = SiNone /\ to -> [paused |-> FALSE, disabled |-> TRUE]
         [] OTHER -> @]
  /\ UNCHANGED <<siAuto, siOn, siTokens, siModels>>

\* UpdateSiteSourceKeys: a key is added, or an existing row edited, which makes it the
\* administrator's and may fill in what the panel masks, or deleted.
SetKeys(g, tokens) ==
  /\ Edit
  /\ siTokens' = tokens
  /\ siGroups' = IF ReadyKey(tokens, g) /\ \E m \in SiModels : siModels[<<g, m>>] # SiNone /\ siModels[<<g, m>>].on
                 THEN Restored(g) ELSE siGroups
  /\ UNCHANGED <<siAuto, siOn, siModels>>
AddKey(g) ==
  /\ \A t \in Usable(g) : t.name # "own"
  /\ SetKeys(g, siTokens \cup {Token(g, "own", TRUE, TRUE, TRUE)})
EditKey(t) ==
  \E fill, on \in BOOLEAN :
    /\ fill => \A u \in Usable(t.group) : u.name # t.name
    /\ SetKeys(t.group, (siTokens \ {t}) \cup {Token(t.group, t.name, t.full \/ fill, TRUE, on)})
DeleteKey(t) == SetKeys(t.group, siTokens \ {t})

\* SiteManualModelsAdd and SiteManualModelDelete.
AddModel(gm) ==
  /\ siModels[gm] = SiNone /\ Edit
  /\ \E r \in SiRoutes :
       siModels' = [siModels EXCEPT ![gm] = [on |-> TRUE, route |-> r, how |-> "manual", only |-> {}, own |-> TRUE]]
  /\ siGroups' = IF ReadyKey(siTokens, gm[1]) THEN Restored(gm[1]) ELSE siGroups
  /\ UNCHANGED <<siAuto, siOn, siTokens>>
DeleteModel(gm) ==
  /\ siModels[gm] # SiNone /\ siModels[gm].own /\ Edit
  /\ siModels' = [siModels EXCEPT ![gm] = SiNone]
  /\ UNCHANGED <<siAuto, siOn, siGroups, siTokens>>

\* SiteModelDisabledUpdate, SiteModelRouteUpdate from a handler, and
\* SiteModelRouteUpdateIfNotManual from maybeLearnManagedRoute.
SwitchModel(gm) ==
  /\ siModels[gm] # SiNone /\ Edit
  /\ siModels' = [siModels EXCEPT ![gm].on = ~@]
  /\ UNCHANGED <<siAuto, siOn, siGroups, siTokens>>
Rerouted(gm, how) ==
  /\ Edit
  /\ \E r \in SiRoutes \ {siModels[gm].route} :
       siModels' = [siModels EXCEPT ![gm] = [@ EXCEPT !.route = r, !.how = how, !.only = {}]]
  /\ UNCHANGED <<siAuto, siOn, siGroups, siTokens>>
SetRoute(gm) == siModels[gm] # SiNone /\ Rerouted(gm, "manual")
LearnRoute(gm) ==
  /\ siModels[gm] # SiNone /\ siModels[gm].how # "manual"
  /\ \E c \in SiChannels : siBindings[c] # SiNone /\ siBindings[c][1] = gm[1]
  /\ Rerouted(gm, "learned")

\* SiteChannelResetAccountRoutes.
ResetRoutes ==
  /\ Edit
  /\ siModels' = [gm \in ModelKeys |->
       IF siModels[gm] = SiNone THEN SiNone
       ELSE [siModels[gm] EXCEPT !.route = SiRouteOf[gm[2]], !.how = "synced"]]
  /\ UNCHANGED <<siAuto, siOn, siGroups, siTokens>>

\* GroupItemAdd: an administrator puts a channel's model into the routing group.
AddItem(c) ==
  /\ siDb[c] # SiNone /\ Spend(0)
  /\ \E m \in siDb[c].models : siItems' = siItems \cup {<<m, c>>}
  /\ siProc' = [p \in DOMAIN siProc |-> Disturbed(siProc[p])]
  /\ siFresh' = FALSE
  /\ UNCHANGED <<siRows, siDb, siCache, siBindings, siRetired>>

SiEdit ==
  \/ SwitchAccount \/ ResetRoutes
  \/ \E g \in SiEdited : AddKey(g) \/ \E to \in BOOLEAN : SetProjectionDisabled(g, to)
  \/ \E t \in siTokens : t.group \in SiEdited /\ (EditKey(t) \/ DeleteKey(t))
  \/ \E gm \in SiEdited \X SiModels :
       AddModel(gm) \/ DeleteModel(gm) \/ SwitchModel(gm) \/ SetRoute(gm) \/ LearnRoute(gm)
  \/ \E c \in SiChannels : AddItem(c)

SiSync(p) == SyncStart(p) \/ Persist(p) \/ MarkStale(p)
SiProject(p) ==
  \/ ProjectStart(p) \/ Load(p) \/ List(p) \/ Off(p)
  \/ Bucketed(p) \/ Update(p) \/ Create(p) \/ Bind(p) \/ Join(p)
  \/ Rewrite(p) \/ Stale(p) \/ Unbind(p) \/ KeepRetired(p) \/ Projected(p)
SiSwitch(p) == SwitchRow(p) \/ SwitchCache(p)

SiNext ==
  \/ \E p \in SiProcs : SiSync(p) \/ SiProject(p) \/ SiSwitch(p) \/ SiFail(p)
  \/ SiEdit \/ SiRestart

SiSpec == SiInit /\ [][SiNext]_siVars

-----------------------------------------------------------------------------
(* Types *)
SiTypeOK ==
  /\ siAuto \in BOOLEAN /\ siOn \in BOOLEAN
  /\ siGroups \in [SiGroups -> [paused : BOOLEAN, disabled : BOOLEAN] \cup {SiNone}]
  /\ siTokens \subseteq TokenRows /\ siModels \in [ModelKeys -> ModelRows \cup {SiNone}]
  /\ siDb \in [SiChannels -> ChannelRows \cup {SiNone}]
  /\ siCache \in [SiChannels -> ChannelRows \cup {SiNone}]
  /\ siBindings \in [SiChannels -> Names \cup {SiNone}]
  /\ siItems \subseteq SiModels \X SiChannels
  /\ siRetired \in [SiChannels -> Nat \cup {SiNone}]
  /\ siLeft \in [steps : Nat, overlap : Nat, rounds : Nat, faults : Nat] /\ siFresh \in BOOLEAN

(* After a projection of the account as it is now, which found in the cache *)
(* what the table has and with which nothing interfered, whatever failed    *)
(* before, the channels are the account's: every bucket of models of a      *)
(* usable group has one bound channel, with its models, its keys and, but   *)
(* for the retired ones, switched on; any other bound channel is one of a   *)
(* paused group, switched off, kept for its items; the cache the relay      *)
(* reads agrees; and the routing group's items point at channels that serve *)
(* their models, or wait for a paused group.  Of an account that is off, no *)
(* channel is on.                                                           *)
Serves(c, w) ==
  /\ siDb[c] = [w EXCEPT !.on = siRetired[c] = SiNone]
  /\ siCache[c] = siDb[c]
IsOff(c) == (siDb[c] # SiNone => ~siDb[c].on) /\ (siCache[c] # SiNone => ~siCache[c].on)
ChannelsAreTheAccounts ==
  IF ~siOn
  THEN \A e \in Entries : IsOff(e[2])
  ELSE /\ \A w \in Wanted : \E c \in SiChannels : Bound(Entries, w.name) = {c} /\ Serves(c, w)
       /\ \A e \in Entries :
            \/ \E w \in Wanted : w.name = e[1]
            \/ e[1][1] \in PausedGroups /\ IsOff(e[2])
       /\ \A i \in siItems : LET n == siBindings[i[2]] IN
            \/ n = SiNone \/ n[1] \in PausedGroups
            \/ i[1] \in siDb[i[2]].models
ProjectionFaithful == siFresh => ChannelsAreTheAccounts

(* A step that is not an administrator's leaves the administrator's choices *)
(* alone: the switch of a group the panel still has, the switch of a model  *)
(* that stays, a route chosen by hand or learned by the relay, the keys     *)
(* added by hand and the switch of every key.                               *)
KeepsChoices ==
  siLeft'.steps = siLeft.steps =>
    /\ \A g \in SiGroups : siGroups[g] # SiNone /\ siGroups'[g] # SiNone
                             => siGroups'[g].disabled = siGroups[g].disabled
    /\ \A gm \in ModelKeys : siModels[gm] # SiNone /\ siModels'[gm] # SiNone
         => /\ siModels'[gm].on = siModels[gm].on
            /\ siModels[gm].how # "synced" => /\ siModels'[gm].route = siModels[gm].route
                                              /\ siModels'[gm].how = siModels[gm].how
    /\ \A t \in siTokens : t.manual /\ t.full
         => \E u \in siTokens' : /\ u.group = t.group /\ u.name = t.name
                                 /\ u.full /\ u.on = t.on
ChoicesKept == [][KeepsChoices]_siVars

(* A model an account has known vanishes without an administrator only on a *)
(* definite answer: the panel listed the models of its group without it, or *)
(* no longer has the group.  An answer that failed keeps the history.       *)
KeepsHistory ==
  siLeft'.steps = siLeft.steps =>
    \A gm \in ModelKeys : siModels[gm] # SiNone /\ siModels'[gm] = SiNone =>
      \E p \in SiProcs : LET a == siProc[p].answer IN
        /\ siProc[p].pc = "persist" /\ siProc'[p].pc # "persist"
        /\ \/ gm[1] \notin PanelGroups(a)
           \/ /\ gm[2] \notin IF Confirmed(a, gm[1]) THEN a.names[gm[1]] ELSE {}
              /\ Confirmed(a, gm[1]) \/ (gm[1] \notin TokenGroups(a) /\ HasModels(a, gm[1]))
HistoryKept == [][KeepsHistory]_siVars

\* A synchronisation, a projection, a failure or a restart takes nothing from the account
\* that is not theirs to take: the administrator's choices, and what is known of it.
SyncKeeps == ChoicesKept /\ HistoryKept
=============================================================================
