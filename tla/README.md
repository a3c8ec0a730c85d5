# A verification project for ZyRealm's relay

ZyRealm (module path `github.com/bestruirui/octopus`) is an LLM gateway: it accepts OpenAI, Anthropic and
Gemini style requests, picks a *channel* (an upstream provider with its credentials) for the
requested model, sends the request there, and moves on to other channels when that fails. This directory
holds TLA+ modules that model the concurrent and stateful parts of the relay, TLC configurations that
check them on small instances, and TLAPS proofs of their main properties.

All paths below are relative to `src/internal/`.

## 1. Inventory

### The path of a request

    client -> server/handlers/relay.go -> relayHandler.run            (relay/relay_handler.go)
                |  early heartbeat goroutine                          (relay/heartbeat.go)
                |  iterator over the group's candidates               (relay/balancer/iterator.go)
                |  for each candidate:
                |    AcquireCandidate: lease on provider and model    (relay/availability/runtime.go)
                |    TryAcquireChannel: in-flight slot                (relay/balancer/concurrency.go)
                |    SelectCredentialFair: a key                      (relay/availability/credential_fair.go)
                |    consumeRPM: rate window                          (relay/balancer/rate.go)
                |    wire attempts, retries, protocol fallback        (relay/relay_handler_support.go)
                |    decideRoutingAttempt: verdict on the result      (relay/routing_decision.go)
                |    apply the verdict to availability                (relay/runtime_effect.go)
                |    release slot, release lease
                -> answer, or the exhausted-candidates error          (relay/runtime_recovery.go)

Every request runs in its own goroutine. Requests meet in process-wide tables (the health table, the
in-flight counters, the credential ledgers, the rate windows, the websocket pool, the caches in front of the
database) that administrators' configuration changes and background tasks change as well.

### Components

| component | state it keeps | operations | what is hard | what makes it correct |
|---|---|---|---|---|
| request handler (`relay/relay_handler*.go`, `relay_attempt.go`) | iterator position, skipped channels, lease, slot, chosen and excluded keys, last result | the candidate loop; admission; credential rotation; same-key retry; protocol fallback; result handling | a dozen exits at different depths; cancellation, interrupts and budgets at any point; failures after the first byte | each exit returns what was taken; one answer and one record per request; termination |
| attempt budget (`attempt_budget.go`) | wires, distinct providers, unknown replays | admit, start a wire, admit an unknown replay | checked and charged at different places | never exceeded |
| routing decision (`routing_decision.go`, `failure_domain.go`, `failure_scope.go`) | none | classify a failure; retry, skip, rotate or end | the class depends on dispatch, delivery and the context's cause | unsafe replays are bounded |
| availability runtime (`availability/runtime.go`) | per provider and model: healthy, suspect, cooldown or half-open; deadline, stage, streak, trial in flight | acquire, release, record failure, suspect, success; reset of a channel | verdicts of overlapping attempts in any order; time; two entries per candidate | entries consistent; a trial is held by someone; relapses escalate; nobody sidelined for ever |
| recovery hint (`runtime_recovery.go`) | none | nearest recovery of all candidates | a minimum of maxima with gaps | the earliest time a candidate is back |
| in-flight counters (`balancer/concurrency.go`) | a map from channel to atomic counter | acquire and release by compare-and-swap; removal at zero; reset | removal races fetching; release may meet another counter | within the limit; no slot leaks |
| fair credential ledger (`availability/credential_fair.go`) | per channel: members with allocations and sticky debt, watermark, sequence, last member, run length | select; peek; reset | keys come, go and change revision under stale snapshots; sticky preferences distort shares | equal shares; bounded bursts; peek agrees with select |
| credential runtime (`availability/credential.go`) | cooldown per key and revision | record, prune older revisions, reset | verdicts about a revision that was replaced | a new revision is not punished for the old one |
| capability cache (`availability/capability.go`, `capability_cache*.go`) | negative facts with expiry, 4096 at most | record, look up, collect | eviction while requests rely on a fact | bounded; a fact expires |
| balancer (`balancer/*.go`) | rate windows, sticky sessions, round-robin counters | order candidates, skip, consume a window, store a session | delete-after-read of windows and sessions | limit per window; a session is not lost to a cleanup |
| early heartbeat (`heartbeat.go`) | a lock, header-sent flag, stop and done channels | the goroutine; Hand, Stop, FlushOrError, WriteSSEError | timer against the handler on one response writer | one writer at a time; both goroutines end; the error has the form of the answer |
| stream processor (`stream/`), first-token timer | buffers, timers, delivered flag | run; heartbeats; first-token and idle timeouts | a timer that fires while it is stopped | a late token is not cut off |
| live requests (`live_request.go`) | registry of requests and phases | register, update, interrupt, finish | an update after an interrupt | an interrupted request shows and ends as such |
| websocket pool (`ws_pool.go`, `ws_client.go`, `ws_session.go`) | connections per key: idle, busy, age | get, put, remove, warm up, clean up, close | the lock is dropped during dial and ping | a connection serves one request; the cap holds; none leaks |
| websocket affinity (`ws_affinity.go`, `op/ws_affinity.go`) | a hot map before a table | get, set, delete | a fill races a deletion | no deleted entry comes back |
| replay store (`responses_replay_store.go`) | map of responses; counters of entries and bytes | put, get, delete, sweep | counters apart from the map | counters agree with the map when idle; bounded |
| relay log (`op/log.go`) | queue bounded by entries and bytes; cache of recent logs | append; flush by copy, insert, remove; retry | a failure between the steps; arrivals during a flush | nothing lost or repeated beyond the documented drop |
| statistics (`op/stats*.go`) | counters and dirty sets | update; flush; restore after failure | updates during a flush | flushed counters reach the table |
| site synchronisation (`sitesync/`, `op/site*.go`) | per account: groups, tokens, models with their routes and switches; channels bound to a group and a route; group items | ask the panel, persist its answer, project the account onto channels; edits; learned routes | partial answers; several goroutines at once; a dozen operations that may each fail | what an undisturbed projection leaves is the account; no answer costs a choice or the history |
| channel and group caches (`op/channel.go`, `op/group.go`) | copies of tables; keys with unsaved statistics | CRUD; delayed key save | an upsert of a row deleted meanwhile | a deleted row stays deleted |
| task scheduler (`task/task.go`) | a loop per task, its ticker and channel | register, run, update the interval | a busy loop drops the update | the last interval set takes effect |
| site outliers (`outlierwindow/`, `task/site_outlier.go`, `op/site_outlier.go`) | a sliding window per key; the retired channels with their successful probes | report, evaluate; judge, retire, recover | a probe of seconds between a look and its use; projections switch channels on | the last channel of an account stays, except in an outage |
| group health (`grouphealth/`) | one running run, its snapshot | start, append, finish | a failed append | the next run can start |
| route planning, transformers, body cache, compression, side paths (images, compact), server, persistence, update | configuration, payloads, tables | conversions, CRUD, I/O | volume rather than order | outside what these models tell apart |

## 2. Modules

| module | models | checked by | proved in |
|---|---|---|---|
| `RuntimeAvailability` | the health table, the attempts that lease it, time and resets; the Retry-After hint | `availability`, `single_flight` | `Shared_proofs` |
| `ChannelConcurrency` | one channel's in-flight counter by atomic steps | `availability`, `over_max` | `Shared_proofs` |
| `RelayRequest` | one request through the candidate loop | `request`, `silent_replay` | `RelayRequest_proofs` |
| `CredentialFairness` | the fair ledger of one channel | `availability` | `Shared_proofs` |
| `EarlyHeartbeat` | the heartbeat goroutine against its handler | `streams`, `error_event` | `Streams_proofs` |
| `StreamProcessor` | the loop that carries a streamed answer, its reader and its source | `streams` | `Streams_proofs` |
| `StreamTranslate` | streamed answers: four decoders and three encoders in every pair | `streams` | `StreamEncode_proofs` (the encoders and their clients), `StreamTranslate_proofs` |
| `RequestTranslate` | conversations: three inbound and four outbound adapters in every pair | `streams`, `tool_results` | `Streams_proofs` (`RtRetriesAgree`) |
| `TaskScheduler` | a scheduled task, its loop and the changes of its interval | `streams` | `Streams_proofs` |
| `WSPool` | the upstream websocket connections of one pool key | `ws_pool`, `ws_single_use` | `WSPool_proofs` |
| `RelayLog` | the relay log: queue, ring, flush, clear, reads, shutdown | `stores` | `Stores_proofs` |
| `LogLife` | what the relay log promises of each log; `RelayLog` implements it | `stores` | `Stores_proofs` |
| `StatsFlush` | statistics in memory, their dirty marks and their saves | `stores` | `Stores_proofs` |
| `StatsLedger` | the leaderboard's hourly rows, their flush, backfill and queries | `stores` | `Stores_proofs` |
| `ReplayStore` | the store of conversations to replay, by operations of sync.Map and atomic counters | `stores` | `Stores_proofs` |
| `Continuation` | conversations by response ID: the rounds of a socket, the states recorded of them, native continuation and exact replay, over websockets and HTTP | `stores`, `self_contained` | `Stores_proofs` |
| `SiteSync` | one site account: synchronisations, projections, edits, failures and restarts | `request` | `SiteSync_proofs` |
| `SiteOutlier` | the task that retires an account's channels and brings them back, beside `SiteSync` | `request` | `SiteSync_proofs` |
| `MCShared`, `MCStores`, `MCStreams`, `MCRequest` | compositions for TLC: each behaviour exercises one `part` | | |
| `MC...` | instances for TLC | | |

`RelayRequest` sees the shared tables as answers chosen by the environment (a lease is granted or not, a slot
is free or not); the modules of those tables see requests as clients that acquire, report and release in any
order. Each half is therefore checked against more behaviours than the other half produces.

The compositions `MCShared`, `MCStores`, `MCStreams` and `MCRequest` put components into one run that share no state. A variable `part`, chosen at the start,
names the component a behaviour exercises; the others keep their initial state, or stand where they stand when they have ended (`ProcessorEnded`), so
that fairness asks nothing of them. Every interleaving within a component is explored and no product of components that could not disturb
each other.

### RuntimeAvailability

`entry` is the table of runtime.go: a function from provider and model keys to a record (`state, left, streak,
window, inFlight`); a missing entry is the zero entry, which every reader treats alike. `left` and `window` are the code's
deadlines kept as the time left until them, which lets the action `Tick` go on for ever in a finite state space. `pc`, `cand` and
`lease` say for each attempt where it is, its candidate, and the keys its lease covers.
`AcquireCandidate`, `ReleaseLease`, `RecordProviderFailure`, `RecordModelFailure`, `RecordModelCapacity`, `EnsureModelFailure`,
`RecordModelSuspect`, `RecordSuccess` and `ResetChannel` are the functions of those names, each atomic because the code
holds the runtime's lock throughout; `Finish` is applyRuntimeAvailabilityEffect, a verdict, followed by the
deferred release as a step of its own, as in the code, so that other attempts come between: `RecordModelCapacity` followed by
`EnsureModelFailure` is the one outcome with two calls. `nearestRuntimeRecovery`
is a pure operator over the table.

### ChannelConcurrency

`maxConcurrency` is the limit of the configuration, chosen once. `entry` is what the sync.Map holds for the channel, `value` the counter objects (a removed one lives on with
whoever fetched it), `pc`, `counter` and `current` each goroutine's place and locals. Each action is one atomic operation of
the code: a map access, an atomic load, a compare-and-swap.

### RelayRequest

`pc` names the handler's place: *route* (the loop of `run`), *admit*, *reserve*, *select*, *rpm* (processCandidate), *dial* and
*wire* (runProtocolRetries), *judge* (runSameChannelAttempts), *settle* (handleAttemptResult), *done*. A result
is a class of failure with two flags, whether the upstream may have received it and whether the client received anything;
`Outcomes` gives the classes possible in the request's context. The operators `Terminal`, `SkipsProvider`, `Retries`,
`CredentialFailure` and `UnknownOutcome` are decideRoutingAttempt.

### CredentialFairness

`members`, `watermark`, `sequence`, `lastMember` and `consecutive` are the fields of credentialFairLedger; `streak` and `sticky` are
history variables, which no action reads. A selection is
one action because the code holds the ledger's lock; its input is any non-empty candidate set with any revisions the
configuration may show, with a preference when the caller has a sticky key. `PeekCredentialFair` is an operator.

### EarlyHeartbeat

Two processes, `beat` (the goroutine) and `main` (the handler), the mutex, the header-sent flag, the two channels, and the
response writer as the owner of its last write. The stream processors the handler starts write through `StreamComment`.

### WSPool

`entry` is what the pool's map holds for one key, `conns` the content of each entry: entries are identities, because a ping keeps a pointer to
the one it saw (`sees`) and the map may have another by the time it ends. `inFlight` and `busy` are the fields of those names, `link` says whether a
connection was dialed or closed, and `pc`, `want` and `uses` where a request is, the connection it prefers and the one it works with. Everything under
the pool's lock is one action; a dial and a ping are split where the lock is free. GetPreferred is three actions by its result (`GetNothing`,
`GetIdle`, `GetPings`), each with the pruning it begins with. Ages are not kept: any look at the clock may find any connection past a limit.
`overtaken` is a history variable: a ping came back and its connection had left the pool or was busy, or the entry had changed. Channels marked unsupported
or in backoff only keep requests away from the pool. Close, which the process's end calls, is left out.

### StreamProcessor

Run's select loop, the reader goroutine and an SSE source's own reader, each behind a channel of one place (`spEvents`, `spResults`); or a raw source that
the reader reads itself. `spTimed` says whether a first-token timer was given, `spFirst` whether it still waits, `spRun` what Run returned and
`spWritten` what the client got. A chunk is its kind. The select takes any ready case, as Go's does.

### StreamTranslate and RequestTranslate

Both are made the same way: *what the provider (or client) may send* is external, one grammar per protocol; the adapters in between are translated from
the source; and *the other end* is external again, a reader of its own protocol that notes the first thing it cannot accept. The internal events and messages are the
structures of `transformer/model`. In `StreamTranslate` a piece is `<<kind, tool>>`, and the state of a decoder and an encoder are the fields of those adapters;
each provider event is one step, through TransformStreamEvent and TransformStreamEvents. In `RequestTranslate` a conversation grows by one item per step and the properties
speak of every conversation reached; Validate, the repairs of tool calls (compat/tool_calls.go), alternation (model/alternation.go), system hoisting, the
cache breakpoints and the signatures of thoughts are operators. `RtRetriesAgree` converts the same conversation for a second attempt.

### TaskScheduler

A task from its registration to the end of its loop: the map of tasks, the unbuffered channel of new intervals (taken only by a loop that waits in its select), the
running flag, and the administrators' handler, which stores the setting and then offers the change. `tkMissed` is a history variable: an offer met nobody.

### RelayLog and LogLife

`RelayLog` has the queue, the ring of recent logs, and the table; a flusher copies a batch, inserts it and removes it by ID, in three steps under the flush lock; the
queue drops its oldest entries when it passes its limit of entries or bytes; a clear, a cleanup, a lookup, a listing by cursor and the shutdown hooks are split where the code drops a
lock or awaits the database. `LogLife` is the abstract specification: a log is unseen, waiting, stored or gone, and never goes back. The refinement mapping
`Life(l)` reads a log's stage off the queue, the batch on its way and the table; `LogImplementsLife` is `Lives!LifeSpec` under it.

### StatsFlush

One table of counters with its dirty set, and the day's counter. A request takes the day's lock and the row's separately (`StRowGet`, `StRowSet`, the
unlocked read and write of StatsChannelUpdate); a save swaps the dirty set, writes the rows one after another and puts back what failed. Saves may overlap. `stMixed`
is a history variable: an overlapping save wrote an older copy over a newer one.

### StatsLedger

`ldLive` counts how often each request was added to the live rows, `ldOld` what the backfill wrote, `ldCache` what memory holds. The barrier lock is a variable, since it is
held across a transaction. The process may restart at any time, which loses memory and runs the backfill anew. `ldEarly` is a history variable, see the deviations.

### ReplayStore

Store with its rollback, the lookup that finds an expired entry, and the sweep, each by operations of sync.Map and of the two counters. `rsShared` is a history
variable: an operation began while its key was in other hands.

### Continuation

An item is what one request brought or one response answered, a conversation a sequence of items, and response IDs are numbered. `ctLocal` is the state the socket's loop
holds between rounds, `ctStored` and `ctHttp` the stores of ws_state_store.go and of HTTP replays; `ctKnown` says which responses each upstream has given, `ctConv` what the client means by each ID. `ctRound` is the round
under way: its request, the state it was resolved to, how it is executed (*native*, with the previous ID, or *replay*, with the recorded window before the input), its run and tries, and the `frames` the client has read. `WsReceive` is
processWSResponseCreate up to the first attempt, `HttpReceive` prepareHTTPReplay, an attempt one of `Answer`, `FailNext`, `FailCommitted` and `Restart` (the second run as a replay, or its refusal), and `ExactOutput` tells when the output reaches the record.
A channel is a way to speak: *off*, *passthrough*, *transform*, or *chat*, which is never shown the ID. `ctPartial` is a history variable: the responses whose record need not be whole.

### SiteSync and SiteOutlier

`siGroups`, `siTokens`, `siModels`, `siBindings`, `siItems` and `siRetired` are the tables, `siDb` and `siCache` the channels and their cache; `siProc` says where each goroutine
stands and what it read, for nothing serialises the goroutines that synchronise or project an account. A step is one transaction or one operation of the op
package; `ChannelEnabledManaged` is three, since it reads the cache, writes the row, and puts its copy back (`SwitchRow`, `SwitchCache`). What a panel may answer is a
record: per group the token and whether its models are known, the list of groups, and the groups a model's metadata names; `Result` is
finalizeSiteGroupSyncResults, `TokensAfter`, `ModelAfter` and `GroupAfter` what persistSyncSnapshot keeps. `Wanted` is what ProjectAccount derives from the rows, and `Bucketed` to
`KeepRetired` how it gets there: channels and bindings, items that move with their model, channels that are not wanted, and retired ones that go off
again. `SiFail` fails any operation where the code either logs the error and goes on, or ends; `SiRestart` ends the process. The edits are the handlers' transactions, each followed by whatever projection comes.
`siFresh` is a history variable: the last that happened was a projection of the account as it is, which began with a cache that agreed with the table and which nothing disturbed.

`SiteOutlier` adds the task's goroutine. The window's evidence and the probe's answer are any; between the look at the other channels and the retirement
lies a probe, and anybody may act.

## 3. Runs

| run | question | bounds | outcome |
|---|---|---|---|
| `availability` | is the health table consistent whatever overlaps, and every candidate acquirable again and again? does a counter stay within the limit, and no slot leak? is the ledger consistent, are shares equal until a sticky key decides, are bursts bounded, does peek predict select? | one provider, two models, two attempts, stages up to 2, cooldowns of 1 to 3 units, Retry-After 0, 1 or 3; three goroutines, three counters, a limit of two or none, configuration resets; three keys, two revisions, one sticky key or none, four selections | passes |
| `single_flight` | is a half-open entry tried by one attempt at a time? | two attempts on one model | **violated**: see findings |
| `over_max` | can more requests than the limit run without any reset? | three goroutines, limit one | **violated** |
| `request` | are leases, slots, budgets and answers right on every path, and does every request end? is what an undisturbed projection leaves the account, does no answer cost a choice or the history, does a judgement spare the last channel? | five candidates of four channels, two keys, three providers, four wires, one unknown replay; two groups, models and routes, three answers of the panel, four channel IDs, two goroutines and the task, up to four operations, two overlapping, one failure or restart | passes |
| `silent_replay` | is a request whose connection broke after dispatch replayed at most once? | the same | **violated** |
| `streams` | does a translated conversation say what the client said, and a translated stream what the provider sent, in a form its reader accepts? is there one writer, do all goroutines of a stream end, is its outcome the truth, does a task obey its last interval? | conversations of four items, at most three cache marks; streams of seven provider events with two tools, all twelve pairs; three streaming attempts; three chunks; two administrators, three changes | passes |
| `tool_results` | does merging turns keep each result with its call? | the conversations above, Chat to Anthropic and Gemini | **violated** |
| `error_event` | has an error the form of the answer it joins? | one streaming attempt | **violated** |
| `ws_pool` | does a connection serve one request, do open connections and dials stay within the cap and in the pool, and does no capacity get lost? | three requests, connections and entries, at most two per key, one of them idle | passes |
| `ws_single_use` | does a connection serve one request also when a ping is overtaken? | the same | **violated** |
| `stores` | does the relay log implement the life of its logs, are its reads sound and its queue accounted? is every statistic saved in the end, every request shown once, the replay store within its counters? is what is replayed the conversation that is continued, and does a client read one answer? | two writers, two logs, a queue of two, batches and ring of one; two requests, one saver, two days; four requests, one reader, two starts; two requests, two keys, four entries; three rounds of two models, four kinds of channel, two attempts in each of a round's two runs | passes |
| `self_contained` | is a replay the whole conversation? | the same conversations | **violated** |

Every property of a passing run is accompanied by a faulty variant of one of the module's definitions (marked *Faulty
variant*) under which TLC finds it violated: a forgotten guard, a missing release, an off-by-one.

*Why the bounds are enough.* Two attempts on one provider with two models share the provider's entry and not the
model's, which is all the sharing a lease knows; two stages tell a first cooldown from a relapse, and hints below, at and above the
cap show every branch of the explicit cooldown. Three goroutines on a counter are a holder, one that releases, and one that acquires between its two
steps, and each brings at most one counter of its own. The candidates of the request runs repeat a channel around another (so that skipping it matters), have more channels
than the provider budget, and enough wires for a retry, a rotation and an unknown replay in one request. In the ledger, two keys that
compete and a third that comes and goes show every rule; `MaxSelections` bounds the selections of one
ledger, and the proofs hold for every bound. In the pool, two requests compete for a connection while a third dials at the cap; with a cap above the number
that may stay idle the cleanup has something to choose; three entries let the map go through a second one while a ping still has the first.

A conversation of four items has a turn with two calls and both results, or a thought before a call with its result, which is what merging, repairs and signatures
react to; Three rounds let a conversation be answered on one channel, continued on another, and replayed on a third, and a second model take the socket in between. Anthropic's limit of four cache marks is lowered to three so that a conversation can pass it. Seven events let a stream open and close two blocks of different kinds with a piece each and its end; two tools tell parallel calls
from successive ones. With two logs one can be in a batch of one on its way while the other arrives, is dropped, or is cleared with it; a ring of one forgets the first. Two starts of the
process and four requests give the ledger one request from before there was a leaderboard, one of the first process, and two of the second around its backfill. One expired and one living entry of two keys, with room for one,
are what a store, its rollback and a sweep can disturb; four entries let a key be stored anew twice.

The account of the site runs has two groups, so that a model can be known through another group's token, and two models of different routes, so that one can move to another channel of its
group; the three answers are a full one, one without a token for a group, and one with a masked token, unknown models and no list of groups. `MCStarts` names what a behaviour may combine: three operations of which two overlap; two with
a round of the task and a failure; a retirement, its recovery and two operations; auto-grouping with a failure or an edit. A projection after any operation, a
failure inside a projection followed by one that makes it good, and two projections at once all fit. Edits concern one group.

*Fairness.* `availability` assumes that time passes and that attempts end (every wire has a deadline). `request` assumes the
handler's goroutine runs and that a wire returns, which the transport's timeouts ensure. `streams` assumes for the heartbeat that both goroutines run,
that a timer once due fires, that attempts end, and that a waiter for a sync.Mutex gets it in time (Go's mutex
hands over after a millisecond of starvation: strong fairness of the locking step); for the stream processor that each goroutine runs when it can and that closing a body or
canceling its request breaks a read; for the task that the handler and the loop run. No fairness is asked of clients, providers or administrators. The stores state safety only.

### Findings

* **A second trial can run beside the first** (`single_flight`). The in-flight mark of a half-open entry does not say whose trial it
  is. An attempt that holds no lease and fails late cools the entry again and clears the mark (availability/runtime.go:234), and
  ReleaseLease (runtime.go:172) clears it for any half-open entry of a lease that is out of date; either way another attempt gets a lease while
  the first trial is still running.
* **The limit of a channel can be passed** (`over_max`). ReleaseChannel (balancer/concurrency.go:49) removes the counter at
  zero although another request may have fetched it and not swapped it yet.
* **Connections broken after dispatch are replayed without limit** (`silent_replay`). The plan document allows one replay when the
  upstream may have got the request; routing_decision.go:389 calls such a failure safe to replay.
* **An error can be JSON inside an event stream** (`error_event`). FlushOrError (heartbeat.go:177) reads headerSet without the lock.
* **A websocket can serve two requests** (`ws_single_use`). GetPreferred (ws_pool.go:131) drops the lock for a ping, has not marked the connection busy, and does
  not look again; another request may have taken it. The same gap can take the connection's successors out of the pool's map (PingFails), so single use
  and the cap are stated for behaviours in which no ping was overtaken, and `CapacityHeld` for all.
* **Merged tool results lose their call** (`tool_results`). mergeSameRole (transformer/model/alternation.go:236) keeps the first result's ToolCallID for all results of a turn; the other
  calls get an empty result.

* **A replay can miss what was answered** (`self_contained`). The window that is replayed holds an answer only where its exact output was at hand. StreamAggregator.Response drops the raw output of a stream and a translated answer has none, so the window
  then consists of requests alone, although BuildReplayRequest (ws_session.go:161) promises a self-contained request.

### Deviations the models reproduce

These are no violations of something the repository says, or were not followed up; the models behave like the code, and where a property would otherwise not hold its statement names the exception.

*Requests.* For Gemini an assistant message of two or more text parts is dropped, a tool result given as blocks becomes the empty text, and an echoed call's signature also
goes to a sibling call without one. For Anthropic developer messages are dropped, and so are redacted thoughts beside a single text without a cache mark and unsigned thoughts among several parts; `tool_choice` and effort are
not modelled. mergeSameRole loses a message's flat reasoning and signature, its redacted blocks, cache mark and error flag; a text beside a result becomes part of the result, and an image there is lost. Parallel calls of a Responses client become one
assistant message each for Chat; the Responses adapter writes calls before text. Every attempt converts a fresh clone, so conversions that are not idempotent do no harm.

*Streams.* Interleaved deltas of parallel tools are joined by the encoder of Messages; a Responses stream that ends with `response.incomplete` (`stSource.cut`), a blocked Gemini prompt (`blocked`) and a stream
without usage after its finish have no terminal event; a Gemini candidate that finishes without content ends a Responses stream that never began (`bare`); a refusal is dropped for Messages clients and redacted thoughts for Responses clients; after an error event
the encoders still write later events.

*Conversations.* A round whose first run wrote through the passthrough, past the round's writer, may be run again (ws_client.go:284, ws_passthrough.go:257), against USAGE.md:449 (`CtCommittedNotReplayed`; `CtOneAnswer` names the exception). A client on a socket that continues an older response than its last (`CtForks`) gets
the later one's window; a request that repeats the whole history with its tool outputs has it doubled by the recorded window; a chat channel drops the ID it continues and answers the last input alone; the window is replayed to any provider. The explicit `conversation` field is passed on unread, and the store of aliases and the transcript fallback are never used.

*Sites.* These were seen in the code while modelling; where the models show them, `ProjectionFaithful` excludes them by speaking of projections that end undisturbed. (1) With auto-grouping, a model that changes its route may already have an item on the new channel; the rewrite (project.go:739)
then violates the unique index, and this and every later projection ends there (project_test.go:135-193 has the move without auto-grouping). (2) A group with a manual key but none at the panel is *missing_key* at each synchronisation and paused. (3) When no list of groups is answered,
groups without a key count as removed: their rows go, and with them an administrator's switch. (4) A token that was masked first and complete later stays switched off. (5) A recovery switches a channel on whose group is paused or whose account is off, until the next projection. (6) ChannelEnabledManaged may put a channel back
into the cache that was deleted since, or one that was updated since as it was before (op/channel.go:402-415); the next projection compares the keys with that copy (project.go:451) and leaves the wrong ones, so that `ProjectionFaithful` asks that the cache agreed with the table when it began. (7) A channel whose binding failed, or whose deletion failed, stays without a binding until a projection wants its name. (8) The models an administrator added to a group go with the next answer that lists the group. (9) An older projection that overlaps a newer one may undo it. (10) The last channel that is on
may be retired when a projection switches the other one off during the probe. Outside the model: the same name finds a channel again when a platform begins to split (project.go:357) and the old binding's key deletes it; a token typed in directly stays as a manual one after it is replaced.

*Stores and tasks.* A used key written back at the shutdown may revert an administrator's change or create a deleted key anew; SaveCache ends at its first error, so that the logs after it may not be saved; a reload after ChannelUpdate drops unsaved statistics of
the keys. A rate window is fetched and locked after a reset may have replaced it (balancer/rate.go:21); an expired sticky session is deleted by its key after it was read, which may hit the one just stored (balancer/session.go:34); a lookup that missed may fill the affinity map from a
table row deleted meanwhile (ws_affinity.go:98). A process that flushed rows and ended before its backfill had fixed the cutoff leaves them to be counted twice (stats_leaderboard_backfill.go:27, `ldEarly`). Overlapping saves may write an older row last (`stMixed`), and StatsChannelUpdate may lose one of two
updates (stats.go:366). Where two operations have one key at once the replay store may stay above its limits (`rsShared`): a rollback is given up when another store has replaced the entry, and that store does not check; and an entry
that has expired and is dropped before it is counted makes room that is not there. A change of an interval before task.Init has run, or while the loop is not in its
select, is skipped, and a task that was removed is not registered again until the process restarts.

## 4. Proofs

| theorem | property | argument |
|---|---|---|
| `Shared_proofs` `RaTypeCorrect`, `EntriesConsistent`, `NoLostTrial`, `RelapseAdvances`, `RetryAfterIsInTime` | `TypeOK`, `EntryConsistent`, `HalfOpenTrialIsHeld`, `RelapseAdvancesStage`, `RetryAfterIsEarliest` | one inductive invariant, theorem `RaInvariance` |
| `Shared_proofs` `CcTypeCorrect`, `CountersWithinLimit`, `NoSlotLeak` | `CcTypeOK`, `CounterWithinLimit`, `LoadNotOverstated` | `CcInvariance` |
| `WSPool_proofs` `TypeCorrect`, `CapacityIsHeld`, `SingleUseKept`, `CapKept` | `TypeOK`, `CapacityHeld`, `SingleUseUnlessOvertaken`, `CapUnlessOvertaken` | `Invariance` |
| `RelayRequest_proofs` `TypeCorrect`, `NothingLeaks`, `BudgetsHold`, `UnknownReplaysBounded`, `PayloadUngarbled`, `SettledExactlyOnce`, `GivenUpForGood` | `TypeOK`, `HeldWhileInside`, `WithinBudget`, `UnknownReplayBounded`, `EnvelopeAfterPayloadOnlyOnReset`, `SettledOnce`, `NoWireAfterGivingUp` | `Invariance` |
| `Streams_proofs` `HbTypeCorrect`, `OnlyOneWrites` | `TypeOK`, `OneWriter` of `EarlyHeartbeat` | `HbInvariance` |
| `Streams_proofs` `SpOutcomes` | `SpOutcomeSound` | `SpInvariance` |
| `Streams_proofs` `TkNeverOverlaps` | `TkSound` | an inductive invariant, `TkInv` |
| `StreamTranslate_proofs` `StreamRules`, `StreamKeepsFaith` | `StreamWellFormed`, `StreamFaithful` | an inductive invariant, `StreamInv` (`StreamInductive`) |
| `Streams_proofs` `RtAttemptsAgree` | `RtRetriesAgree` | an inductive invariant, `RtInv` |
| `Stores_proofs` `KeptLogsAreFound`, `ImplementsLife` | `LogGetFinds`, `LogImplementsLife` | `LogInvariance`, and a step simulation |
| `Stores_proofs` `LdTypeCorrect`, `ShownOnce` | `LdTypeOK`, `LdShownOnce` | `LdInvariance` |
| `Stores_proofs` `StTypeCorrect`, `NothingIsLost` | `StTypeOK`, `StSaved` | `StInvariance` |
| `Stores_proofs` `CtTypeCorrect`, `OneAnswerIsRead` | `CtTypeOK`, `CtOneAnswer` | `CtInvariance` |
| `Stores_proofs` `ReplayIsTheConversation` | `CtReplaySound`, where clients do not fork | an invariant of its own, `CtHeld`, on top |
| `Stores_proofs` `ReadsAreSound` | `LogReadsSound` | `LogPaged`, on top of the relay log's invariant |
| `Stores_proofs` `QueueIsAccounted` | `LogQueueAccounted` | `LogCounted`, on top of the relay log's invariant |
| `Stores_proofs` `RsTypeCorrect`, `StoreIsAccounted` | `RsTypeOK`, `RsSound` | an inductive invariant, `RsInv` |
| `SiteSync_proofs` `SiTypeCorrect` | `SiTypeOK` of `SoSpec` | an inductive invariant, `Shape` |
| `SiteSync_proofs` `SyncTakesNothing` | `SyncKeeps` | `OneKeyEach`, on top |
| `SiteSync_proofs` `OneIsSpared` | `RetireSparesOne` | `AnotherSpared`, on top |
| `SiteSync_proofs` `ProjectionIsTheAccounts` | `ProjectionFaithful` | `OneBinding`, `OneName` and `AllUndisturbed`, on top |
| `Shared_proofs` `FairTypeCorrect`, `LedgerIsConsistent`, `BurstsAreBounded`, `PeekPredictsSelect`, `WarmupExpectsTheSelected`, `SharesAreEqual` | `FairTypeOK`, `LedgerConsistent`, `BurstBounded`, `PeekMatchesSelect`, `PeekPredicts`, `EqualShare` | `FairInvariance`, and for equal shares an invariant of its own |

*RuntimeAvailability.* The three safety invariants are inductive together and not apart: `HalfOpenTrialIsHeld` needs `TypeOK` (a lease names keys
of its attempt's candidate) and `EntryConsistent` (a trial only occurs in a half-open entry, so a verdict on an entry ends its trial). The
lemmas `AcquireStep`, `ReleaseStep`, `VerdictStep`, `FinishStep` and `EnvironmentStep` take one action each. `RelapseAdvancesStage` is an action
property: in the state before the step a half-open entry has a streak of one or more (`EntryConsistent`), and every way into a
cooldown adds to it. `RetryAfterIsEarliest` follows from `RecoveryIsFirst`: each candidate has a deadline at least as late as the one reported, and a deadline keeps its entry in cooldown. Assumed: `AvailabilityAssumption`, the shape of the tables and hints.

*ChannelConcurrency.* `LoadNotOverstated` compares a counter with the size of a set of goroutines that may work on other counters, so it is
not inductive. `CountedByHolders` is: the counter in the map is at most the number of goroutines that hold a slot and refer to that very
counter. With it go `SwapsWithinLimit` and `ReleasesPositive`, what a goroutine knows between its load and its swap. Cardinalities are
handled by the library's FiniteSetTheorems. Assumed: the set of goroutines is finite.

*CredentialFairness.* The invariant adds `Bounded` (no progress passes the watermark), `RunCounted` (`consecutive` agrees with the history) and
`FreshIsEmpty` (a ledger without selections has no members) to the checked properties. Equal shares need `Level` beside it: as long as no
sticky key decided, an eligible credential is at the watermark or one below it, and the last one selected is at it, so that the guard
against long runs has nothing to break (`TurnIsFirst`). That a minimum exists in a set of naturals is
taken from the well-foundedness of `<` on the naturals (WellFoundedInduction), since induction with an operator parameter is not available. `PeekPredicts` is an invariant of the composition `MCShared`; it holds
because a behaviour of the composition is one of the ledger (`SharedTakesLedgerSteps`).

*WSPool.* Single use needs two more facts, both for as long as no ping was overtaken: a connection in use is busy (`UsedIsBusy`), so one that is not
busy has no user when it is handed out, and a connection in use was dialed (`KnownIsDialed`), so a new one has no user either. The cap follows from
`inFlight` being the number of dials (`CapacityHeld`) and every open connection being in the pool, where the reservation counts it. The lemmas take one kind of
step each: those that leave the connections alone, those that prune, those that hand one out (`HandOut`), the ends of a ping, the dial, and the
ends of an attempt. Assumed: `PoolAssumption`, finitely many requests and connections and a cap of one or more.

*RelayRequest.* What is held follows from the place in the handler (`HeldWhileInside`), but only together with `OnCandidate` (inside the loop there is a candidate) and
`KeyChosen`. `WithinBudget` needs `BudgetLeft`, which says at which places a provider, a credential and a wire were already paid for, and `UnknownReplayBounded` needs `UnknownPaid`: at the
wire, a result that may have been executed was charged before. `SettledOnce` needs `AnswerTold`, which ties the exits to what the client got. One step per action, one lemma per group of actions. Assumed: the
shape of the candidate list and budgets that are naturals.

*EarlyHeartbeat.* `OneWriter` is an action property; before each write of the goroutine the invariant `Ended` says that the handler is not past Hand or Stop, since both wait for `done`.

*StreamProcessor.* `SpOnTheWay` orders what is under way: the nearer a chunk is to the body (the source's reader, its channel, the reader, the results, the client) the higher its number, and none was written before. From it follow the order and the absence of
duplicates that `SpOutcomeSound` asks for (`InOrder`). For a passthrough `SpForwarded` is stronger, nothing is skipped: the client has the numbers up to what the reader holds. `SpReturned` ties what Run returns to what was written, at each of its returns.

*TaskScheduler.* `TkMarked`: from before a run begins until it has ended the mark is set, and one run at most has it. `TkFollows`: unless an offer met nobody or changes overlapped, the setting is that of the change under way, or else of what task.Init has read and of the ticker. `TkLate` says that
a loop is made after the registration.

*StreamTranslate.* What a client was written and what a provider sent can only be compared through what the adapters' fields stand for, and that is an answer: the events that the decoder has told, taken one after the other (`Took`). `Allowed` says which internal
event may come next and `After` what it adds: a piece, a call, the stop, the usage. The answer knows neither provider nor client, so four decoders and three encoders need seven arguments and not twelve. `Agrees` has it where the provider is (`Standing`: as many calls, finished when
it is, the call that the open block belongs to still open to arguments) with the decoder's index and usage to match; each provider action has a lemma that its decoded events are lawful and take the answer there (`AnthropicCallPosts`, `GeminiPartedPosts` and so on). `MessagesTied`, `ResponsesTied` and
`ChatTied` have the client's view, after the frames being written, show it: for Messages one open block at most and the index to come next, for Responses an item for the message, the reasoning and each call, of which the open ones are those whose fields say so (`Layout`), for Chat one
chunk per provider event, so that its fields hold what the event told. `StreamInv` puts the two together: between two events some answer agrees with the provider and is tied to the client; with an event on the wire the client is tied to all but that, and what the decoder will tell
of it leads to where the provider is. Neither property is inductive without that, since neither mentions the decoder's fields or the event on the wire. Which streams are excepted is part of the proof: an answer that `strayed` (arguments for an older call) occurs only where the provider interleaved its calls, one that is `bare` only
where Gemini finished without content. The invariant asserts that an answer exists in an infinite set, so TLC cannot evaluate it; its two consequences are what the run checks.
How many events a provider event decodes to, how many parts a Gemini chunk has and how many calls are open is not bounded, so the proofs go along sequences. `FoldLeft` is a CHOOSE in the library; `RunsExist` shows that such a function exists and `RunsAgree` that any two agree, so that a fold has a value at each
beginning of its sequence (`FoldedGoes`), and `Upward`, from the well-foundedness of `<`, carries a fact along them. The library's induction theorems take an operator, which is not available; a set of numbers serves where the fact can be written as one. Assumed: `StreamAssumption`, known protocols and bounds that are naturals.

*RequestTranslate.* `RtRetriesAgree` holds because the attempts share the request as it was parsed (`RtShared`): every attempt's copy is made before the adapter rewrites it. Assumed: `RequestTranslateAssumption`.

*RelayLog.* A log is found because it is always somewhere a lookup still has to look: `LogPlaced` says that an accepted log is in the queue or the table unless it was dropped, cleared or has expired, `LogSought` what a lookup in progress has
still before it, `LogDrawn` that a batch on its way is in the queue or was just stored, `LogLocked` and `LogHooked` who may hold the flush lock, `LogQueued` that no ID is queued twice. The refinement maps each step to `Accept`, `Store`, `Discard` or a stutter, in a lemma
per action. `LogCounted` adds the bytes: a flush takes off the counter what its batch was, and the batch is the head of the queue. `LogPaged` is about
a listing that has read the queue: each log it is to show is on its page, in the table or was removed; so if the table gives fewer rows than asked for, and none that the queue had, nothing is missing. Filtering and sorting are builtin operators tlapm does not define, so
`Keeping` and `NewestRows` define them in the model: the first by a recursive function, the second by the number of newer rows, which differs from row to row because the order is total (`NewestRowsFacts`). Assumed: `LogAssumption`.

*StatsLedger.* `Barred`: while the saver writes it holds the barrier and no reader is between the table and the memory. `Apart`: a request is in at most one of memory, the saver's batch and the live rows, and there at most once. `Parted`: backfilled requests ended before the cutoff, live ones
after it. `Reading` carries both over to what a reader has added up so far.

*StatsFlush.* `StSaved` names who may still hold a counter, and the proof is about what the holders know. `StRowsHeld`: the copy a save has read, and the row it has written, are the counter in memory unless it was marked since; this needs that rows and marks are those of no other save, which is what
`~stMixed` says (`StOneSave`: two saves at once set it). `StDaysHeld`: a day that is over has a last counter and nobody counts into it again, a saver saves the day that runs, a request's save and the queue of retries the last counter of a day that is over. `StHolds` says what each place of a save knows.
Assumed: `StAssumption`, bounds that are naturals, at least one day, and requests that are not savers.

*ReplayStore.* The counters are sums over the map and over the operations under way, and a step changes one term of each (`TotalChanges`). That a sum changes by what one term does is proved from the library's definition of `SumFunction`, which adds up the elements in
an order CHOOSE picks: such a sum exists for every finite set and unfolds (`AddsExists`, `TotalUnfolds`), and any element may be taken out of it first (`TotalTakesOut`); induction with an operator parameter is not available, so `Upward` has it for sets of numbers, from the well-foundedness of `<`.
The limits need `RsWithin`: but for what stores are about to take back or to look at the counters are within them; and `RsAlone`, where nobody shares a key the map has what its operation left there, so a rollback finds its own entry. `RsBounded` excuses lookups as well as stores that met
another operation at their key: an attempt at the proof showed that with three keys an entry dropped before it was counted lets two more in. Assumed: `RsAssumption`, finitely many keys and goroutines, and sizes and limits that are naturals.

*Continuation.* `CtOneAnswer` needs `CtFrames`: while a round runs nothing was written through its writer, in its first run nothing at all, in its second at most what the passthrough wrote. `CtReplaySound` compares a window, which is recorded over several rounds, with the conversation. `CtKept`: a kept state
records the conversation up to its response, whole unless that is in `ctPartial`, and on a socket that response is the latest of its model; so it is the one that a legal request continues (`CtFinds`, the only place where the clients' discipline `~CtForks` is used), which `CtRunsWith` says of the round.
`CtItems`: a conversation has earlier requests and answers only, so the request and its answer are new to it, and a window that goes on with them is in order and has nothing twice (`TakenOnward`).

*SiteSync and SiteOutlier.* One invariant for the two modules, in three layers over `Shape`, which says what a goroutine has in hand at each place. `OneKeyEach`: a group has one token of each kind, which ties a row that is written to the row whose choices it carries on.
`AnotherSpared`: from the verdict to the end of the switch another channel than the candidate is on, unless somebody disturbed the round or it saw an outage. For the projection, `OneBinding` and `OneName` hold whatever overlaps: a name belongs to one channel, and a binding
to one channel and one name. `AllUndisturbed` says, for a projection nobody has disturbed, what is done at each of its places: what it read is still what the table has, the names it has passed have their channels, bindings, cache and items, and those it has still to visit are
untouched; when the account is off, in the loop over the names and in the clean-up. At its end that is `ChannelsAreTheAccounts`. A step of another goroutine either changes nothing it relies on (`QuietIsStill`) or is recorded as a disturbance. Assumed: `SiteAssumption` and `OutlierAssumption`.

*Only model-checked.* Liveness (`NoPermanentSideline`, `EveryRequestTerminates`, `AllEnd`), which with ENABLED is outside what TLAPS does; `RtFaithful`, which compares a translated conversation with the one it was made from: it says of four adapters what several nested
folds compute together, merging and splitting items, and would need for each what *StreamTranslate* needs for its encoders. The modules with proofs have no recursive operators.

## 5. Not modelled

What is left falls into four kinds; PROJECT.json has the list by component.

*Data rather than order.* A request's settings (tools, effort, sampling), audio, files and server tools, unstreamed answers, the embedding, image and Volcengine adapters, and the texts and status codes failures are
recognised by: large tables of conversions, each tested by example in the repository, whose steps do not interact. The protocol planner (`protocolroute/`) is a pure function whose effect on a request is the number of its wires. Compression transforms a payload.

*Dialogues with the outside.* The requests to panels and the parsing of their answers (`SiteSync` begins with what was understood), their check-ins, balances and prices, the frames on a websocket, updates of the program, and the database itself, of which only the unit
of a transaction and its failure are modelled.

*Repetitions.* The side paths (images, compact) repeat the handler's loop with fewer alternatives over the same leases, slots and classifier. The cooldowns of credentials repeat the health table's without trials. The
tables of `op/stats.go` beside the one modelled, and the site models' backfill, repeat `StatsFlush` and `StatsLedger`. The other platforms of `sitesync` end in the same snapshot.

*Hints.* The capability cache, the websocket affinity, the rate windows, the sticky sessions and the order of candidates decide who is tried first or at all, and `RelayRequest` allows every answer of theirs. The group health report and the registry of live requests are read by
administrators only. The outlier window is any evidence to `SiteOutlier`.

The in-flight counters, the health table and the ledgers meet in one request, but are checked apart (section 2). The models have one account, one pool key, one channel's ledger and one table of each
kind, which the code keeps apart by their keys.
