# Gatewright: specifications, model checking and proofs

Gatewright is an HTTP gateway in Go: it routes requests, authenticates and
rate-limits them, forwards them to pools of upstream targets, and reloads its
configuration without a restart. This directory holds TLA+ modules of the parts
whose correctness depends on order and time, the TLC runs that check them, and
TLAPS proofs. Paths below are relative to `internal/` unless they say otherwise.

## 1. The system

| Component | State it keeps | Operations | Hard behaviours |
| --- | --- | --- | --- |
| Target health and breaker (`pool/targetstate.go`) | health state and cause, ejection deadline, failure windows, breaker phase, half-open budget, in-flight count | `begin`, `done`, `activeResult`, `status`, lazy `normalizeLocked` | completions of attempts admitted in an earlier phase; instants read before the lock; responses that break off; cancelled probes |
| Pool and pickers (`pool/poolimpl.go`, `picker_*.go`) | weights and running credits, hash ring, checker goroutine | `Pick`, `Done`, `Start`, `Drain`, `Close` | the look at a target and its reservation are separate locks; credits of targets out of rotation |
| Forwarder (`proxy/forward.go`) | per request: attempt state, body plan, retry count | `ServeHTTP`, `onError`, `onResponse`, `maybeMirror` | retries, body replay, client gone, upgrade, broken-off bodies |
| Router (`proxy/router.go`) | compiled routes | `NewRouter`, `Match` | precedence among hosts, paths, methods, headers; paths that decode differently at the target |
| Rate limiters (`limiter/`) | per key: encoded strategy state with expiry | `Allow`, `Release`, `SnapshotState`, `RestoreState` | time and lock order, eviction at `max_keys`, TTL, expiry |
| Shared store (`store/bbolt.go`) | records with expiry in one file, the file's lock | `Open`, `Update`, `sweepExpired`, `Close` | instant read before the writer lock, crashes between two transactions, two processes on one path |
| Rate limit stage (`middleware/ratelimit.go`) | per request: the releases it owes | `NewRateLimit`, `completionWriter` | several limiters per route, release on every way out |
| Total timeout (`middleware/totaltimeout.go`) | per request: who has written | `NewTotalTimeout`, `timeoutWriter` | timer against the handler |
| Supervisor (`runtime/supervisor.go`, `runtime/build.go`, `../cmd/gatewright/run.go`) | generations with reference counts, shared store, two mutexes | `Handler`, `serve`, `applyConfig`, `Watch`, `Drain` | reload against requests, failing candidates, reload against shutdown, grace periods |
| Route statistics, limiter sink (`runtime/provider.go`, `sink.go`) | counters, rings of per-second buckets | `countRequest`, `tick`, `percentiles` | ticks against counts |
| Admin API and event stream (`admin/`) | subscribers, one state loop | `subscribe`, `unsubscribe`, `publish`, `stateLoop` | slow readers, last unsubscribe against a new subscribe |
| Body limit, access line (`middleware/bodysize.go`, `accesslog.go`) | per request: bytes left, what was written | `NewBodyLimit`, `NewAccessLog` and their writers | a body that turns out too large while the answer is under way |
| Configuration (`config/`) | none | `Load`, `normalizeAndValidate`, `applyDefaults` | what validation accepts against what the build and the strategies need; unset, zero and unreadable are three things |
| Other middleware (`middleware/`) | none across requests | auth, CORS, request id, headers | pure per request |
| Metrics, logging, TLS, errors (`obs/`, `tlsutil/`, `errs/`) | counters, files | leaf services | I/O |

How they interact: a request enters `Supervisor.Handler`, takes a reference on
the current generation, passes that generation's middleware (statistics, limits,
timeout) to its forwarder, which picks targets from a pool, reports every
attempt to the target's record and retries. The supervisor's reload builds a
complete new generation beside the old one; limiter state is copied from the
old engines into the new ones; the shared store is the one thing generations
have in common. Health checkers, the watcher, the sampler and the admin server
are goroutines of their own.

What makes each part correct is what the runs below check; `PROJECT.json` lists
the hazards with the line where each bites and the properties aimed at it.

## 2. Plan

Order: what decides whether requests are served first, then quota, then the
choice of route and target, then what processes share.

| Step | Modules | State |
| --- | --- | --- |
| 1 | `TargetHealth`, `TargetContract` | checked; invariants and refinement proved |
| 2 | `Generations`, `ServingContract` | checked; invariants proved, and, for a shutdown no reload overlaps, the refinement |
| 3 | `Strategies`, `Limiter` | checked; its safety properties proved |
| 4 | `Exchange` | checked; its safety properties proved |
| 5 | `Configuration`, `Dispatch` | checked; all six invariants proved |
| 6 | `Pickers` | checked; its safety properties proved |
| 7 | `SharedStore`, `SlotContract` | checked; exact count and refinement proved |

Every safety property that a run checks is proved; liveness is left to TLC. The event
stream of the admin page is the one concurrent part without a module.

Abstract specifications: `TargetContract` (what a target promises its pool),
`ServingContract` (what reload promises a client), `SlotContract` (what a
concurrency limiter promises over a store that processes share).

## 3. Modules and the code

One module per component; `MC...` modules add what only TLC needs; `...Proofs` and
`ServingRefinement` hold theorems. An operator with a suffix after an underscore
(`OpenBreaker_KeepsBudget`) is a mutant: a plausible mistake in the definition that
follows it, used to see that a property is able to fail.

### TargetHealth (`pool/targetstate.go`)

`st` is the `targetState` struct; each of its methods holds the struct's mutex
from start to end, so each is an operator from record to record (`Begun`,
`Completed`, `Cancelled`, `ActiveResult`, ...) and one step. Failure lists are
multisets of instants. The lazy transitions of `normalizeLocked` are `Normalize`,
applied where the code applies them. `Begin`, `Complete`, `Cancel`, `Abort` are
what a proxy attempt does to the record, `ProbeResult`, `CancelProber`,
`LastProbe` what the active checker does, `Look` every other read. Instants are
read by the callers before the mutex (`poolimpl.go`, the pickers), so a step works
with any instant up to `MaxLag` old. `Abort` is a response that breaks off after
its header: `httputil.ReverseProxy` panics with `ErrAbortHandler` and
`forward.go:174-182` never reaches `Done`. The health checker is either absent for
the whole run or running from the start.

`TargetContract` has no thresholds, windows or budgets: it says which changes of
health and circuit a verdict, a check or time may make and when load may be
placed. `KeepsContract` is the refinement.

### Generations (`runtime/supervisor.go`, `runtime/build.go`, `cmd/gatewright/run.go`)

`reload` is the one `applyConfig` that holds `reloadMu`, step by step: load, open
the store, start the pools, build the rest, swap. `gens` are the `Runtime`s, with
their reference counts and whether their context still runs; `current` is the
published pointer. A request loads the pointer (`Lookup`) and counts itself
(`Count`) under the read lock of `genMu`, and the two swaps need the write lock, so
they wait for `Readers = {}` and keep new readers out while they wait.
`shutdownAsync` is `RetireCancel` and `RetireClose`; the end of `run.go` is
`Signal`, `ServersStop`, `DrainSwap`, `DrainCancel`, `DrainClose`. Every grace
period is 30 seconds, so one FIFO of timers stands for all of them. The watcher
keeps the stamp it acted on; a configuration is a model value with three facts:
does it load, does it build, which store does it name. `LateReloads` says whether
a reload may be under way during the shutdown, which the code does not prevent.

`ServingContract`: at any moment one configuration is in force, a request is
served by the one in force when it was admitted, none is admitted after the stop.

### Strategies and Limiter (`limiter/*/algo.go`, `limiter/engine.go`, `runtime/build.go`)

`Strategies` holds the six `Step` functions and `ReleaseStep` as operators from
state, instant and cost to the state to store and the decision, the engine's
clamps included, and the TTLs. Time is in ticks; the buckets' float levels are
exact multiples of `1/Window` here. What rounding does to a level is therefore out
of the model; the rounding of durations (up for a waiting time, down for a reset)
is in it. A fixed window is aligned to multiples of `Window` where Go's `Truncate`
aligns to its zero time; nothing depends on the offset.

`Limiter` is one limiter with one shard (shards share no state; `Budget` is
`max(max_keys/16, 8)`). A call is one step, as it is under the shard's lock: look
up, step the strategy, store with a new lease, evict. `CarryOver` is
`carryState`: the live entries copied to the engine of the generation being
built, with the fixed lease of one hour; then the build fails (`Abandon`) or is
published (`Swap`). `held` is what requests hold of a concurrency limiter; they
release to the engine that admitted them. `ledger`, `rewound`, `inherited`,
`forgotten` and `late` only serve the properties and bounds: `ledger` says for each
instant how many units were admitted with an instant up to it, so that what was
admitted in any interval is a difference of two of its values.

### Exchange (`proxy/forward.go`, `middleware/`, `runtime/assemble.go`)

`at` is where the handler's goroutine is: a stage of the chain, a step of the
forwarder's loop, or one of the deferred calls on the way out. The actions follow
`ServeHTTP` in order: `Plan` (`planBody`, `maybeMirror`), then per attempt `Pick`,
`Send`, the upstream's reaction, `Report` (`resolveAttempt`, `Pool.Done`) and
`Backoff` or `Fail`. What reaches the client goes through a stack of writers, each
an operator from answer to answer that calls the next one out: `TimeoutHead` calls
`LimitHead` calls `CaptureHead` calls `ServerHead`, and likewise for bodies; `out`
holds the flags each writer keeps. The completion writer's effect is `ReleaseAll`
in the actions that write, the panic of a broken-off response is `broken`, and
`Close` is everything outside the route's chain: the end of the body limit, the access line, the recovery
of the panic and the server's end of the response.

Beside the handler run the deadline's goroutine (`timer`; `Expire` decides under the
writer's mutex and `ExpireWrites` writes before it lets go, so the handler's writes
wait for `Unlocked`), the transport's reading of a streamed body (`Upload`), the
client (`ClientLeaves`) and the clock (`Deadline`). `net/http` and
`httputil.ReverseProxy` are external, modelled as far as the gateway leans on them:
the first final header counts, a 1xx one does not; a handler that returns without an
answer means 200; a client's departure cancels the context only once the request's
body has been read; a copy that fails panics; a 101 that cannot be written is an error like one of the
transport's (`Upgrade`). Credentials, origins and sizes are
facts about the request. Outside are the header fields themselves (stages that only
set some have no step, except where the deadline's goroutine may meet them), URL
rewriting, and what happens in the mirror's own goroutine.

### Configuration and Dispatch (`config/`, `proxy/router.go`, `runtime/build.go`, `runtime/assemble.go`)

`Configuration` has no state: a document is a record shaped like `config.Config`,
each scalar a record that says whether it was set, whether it could be read and to
what value. `ApplyDefaults` is `applyDefaults`, `Problems` the checks of
`normalizeAndValidate`, and a document without problems is accepted. Texts are
tokens: for each check of the source there is a set of the texts it accepts and one
it refuses; a path is the sequence of its segments.

`Dispatch` takes one document through `Load`, `Build` (which may fail for what is
outside the file: `world`), and one request through `Receive`, `Match` route by route
(`Consider`), `Decide` and `Forward`. `best` and `candidate` are the two variables of
`Match`'s loop; `HostScore`, `PathScore`, `Better4` and `BetterTuple` are its scores
and comparisons, `Clean` and `PathHasDotSegments` what is done to the path,
`UpstreamPath` what is forwarded. `chains` and `engines` are the maps the build
fills under names; `SanitizeBucket` is what the shared store makes of a name.
Regular expressions are not evaluated: one matches the value it is, or every value.

### Pickers (`pool/picker_roundrobin.go`, `picker_leastconn.go`, `picker_ringhash.go`, `poolimpl.go`)

One pool and its picker. A caller holds the picker's mutex from `Pick` to `Reserve` or
`Fail`, but each look at a target takes only that target's own mutex: so a call is a
walk (`off` counts the looks), and between two looks health turns (`Turn`) and other
callers report (`Done`). A look of least connections reads availability and count under
one lock where the code takes it twice (`picker_leastconn.go:41-44`); a count that falls in
between makes the target no less preferable, and one that leaves in between is refused by
`Reserve` like one that leaves later. `Reserve` may find that the target has begun to refuse;
`Refuse` then starts the pass again without it (round robin, least connections) or
goes on along the ring. Of the health in `TargetHealth` three values are left: up,
probing (one attempt at a time), out. The ring is
the set of those of `Placement`'s places whose replica the target's weight grants;
`Place(n)` is the place at index `n`, `Search` the binary search for a key, `LookAt` whom
a walk meets at which look. Sums over the targets are a recursive function (`Total`). A member of `Mirrors` picks and never reports
to the target, as `maybeMirror` does.

### SharedStore (`store/bbolt.go` under `limiter/engine.go` and `limiter/concurrency/algo.go`)

Gateway processes around one file: `Start`, `Open` (which waits for the file's lock
as long as `Patience`), `OpenFails`, `Close`, and `Gone` at any moment (a crash or the
end of the process). A call reads its instant (`Allow`, `Release`), waits for the
writer's turn (`Begin`) and commits (`CommitAllow`, `CommitRelease`); nothing of a
transaction remains when its process dies first, and a call whose store is closed
fails (`StoreFails`), which denies an admission and loses a release. `SweepExpired`
may come at any moment. Every other strategy uses `Update` in the same way;
concurrency is the one whose record must agree with something outside it.

`SlotContract`: never more than the capacity of a key's slots are out, a slot nobody
will hand back stays taken, and slots are forgotten only when the key was not touched
for nearly its lifetime.

## 4. The runs that must pass

| Run | What is explored | What it shows |
| --- | --- | --- |
| `target_safety` | 3 attempts, lag 1, 5 instants, thresholds 2, both kinds of prober, aborts | `Consistent`, `InflightExact`: no order of picks, results and checks makes the record contradict itself. `NoMissedTrip`: a full window has been acted on. `NeverWedged`: an idle target that is due can be picked. `ProbeAlone`, `HeldOut`: no admission beside a probe or before a deadline, by the true clock, whatever the lag. `KeepsContract`: refinement |
| `target_recovery` | 2 attempts, fairness, failures until instant 2 | `Recovers`: a target that behaves returns to full service and stays there |
| `reload_orderly` | 2 requests with upgrades, 5 configurations, 1 edit, 1 admin reload, a shutdown without reload beside it | `NoStranding`: no request is left on a closed generation. `NoOrphanWork`: rejected candidates leave nothing running. `StoreServes`: the store is open while needed. `ExitAfterGrace`: the exit waits. `NoneJoinsDrain`. `KeepsServingContract`: refinement |
| `reload_liveness` | 1 request, 2 configurations (one fails to build), 2 edits, 1 admin reload, fairness | `Settles`: the newest contents are tried in the end. `WindsDown`: replaced generations close and a stop completes, although requests may never end |
| `limiter_quota` | 3 keys in a shard for 2, six strategies, lag 1, limit 2, window 3 | `Bounded`: memory. `WorkingSetKept`: eviction takes the right entries, and no more than it must. `SlotsExact`: a counter is what is held. `HonestDecision`: `Remaining` and `RetryAfter` are true. `ExpiryHarmless`: an entry expires only when it answers like none |
| `limiter_carry_over` | 1 key, 2 engines, copy at any moment, failing or published build, one straggler | `AdmitsItsQuota`: each engine together with what it inherited keeps its strategy's bound (`WindowExact`, `LogExact`, `BucketExact`, `SlotsExact`) |
| `exchange` | 4 routes (0 to 2 limiters, 1 or 2 attempts, with and without the optional stages) times 12 requests (bodies of every kind, one upgrade, one preflight, one without credential), any upstream, 1xx responses, a leaving client, a deadline; fairness | `UnitsReturned`: every admitted unit goes back once on every way out. `OneAuthor`: deadline and handler never share an answer. `ReportedOnce`: each picked target hears back. `SentRightly`: what an upstream may see, and what it may see twice (after a failure, before any answer). `Accounted`: the access line agrees with what the client got, and no request ends without an answer. `Ends` |
| `dispatch` | documents that differ from a plain one in one place, a few tables of several routes, 860 pairs of document and surroundings, requests for each kind of match | `WinnerIsBest`: the single pass finds the route the documented order puts first. `RefusedRightly`: 404, 405, RT003 for their reasons. `NamesResolve`: chain and engines are those of the route. `RoutedIsForwarded`: the path matched is the path sent. `AcceptedBuilds`: nothing accepted fails in the build, and every number a pool or a limiter gets from the file is one `TargetHealth`, `Limiter` and `Strategies` are made for. `AsWritten`: no scalar is replaced by a default |
| `pickers` | a caller and a mirror, 3 targets, weights 1/1/1 and 3/1/0, ring with 2 replicas, 2 turns of health, 5 picks; fairness | `Proportional`: nowhere a whole pick ahead of the share, and exactly the share after every full cycle. `NoneLeft`: a failed call was turned away by every target in rotation. `BestAdmitted`: what is given is what the strategy prefers, although counts move. `PickEnds` |
| `store` | 2 gateways, 3 requests, 1 key, capacity 2, lifetime 4, lag 1, hold 1, 6 instants, crashes, closed stores, restarts, sweeps | `CountExact`: the record counts the slots that are out. `KeepsContract`: refinement |

### Bounds

Every bound is a constant named `Max...`. Two or three attempts suffice for a
target because the record only counts them, and the interesting disagreements
are between one attempt of an earlier phase and one of the present; thresholds of
two are the least that have a state between "none" and "full", and five instants
hold a failure, an ejection or cooldown of one, and a second one. For reloads one
edit and one admin reload already give three generations alive at once (retired,
serving, candidate); the liveness run has a second edit, so that an edit can fall
into a reload. For an
exchange two limiters are the least with an earlier and a later one, two attempts
the least with a repetition; nothing else in it counts. For limiters a limit of two, a window of three and five or six
instants hold two windows with a late decision between them; two engines are one
reload, and what a third inherits it inherits in the same way. Three targets are the least where
a call can be turned away twice and still have a choice, five picks cover the cycle of
3/1/0 and one more, and two turns let a target leave and come back within a call. For
`Dispatch` names have at most three characters (64 in the source) and a window at most
12 cells (1000), so that both limits are crossed; that documents differ from a plain
one in one place is enough because `normalizeAndValidate` visits each place once. Two
processes are what a file lock is about; lag, hold and lifetime of the store are the
least that `TTL > MaxHold + 2 * MaxLag` allows, and a lifetime of one hour over requests
within their route's deadline satisfies it with room. `Limiter` bounds
the units an engine admits to four, enough to exceed a limit of two by a decision
with a late instant; the runs of the limiter and of the targets switch the
deadlock check off because their clock ends (no method there waits for anything);
those of the supervisor, the dispatch, the pickers and the store because the process
exits, the request is answered, the picks are used up or the clock ends.

### Fairness

`TargetHealth`: the clock runs; clients keep coming, for recovery is promised only
under traffic or checks; an admitted attempt ends (dial, header and route timeouts
bound it); a running checker reports on every tick of its ticker; a cancelled probe
returns. No fairness on which target state results, nor on aborts, which the
recovery run leaves out. `Generations`: goroutines that can run do, timers fire,
`sync.Mutex` starves nobody (its starvation mode), hence strong fairness for the
watcher's turn at `reloadMu`; nothing makes a request end, a client come or an
operator act. `Exchange`: the gateway's goroutines run, an armed deadline passes, and
what waits on a context that is done returns; upstreams need not answer, tunnels need
not end. A body that `planBody` waits for comes or is cut off, because the server has
read timeouts. `Pickers`: a call that holds the picker's mutex runs on; nothing makes
a caller report or a target recover.

## 5. Where the code differs from what is said of it

Runs that must find a violation; the text each contradicts is quoted in
`PROJECT.json`.

- `target_abort_wedge`: a broken-off response keeps its in-flight slot and its
  budget for ever.
- `dispatch_buckets`: limiter `c` of route `a_b` and limiter `b_c` of route `a` share one
  bucket of the shared store, because `sanitizeBucket` (`store/bbolt.go:202`) writes `/`
  as `_`, which names may contain (`config/validate.go:22-24`).

Stated in the modules, violated, and left without a run of their own. Each is seen by
putting the property in place of those of the configuration named (as a PROPERTY where
marked), with the constants given changed.

| Property | Configuration | What happens |
| --- | --- | --- |
| `TrialsWithinBudget` | `TargetHealth_abort_wedge`: `MidStreamAborts = FALSE`, `HalfOpenProbes = 1` | a late completion returns half-open budget that a trial holds; more than `half_open_probes` trials run (README.md:233) |
| `NoneJoinsDrain` (PROPERTY) | `Generations_orderly`: `LateReloads = TRUE` | a reload under way at shutdown publishes a generation that nobody drains (`supervisor.go:129`, against 217-219) |
| `RefusedOnlyForChange` (PROPERTY) | `Generations_orderly`: `MaxEdits = 2`, `MaxAsked = 0` | a rejected candidate pins `store.path`, so later ones are refused for changing a path never in use (`errs/errors.go:12`) |
| `SlotsReturn` | `Limiter_carry_over`: `StrategiesInUse = {"concurrency"}` | units held across a reload are copied and never handed back to the copy; under steady use, which renews the lease, they stay taken (`build.go:204`; README.md:542, 323) |
| `WindowExact` | `Limiter_carry_over`: `RestoreTTL = 1` | a restored entry lives one hour (`engine.go:355`) even if its window is longer: a daily quota starts afresh after an idle hour (README.md:341) |
| `CounterApproximates` | `Limiter_carry_over`: `StrategiesInUse = {"sliding_window_counter"}`, `MaxEngines = 1`, `Window = 8`, `MaxTime = 8`, `Cells = 4`, `MaxUnits = 6` | the counter looks at two cells of the window's many; with four it admits more than twice the limit in a window (README.md:320 speaks of limit/cells) |
| `TruncationVisible` | `Exchange` | a chunked response that broke off reaches the client as a complete one: the recovery treats `http.ErrAbortHandler` like any panic (`assemble.go:247`, against `forward.go:170-173`) |
| `HeadersSerialised` | `Exchange` | the deadline's goroutine and the handler set fields of one header map, each without the other's lock (`totaltimeout.go:38`, against 15) |
| `ClientNotBlamed` | `Exchange` | a client that leaves during an upload, or sends too much of it, is held against the target: the server cancels the context only after the body was read (`forward.go:177`); so is one that leaves before the 101 of an upgrade is written to it |
| `EnvelopeIntact` | `Exchange` | after a body limit's envelope the bytes of the answer it replaced still pass `limitWriter.Write`, so a 413 can carry two envelopes (`errors.go:27`) |
| `AllowSent` | `Dispatch` | a 405 carries no `Allow`: `allowFromMessage` (`assemble.go:368`) looks for a list that `Match` (`router.go:240`) does not put into its message (README.md:537) |
| `BodyLimitAsWritten` | `Dispatch` | an unreadable `body_limit` is accepted, and the default put in its place (`types.go:27`) |
| `ValidatedCompiles` | `Dispatch` | hosts and patterns that validation lets pass fail in the router (`router.go:97-98`) |
| `PatternExact` | `Dispatch` | a pattern without segments compiles to no pattern at all and matches every path (`router.go:328`) |
| `NonePassedOver` (PROPERTY) | `Pickers` | ring hash without a key: the start moves on before each try, so after a refusal the walk leaves one target out and may fail although that one was never looked at (`picker_ringhash.go:62`, against `pool.go:152`) |
| `InflightHeld` | `Pickers` | a mirrored request never reports `Done`: the mirror pool's counts only grow (`forward.go:635`) |
| `LeaksReaped` (PROPERTY) | `SharedStore` | a denied request renews the record, so slots leaked by a crash are never reaped under steady demand (`concurrency/algo.go:20-23`) |
| `SiblingAbsorbed` (PROPERTY) | `SharedStore` | the file's lock is held from `Open` to `Close`, not for a transaction: a second process cannot open the store while the first runs (`bbolt.go:48-54`; README.md:342, 184) |

Seen while modelling:

- Backwards instants: the buckets store the earlier instant and refill for the
  same time again, where the comments say "freeze rather than refund"
  (`tokenbucket/algo.go:87`). `BucketExact` states the exact price.
- `sliding_window_log`: `resetIn` is the oldest event's expiry, its comment
  (`slidinglog/algo.go:103`) says when every event has aged out.
- A 1xx response counts as the answer in every writer: the final status is lost (the
  server sends 200), the access line shows the 1xx, and concurrency units go back.
  `Accounted` excuses it; with `Informational = FALSE` it need not.
- `captureWriter`, `limitWriter` and `timeoutWriter` have neither `Flush` nor `Unwrap`,
  so the immediate flush `forward.go:109` speaks of does not reach the server.
- `build.go:129` configures neither retries nor the hash key: every forwarder makes one
  attempt, where README.md:486 says three. With more, a deadline during the backoff
  returns without an answer and the client may see an empty 200; hence
  the last part of `Accounted` speaks of one attempt.
- The 101 of an upgrade is written after the connection was taken over. If the client is
  gone by then, `ReverseProxy` calls `onError`: the attempt counts as the target's failure,
  and with more than one attempt the request would be sent again although no answer can
  reach anybody, against `forward.go:189-191`, which has every such failure come before the
  client was answered. `Upgrade` has both; with one attempt only the first occurs.
- Concurrency units go back at the first byte of the answer, README.md:323 says when
  the request completes.
- README.md:306-307 gives the precedence of routes in words that the scores do not
  quite follow: a literal segment counts two and a parameter one, so that lengths and
  kinds of segments weigh against each other.
- A negative `passive.failures` passes validation, and disables passive health as 0 does
  (`targetstate.go:255`); `ConstantsAssumption` takes any integer for it. `ParseSize` multiplies in floats, so
  a size beyond the range of an integer is not noticed (`types.go:102`).
- Round robin: a refused reservation has already given every target its weight, and
  the next pass gives it again (`picker_roundrobin.go:8-11`). `Proportional` is therefore
  stated for times without probing targets.
- Round robin is never a whole pick ahead of a target's share, but it may be behind by a
  pick and more: with weights 1, 1, 1, 1, 4, 4 a light target falls about 1.3 picks
  behind before it is served. Over full cycles it is exact, as its comment says.
- Least connections with equal counts, and ring hash without a key, spread unevenly
  while a target is out: the one behind it takes its share.
- The breaker closes on the first successful trial, whatever `half_open_probes`.
- The file's modification time is first read when the watcher's goroutine runs:
  an edit before that is not seen (`Settles` excuses it).
- Upgraded connections of generations replaced before the last are cut off at
  exit; nothing calls `StartSweeper`.

## 6. Theorems

TLAPS proves these for every value of the constants that satisfies the assumptions
named in the modules: `ConstantsAssumption`, `StrategyAssumption`, `LimiterAssumption`,
`ExchangeAssumption`, `ConfigurationAssumption`, `DispatchAssumption`,
`PickersAssumption`, `StoreAssumption`. They are what the loading of a configuration
guarantees, or the shape of what is enumerated: in `DispatchAssumption` of documents,
tables and requests, in `PickersAssumption` that every replica a weight grants has a
place on the ring. The lifetime in `StoreAssumption` is neither, see below.

`TargetHealthProofs`. `Invariance`: `IInv == TypeOK /\ Consistent /\
InflightExact` is inductive. Consistency alone is not: that the half-open budget
never exceeds what is in flight (`halfLive <= inflight`) needs the exact count of
attempts, because a completion lowers both. Within a step the record is briefly
one unit out of balance, between the release of the slot and that of the budget;
the lemmas carry `Near(s, k)`, soundness up to `k`, through the method's parts
and show it mended at the end. From `IInv`: `RecordConsistent`, `CountExact`,
`NoWedge` (the count of an idle target is zero, so both gates are open),
`ProbingIsExclusive`, `NoEarlyAdmission`; with `~MidStreamAborts`,
`BudgetAlwaysBacked`; and `DownThroughChecker`.

`NoTripIsMissed` (`NoMissedTrip`) needs what a method leaves of the failure windows: they
grow by one instant or shrink (`KeepsWindows`), and whoever records the failure that fills
one acts on it before the mutex is let go. `Refinement`: `Spec => Contract!Spec`, by cases
over `Next`, with the state mapped field by field and the load to the number of
outstanding attempts.

`GenerationsProofs`. `Invariance` of nine conjuncts. `NoStranding` needs to know
where requests can be: a request under the read lock looks at the generation in
force, because a swap waits for readers (`Placed`); counts equal holders
(`RefsExact`), so a count of zero means no holder (`ClosedEmpty`); a generation
in a terminal phase is not current (`Deployed`, `Current`). From it
`GenerationTypes`, `NobodyStranded`, `WorkAccountedFor`, reloads under the shutdown
included.

`ServingRefinement`, each theorem under the assumption `Orderly` (no reload overlaps
the shutdown; with one, `NoneJoinsDrain` fails, see above). `OInv` adds to the invariant
what the end of the process rests on: no reload once the gateway stops (`Stopped`), what
the servers' `Shutdown` waited for (`Waited`), the store everybody was built for
(`StoreKept`), and `Graces`: timers fire in the order in which they were started, so when
the servers' own grace runs out, that of every generation replaced before has run out.
From it `NoneCutOff` (`ExitAfterGrace`: whoever is still worked for at the exit had the
whole grace), `StoreOutlastsUse` (`StoreServes`), `DrainIsClosed` (`NoneJoinsDrain`: who
looks up a generation after the last swap finds none), and `SwitchesAtomically`
(`KeepsServingContract`): `Lookup` is the contract's admission, the two swaps its switch
and its stop, and every other step leaves each request's configuration alone because a
published generation keeps its own (`PhaseMoves`).

`ExchangeProofs`. `Invariance` of five conjuncts. The writers have lemmas of their
own, each from the one below it: a writer adds bytes of its caller and forgets
nothing (`Passes`), and through the timeout's writer the handler writes only while the
timer has not (`Sound`). `OneAuthor` alone is not inductive: it needs that a timer that
has written left nothing unwritten for the stages further out (`Authors`, last conjuncts),
or closing the response would add to it. `UnitsReturned` needs to know at which places
units may still be owed (`UnitsExact`), `ReportedOnce` where a panic can have come from
(`Located`). Routes and requests are any subsets of their types
(`ExchangeAssumption`). From it `TypeCorrect`, `UnitsAreReturned`,
`AnswersHaveOneAuthor`, `AttemptsAreReported`.

Two more invariants are inductive with it. `SentInv`, for `SentOnlyRightly`
(`SentRightly`): who is at the forwarder has passed every stage before it (`Screened`),
a second attempt comes only after a failure that may be repeated, of a body that can be
(`Repeatable`), and nothing has been written while attempts are still made
(`Unanswered`). `AccountedInv`, for `AlwaysAccounted` (`Accounted`): what the capture
records grows with what it passes on (`Follows`), and every way to the end of the handler
has answered, panicked or left it to the deadline (`Accountable`).

`LimiterProofs`, for any number of keys, engines and instants. `Safe` is inductive by
itself: types, each strategy's state within its settings, a shard within its budget, an
entry's state never later than the clock, and counters that equal what is held and
inherited; from it `AlwaysSafe`, `AlwaysBounded`, `SlotsAlwaysExact`. What a strategy
admits cannot be read off one state, so `Tells` relates the stored state to the ledger:
`Told` says what the state knows of every interval that may still matter (`WindowHas`,
`LogHas`, `BucketHas`; where nothing is stored, `WindowNone`, `LogNone`, `BucketNone`),
and `Leased` that an entry lives until it says no more than a blank one. Each strategy
has a lemma that its step keeps this for any instant, early or late; eviction and
copying replace it by what holds of no entry. It needs `Timely`, the inequalities that
leave room for a late instant and for the fixed lease of a restored entry; without them
`WindowExact` fails (section 5). From it `AlwaysTells` and `AlwaysAdmitsItsQuota`
(`AdmitsItsQuota`). `ExpiryAlwaysHarmless` (`ExpiryHarmless`) compares a step from a
lapsed state with one from a blank state, strategy by strategy.

`AlwaysHonest` (`HonestDecision`) needs no more than `Safe`. Each strategy has a lemma
that ends in `Honest`: it says when a state admits (`Admits`), what the state left by the
decision holds at the same instant (`WorthUnits`: what is left of a bucket is worth so many
units and not one more) and at every later one (`CeilDivIs`: a wait rounded up is long
enough and no longer; `InsideHead`: a log loses its head when the head leaves the window,
and nothing before; `SameStart`: a window ends where the next starts). It holds
for any `MinRetry`: where the wait was raised to it, only the request repeated at once is
said to fail. `WorkingSetIsKept` (`WorkingSetKept`) says of a live entry that goes, other than because
its units are handed back, that at least a full budget of the entries left behind were used
as recently: a pass that takes too many breaks it as well as one that takes the wrong ones.
It rests on `Dated`, the touch by which eviction ranks an entry of the first engine is
the instant of its last use, on what an update and the eviction after it leave of such a
shard (`Spares`, `UpdateSpares`), and on a decision keeping the entry of the key it is about
(`LiveKept`). A copy made by a reload is dated by the reload and leased for an hour, so its entries do not say
when they were last used, and the property does not speak of them.

`DispatchProofs`, for tables of any length. The documented order is one of positions,
the first difference decides; the code compares the route in hand with the best so
far. That one pass finds the maximum rests on `Better4` and `BetterTuple` being strict
total orders on what `Match` remembers, and on what it remembers being the scores of
the route it names (`BestBefore`, `CandidateBefore`). From it `TypeCorrect`,
`TheBestRouteWins` and `RefusalsAreRight`.

The other three components of a generation are proved from the absence of problems. A
lemma that ends in `Sound` for each report of `normalizeAndValidate` says what its silence
means; `SInv` carries to every later stage that the configuration in force is accepted and
the generation built from it (`Settled`, `Handed`). `NamesAlwaysResolve` (`NamesResolve`)
rests on accepted names being apart, of routes and, within a route, of limiters
(`NamesApart`), so that no map entry is overwritten. `RoutedAlwaysForwarded`
(`RoutedIsForwarded`) on the router and the forwarder cutting the same path: what was
matched has the prefix, and the rest has no dot segments. `AcceptedAlwaysBuilds`
(`AcceptedBuilds`): with `BInv`, no build fails but for what is outside the file or a
predicate's syntax, and every number that reaches a pool or a limiter from the file is one
its modules assume. `SuitsTargets` goes through `ConstantsAssumption` (thresholds, windows,
times, probes, weights), `SuitsStrategy` through `StrategyAssumption` and `LimiterAssumption`
(limit, burst, capacity, window, cells, keys; a counter's window has room for its cells);
`AcceptedSuits` and `LimiterBuilds` are the lemmas, defaults included. What a file cannot say
is not among them: bounds of the runs, lags, the minimal wait and the lease of a copy.
Durations are never negative, because none is read (`types.go:49`). `AcceptedMeansAsWritten` (`AsWritten`):
defaults touch only scalars that are not set.

`PickersProofs`, for any weights, any ring, any number of targets and callers. Three
arguments. `Orderly` and `Passed`: a call is alone in `Pick`, its walk meets every target
in rotation (`LooksAtAll`; on the ring because the places from any start on are all of
them, `GoesAround`, and ranks tell them apart, `RankTells`), and whom it met without
settling it has found unavailable; hence `NoneIsLeft` (`NoneLeft`). `Compared`: a count
that a call has read only falls until the call reserves, since nobody else can, so the best
stays no worse than it was and the others were at least what they were seen to be; hence
`BestIsAdmitted` (`BestAdmitted`), on the ring because whoever is nearer the key
(`DistanceIs`) was met before. `Calm`: what target `i` is owed is `Picks * weight -
Cycle * tally`; between calls that is its credit, during a pass it has grown by the weight
of those already looked at, and at the end of a pass somebody's credit is positive, because
what is owed adds up to nothing (`OwedNothing`, `SomebodyIsAhead`). So a target that is
served was owed more than nothing and is never a whole cycle ahead, and when the picks are a
whole number of cycles, what each is owed is a multiple of the cycle above `-Cycle`, hence
not negative, hence nothing: `AlwaysProportional` (`Proportional`). Sums are recursive
functions; what is said of them is proved by a least counterexample (`Climb`).
`TypeCorrect` includes that no report takes a count below zero, which needs that every
reporting caller is counted (`Counted`).

`SharedStoreProofs`. `CountExact` is not inductive: a transaction judges the record by
an instant up to `MaxLag` old and would drop one that it takes for expired. `Leased` says
how far the stamp reaches beyond a holder's admission, `Ages` how long a request may
hold and wait, and together with `TTL > MaxHold + 2 * MaxLag` no record expires under a
holder (`HeldIsLive`). What no configuration
guarantees is this inequality, which the code's own comment asks for, and the two bounds
it speaks of: `Tick` lets no request hold longer than `MaxHold` and no transaction commit
more than `MaxLag` after its instant was read. From it
`TypeCorrect`, `SlotsCounted` and `Implements`, the refinement of `SlotContract`.

Only model-checked: liveness (`Recovers`, `Settles`, `WindsDown`, `Ends`, `PickEnds`),
which is beyond the prover. The prover has no induction over data, but over naturals a
least counterexample does (`LeastNat`, `Climb`).

## 7. Not modelled

- The admin page's event stream (`admin/events.go`) and the route statistics
  (`runtime/provider.go`, `sink.go`): they observe, and nothing they hold is read back
  into a decision. Their concurrency is a mutex around each operation, apart from the
  broker's loop, which attach and detach start and stop under the same mutex.
- Metrics, logging, TLS loading, the dashboard's views: input and output.
- The conformance suite of the limiters, the load generator and the end-to-end tests:
  tests themselves.
- Middleware that only sets fields, and the verification of credentials: sequential
  code within one request. The chain's decisions that depend on it are in `Exchange`.
- The command line; `run.go` is in `Generations`.
- The encoding of limiter states: a driver hands a strategy only what that strategy
  wrote. The states of strategies other than concurrency in the shared store: their
  `Update` is the same, and no caller holds anything they must agree with.
- Captured path parameters, which nothing reads, and the wording and positions in
  validation reports.
