# A TLA+ model of pogo-pvp-mcp

The repository is a Go server that answers questions about Pokémon GO PvP over the
Model Context Protocol. It keeps two documents of other projects at hand, pvpoke's
gamemaster and pvpoke's per-cup rankings, and computes its answers from them with
an external battle engine. These modules model the parts of it that are hard to
test: caches that several goroutines and several processes share, refreshes that
overlap, the start and the shutdown of the server, a limiter with a janitor, tool
calls whose snapshot is swapped or whose context ends while they run, and the
searches and tables whose boundaries two pieces of code must agree about. TLC checks
them on small instances and TLAPS proves the main results for every value of the
constants.

## Inventory

State, operations, interactions and hard behaviours of each part; "modelled in"
names the module.

| Part (under `src/internal`) | State it keeps | Operations | What is hard | What makes it correct | Modelled in |
|---|---|---|---|---|---|
| Rankings cache, `rankings/manager.go` | per process: positive and negative cache, map of per-key mutexes; shared by processes: a file per key | `GetRole` | callers race for a key; two caches read in separate critical sections; several processes share files; crashes between write and rename; TTL | one download per process and key; answers agree; whole files; every call returns | `RankingsManager`, `RankingsMemo` |
| Gamemaster snapshot, `gamemaster/manager.go`, start-up and loop in `cli/serve.go`, `cli/fetch.go`, `POST /refresh` of `debug/server.go` | per process: snapshot and ETag under one lock; shared: the cache file | `LoadLocal`, `Refresh`, `Current` | refreshes overlap; ETag read long before it is used; file and memory change at different moments; crashes | never served without a snapshot; the ETag names the snapshot; whole file; convergence | `GamemasterManager` |
| Server life cycle, `cli/serve.go` | one root context, a refresh loop, two listeners with a watcher each, done channels | `runServe`, priming with back-off, shutdown | a listener that fails before the context ends; grace windows one after another; a signal at any step | it starts whole or not at all; shutdown ends within its windows; nothing outlives it | `ServeLifecycle` |
| Configuration, `config/config.go` | none | `Load`, `Validate` | the same value is checked at load and, by other code, at use | what is accepted is usable | `Config` |
| Rate limiter, `httpmw/ratelimit.go` | bucket per client, janitor goroutine | `Middleware`, eviction, `Stop` | cap reached; eviction while a request holds the bucket; time stamps out of order | map bounded; one bucket for each client; idle entries go | `RateLimiter` |
| Client IP, `httpmw/realip.go` | none | `resolveClientIP` | headers a client wrote itself; several values; malformed hops | requests are charged to where they came from | `RealIP` |
| Middleware chain, `httpmw`, `mcpmw` | none | `Chain`, `Recover`, `MaxBytes`, `Timeout` | order of the wrappers, deadlines | the client is resolved before it is limited | partly: `RateLimiter`, `Config` |
| Team builder, `tools/team_builder*.go` | none between calls; within one: rating matrix, semaphore, counter | `handle` | goroutines write what the caller reads; cancellation at any moment leaves nil rows; ties; several reads of the snapshot; index spaces of the filtered and the original pool | the matrix is whole or the call is cancelled; champions that nothing beats; the answer's parts agree | `TeamBuilder` (pipeline), `TeamBuilderSweep` (search), `Lists`, `MemberCost` |
| Rank tools, `tools/rank.go`, `rank_batch.go` | none | `handle` | snapshot, rankings and context are looked at many times in one call; entries of a batch one by one | alternatives allowed and best; lists that were fetched apart agree | `RankTool`, `Levels` |
| Matchup, team analysis, threat coverage, counter finder | none | `handle` | three gates for restricted moves, by the form that fights; partial sweeps; truncation | no forbidden move fights; no partial answer passes for a full one | `BattleTools`, `Combatants` |
| Cost tools, `tools/powerup_cost.go`, `second_move_cost.go` | none | `handle` | half levels, tables with offsets, eras, stacked discounts | the cost is the sum of its steps | `PowerupCost` |
| Level and CP searches | none | `handle` | floors and plateaus of CP, caps met exactly; graphs with diamonds and cycles | all searches find the same level | `Levels`, `Evolution` |
| Meta and role buckets, `tools/meta.go` | none | `handle` | some roles' rankings missing | a role is earned | `MetaRoles` |
| Gamemaster differ, `gamemaster/differ.go`, `cli/diff_gm.go` | none | `Diff` | which fields are compared, and in which order | in sync only if no fight could tell | `GamemasterDiff` |
| LRU cache, `cache/lru.go` | list, map, byte count | `Get`, `Put` | - | - | left out: nothing imports it |
| Lookup tools | none | `handle` | nothing concurrent: constant tables and formatting | - | left out |
| Command line, logging | none | - | - | - | left out |
| Battle engine, MCP SDK | third-party modules | - | - | - | external |

How they interact. `runServe` loads the configuration, primes the gamemaster (from the
file, else from the network), starts the refresh loop and the optional listeners,
then serves MCP calls. Each call runs in a goroutine of its own: a tool reads the
gamemaster snapshot with `Current` (a pointer copied under a read lock), asks the
rankings manager for entries, and calls the engine. The refresh loop and
`POST /refresh` swap the snapshot under running calls. With the stdio transport every
client has a server process of its own, and all of them share one cache directory.
Requests to the public endpoint pass `RealIP` and then the limiter.

## Modules

| Module | Models | Runs | Theorems |
|---|---|---|---|
| `RankingsManager` | the rankings cache, one action per critical section or file operation | `rankings`, `rankings_two_keys`, `rankings_null` | `RankingsManagerProofs` |
| `RankingsMemo` | what the rankings cache promises: a write-once cell per process and key | refined by `rankings` | `Refinement` |
| `GamemasterManager` | `LoadLocal`, `Refresh` and the threads that call them | `gamemaster` | `GamemasterManagerProofs` |
| `Config` | what `Validate` accepts, and what the readers of a configuration refuse | extended by `ServeLifecycle` | |
| `ServeLifecycle` | one serve process, from its configuration to its exit | `serve` | `ServeLifecycleProofs` |
| `RealIP` | the client of a request, and how proxies write the header | extended by `RateLimiter` | in `RateLimiterProofs` |
| `RateLimiter` | buckets, cap, janitor, `Stop` | `rate_limiter` | `RateLimiterProofs` |
| `TeamBuilderSweep` | the rating matrix, the enumeration and the Pareto search | `team_builder_sweep` | `TeamBuilderSweepProofs` |
| `TeamBuilder` | one call around that search: evolution, defaults, bans, budget, the answer's indices | `team_builder`, `team_builder_snapshots` | `TeamBuilderProofs` |
| `Lists` | the filter loops (`filterPool`, `filterMovesByCategory`) and the stable sorts, as functions whose meaning is in their definition | extended by `TeamBuilder`, `TeamBuilderSweep`, `Combatants` | |
| `Combatants` | forms, moveset defaults and restricted moves of a fighter | extended by `ToolCall`, `Levels` | |
| `ToolCall` | what a running call works against: the snapshot, its context, the rankings | extended by the next three | |
| `RankTool` | `pvp_rank` and `pvp_rank_batch` | `rank_tools` | `RankToolProofs` |
| `BattleTools` | `pvp_matchup`, `pvp_team_analysis`, `pvp_threat_coverage`, `pvp_counter_finder` | `battle_tools` | `BattleToolsProofs` |
| `Calculations` | the tools that compute from one look at the snapshot, and `diff-gm`, over `PowerupCost`, `MemberCost`, `Levels`, `Evolution`, `MetaRoles`, `GamemasterDiff` | `calculations` | |
| `MC*` | constants of the instances | | |

In every module a definition whose comment begins "Faulty variant" is a plausible bug
in the operation of the same stem. No specification uses it; putting it in place of
the operation breaks the property that is meant to catch it, or one of its named
parts, which shows that the property says something about the code.

Where several invariants have one subject they are parts of one: `MatrixSound` is
`NoNilRow`, `NoStrayWriter` and `FullMatrix`; the parts carry the comments that say which
code they are about. Type invariants are stated for the modules with a state of
their own between operations (`TypeOK` of the rankings cache and the limiter, checked; of
the gamemaster, proved; `Types` of the team builder's search, proved).
`ServeLifecycle` and the modules of single calls have none: their variables are typed in
the comments of their declarations.

### RankingsManager

Variables are `Manager.cache`, `notFound` and `fetchMu` per process, `owner` for the
holder of each mutex (a mutex is named by the caller that allocated it), the file of
each key with its mtime, and each caller's program counter and locals. `GetRole` is
cut where another goroutine or process can step in between: `Call` (validation and
context check), `FastLookup` and `FastIsNotFound` (the two `RLock` sections of
`cachedOrNotFound`), `LockFor`, `Lock`, `ReLookup`, `ReIsNotFound`, `Stat` and `Read`
(`loadLocal`), `Fetch` and `Response` (`fetchUpstream`), `CreateTemp`, `Write`, `Rename`
(`persist`), `StoreInMemory`, `StoreNotFound`, `Unlock`. `Crash` loses one process's memory
at any step. The payload of a response is a model value: it decodes, decodes to a nil
slice (`NullBody`) or does not decode (`Torn`). Every failure the code treats alike
(timeout, status, transport, context) is one choice of `Response`.

### GamemasterManager

`LoadLocal` is the start-up read of `primeGamemaster`; `Refresh` reads the ETag; `Answer`,
`NotModified` and `FetchFails` are the upstream's side; `Parse`, `CreateTemp`, `Write`,
`Rename` and `Swap` are `applyPayload` and `writeCache`. `Finish` ends the start-up retries. A
refresher in `Own` is its process's own thread of control; the others are
`POST /refresh` handlers, which exist only while serving. A version stands for a
document and for its ETag. `TagsAlways` says that every 200 carries an ETag: the run sets it,
the theorems cover both cases; `EtagNamesSnapshot` is stated under it and is false without. Retrying start-up without limit stands for the bounded
retries of `primeGamemaster` followed by a restart of the process; `ServeLifecycle` has the
bound.

### ServeLifecycle and Config

`main` is the next step of `runServe`. `Configure` is `buildRuntime` with `Load` and the logger,
`BuildManagers` the constructors; `LoadLocal`, `PrimeSucceeds`, `PrimeFails` and the back-off
are `primeGamemaster`; then the refresh loop and the listeners start, `StdioEnds` is the
return of the transport, and `WaitRefresh`, `WaitDebug` and `WaitMCP` are
`waitForBackgroundShutdown`. Each listener has the goroutine of `ListenAndServe` and a watcher
that shuts it down, drains it within its grace and closes its done channel; the
public one also stops the limiter, whose janitor answers. A configuration is a record
of its fields, and a string is told apart only by whether its reader can use it, so
`Validate` of `Config` and the predicates of the readers can disagree, which is what
`AcceptedStarts` is about. A request is a number of ticks left; `CallBudget` cuts it to
the deadline of its tier.

### RateLimiter and RealIP

`Receive` resolves the client and reads the time, `LimiterFor` takes or makes the bucket
under the mutex, `Allow` spends outside it. `JanitorTick` reads the time, `EvictIdle`
reaps under the mutex. `owed` is a history variable: what one bucket kept for ever would
have left. A request is made by `Forwarded`: a client writes what it likes and
each proxy on the route appends whom it heard from (`Trip`). The walk of `resolveClientIP`
from the right is stated by places: the client is the last entry that is not passed over.

### TeamBuilderSweep

One call. The caller's goroutine runs `Spawn`, `Acquire`, `SpawnEnds`, `Wait`, `Walk`, `WalkEnds`
and `Return`; each row's goroutine runs `Fill` (one opponent, three scenarios after one
look at the context), `AddFails`, `Release`, `Done`. `Cancel` ends the context at any
moment. A nil row is `None`; indexing one would be the outcome `panic`. A mean is a pair
of a sum and a count, compared exactly where the code compares float64 quotients of
the same small integers; how float64 rounds the mean of three means is left out. Teams
carry row numbers of the filtered pool. `Entrants` is what the two inner loops make of
a row's triples, `InLoopOrder` the order in which they append it, and `Champion` what is
left of a champion after the row: since only a strictly better triple replaces it, that is
the first of the row's best (`Leaders`), if it is better at all.

### TeamBuilder

One call again, seen from outside the search. The variables are the current snapshot,
the call, its next step, the documents it has read, its copy of the pool, the pool
without the banned members, the scored teams, and the two parts of the answer. `Resolve`
is `resolveTeamBuilderInputs` with `autoEvolvePool`; `Default` is `defaultPoolMovesets` with the
second check of the restrictions; `Build` is `buildTeamBuilderInputs`; `Validate` is
`preHandleValidation`; `Search` stands for a run of `TeamBuilderSweep`; `Finish` is `finaliseTeams`.
`Refresh` swaps the snapshot between any two steps. The snapshot is never nil: a serving
process has one (`ServingHasSnapshot` of `GamemasterManager`).

What is abstracted. A document gives each species its evolutions, its CP at level 1, its
legacy and elite moves and one stardust figure, the sum of what a member's cost is made of
(`MemberCost` makes it up); all members have the same IVs; shadow forms are left out. A
refusal that depends on nothing the properties look at (a malformed parameter, a pool
that is too large, an unknown move, the rankings out of reach, a done context) is
`Refuse`. `max` is the value after the default of 5. `all_pareto` is some choice of scored
teams. `aggregate` is 0 when the call has no budget, because the code computes costs only
then (`tools/team_builder_budget.go:36`), although the field is documented as the sum of
its members' costs. `Rankings` are the lists in the order of the scores: teams of one score
stay as the search found them, by their rows or, with `all_pareto`, as `assembleFrontier` put
them, so here they may come in any order and the properties hold for each. A pool may be of
any length; `Build` refuses one of more than `MaxPoolSize`. `Terminal` follows a line for up to
`autoEvolveMaxDepth` hops, whatever the line.

### ToolCall, RankTool, BattleTools

`ToolCall` is the environment of one call: `Refresh` swaps the document, `Cancel` ends the
context, and `Get` is the rankings manager as `RankingsMemo` describes it, so the
properties proved of the cache are what these modules build on. `Around` joins
`Refresh` and `Cancel` between any two steps of the call; what lies between two looks
at the snapshot, the context or the rankings is one step.

`RankTool` has the steps of `handle` for one IV set (`Enter`, which resolves the species and
the cap and fails an entry whose search finds nothing, the recommended moveset,
the alternatives without legacy and without elite moves with the scan over all
builds, the list of cups one by one, the last `Check`), and the loop of the batch
around them, which hoists the cups of one entry. A build is three places:
of a fast move and of two charged moves, the same twice if there is one, in the order the
code's nested loops come to them. What the search of `buildRankResult` depends on is left of
its arithmetic (`Rankable`): a species has a CP at level 1 for each set of IVs, which is under
the cap or not, and it may have no stat product to compare with. `BattleTools` prepares fighters by tool
(`Plan` gives the order of gate, defaults, building and meta), sweeps row by row, looks at
the threats one by one and finishes. `Combatants` has the two pieces of code that find a form, `Lookup` (which one
fights) and `MovesetId` (which one a moveset is looked up for), and `Without`, the filter
that all lists of moves and entries go through.

### Calculations

A scenario is a call and the document it finds. Operators compute what the handler
does: `PowerupCost` and `MemberCost` the two ways to price a climb, `Levels` the walks of
the grid and the IV sweeps, `Evolution` the walks of the evolution graph, `MetaRoles` the
gap rule, `GamemasterDiff` the comparison. The ceiling search and `pvp_meta` run in
steps, since the context may end or a fetch may fail between them. Levels are doubled,
powerup levels in quarters so that a value off the grid can be asked for. `CP` and
`Product` are parameters. `Evolution` and `Calculations` use recursive operators for
the walks and are therefore not proved about.

## Runs

| Run | Question | Bounds, and why they are enough |
|---|---|---|
| `rankings` | safety and refinement | two callers of one process and one of another: every race for a mutex, for a cache and for a file needs two; one key; two payloads so that a second download can differ; one clock tick so that a file can go stale |
| `rankings_two_keys` | calls return | two callers that may ask for either key |
| `rankings_null` (violation) | `null` is never a hit | one payload, null |
| `gamemaster` | safety; a server ends up with what the upstream settled on | two refreshers of a server and a `fetch-gm`, all may die; two documents, two upstream changes, so that a stale answer can differ from the current one and the old document can come back |
| `serve` | starts whole or not at all, shuts down in time | every combination of listeners, limiter and deadline, and the full configuration with one defect in one field; three attempts; graces of 1, 2 and 4 ticks in the code's order, requests of 3 and 5, so that a request can fit its window and miss it |
| `rate_limiter` | the map, the buckets, the client | three clients over a map of two, so that the cap evicts; two requests at a time, the third bucket holder being an evicted one; rate 0 and 2 with a burst of 2; the clock to 4: an entry can go idle (2), be reaped and come back; a request one tick late |
| `team_builder_sweep` | cancellation, goroutines, and what is returned | four rows (four triples, so champions can differ and tie), two slots: one row waits for a slot while another is freed; two opponents, so that a row can be half filled; engines that tie, that differ by scenario, that lose every battle (a mean of zero), and that fail in part or altogether; a scenario, `all_pareto` and an unknown `optimize_for`; with and without required species |
| `team_builder` | the parts of the answer agree with each other and with the call | two documents swapped at any moment; pools of three and four, so that one ban leaves three and a ban on two leaves too few, and one of five, beyond the limit; lines that branch and that pass the cap, and one that never ends, over a depth of two; a move that is listed twice; every combination of a ban, a required species, a restriction, a budget and a `max` |
| `team_builder_snapshots` (violation) | one call may see two documents | as `team_builder` |
| `rank_tools` | alternatives, cups and batches while everything around changes | a species with a shadow form; two documents that disagree on legacy moves, on a move and on cups; four builds of a species with ties; three rankings, one that recommends nothing; batches of up to three with a bad IV set in the middle; caps that one of two IV sets is under, that none is, and that does not resolve; a species without a stat product |
| `battle_tools` | restrictions, forms, partial sweeps | three species, one with a shadow form; teams of two; two scenarios; fights that cannot be simulated; a counter search whose context ends after any number of candidates; one candidate for each threat, so that a list is cut; sent and default movesets, flags and suffixes in every combination |
| `calculations` | two computations of one thing agree | the real grid of levels and the real tables; IVs of 0 to 2, ten points each, instead of 0 to 15, so that spreads differ by as much; an engine with a floor and plateaus; graphs over four species with diamonds, cycles, repeats and unknown ids, walked to depth 2 and 3 instead of 5, so that the depth is reached; 12-place rankings around a gap of five; documents that differ in any one field of a species or a move, or in nothing but names and order |

Bounds that cut behaviours: `MaxClock` and `MaxPublishes`, in the guards of `Tick` and
`Publish`. `MaxDelay` of the limiter says how late a request spends after it read
the time; the properties that depend on it say so. Symmetry is used in runs without
liveness only. Deadlock is not checked where a call ends or the clock stops.

## Disagreements with the comments

With a run:

- `rankings_null`: after a body of `null` every call reloads the entries although the
  positive cache holds the key, because a hit is told by a slice that is not nil
  (`rankings/manager.go:219`).
- `team_builder_snapshots`: one call reads the current snapshot three times, so a refresh
  in between makes it resolve against one document and price against another, against
  "sees the same gamemaster pointer as everything else in the request".

Met while modelling, and visible in the actions that the lines are mapped to:

- The TTL of rankings bounds the age of a file when it is read; entries in memory are
  served for as long as the process lives (`rankings/manager.go:360`).
- Waiters behind a failed download repeat it one after another, against "coalesce into
  a single fetch" (`rankings/manager.go:185-188`, `290`).
- Two overlapping refreshes may leave the older document on disk and the newer one in
  memory, or the reverse (`gamemaster/manager.go:156`).
- After a start from the file the first refresh comes one full interval later, against
  "while an async refresh runs" (`cli/serve.go:310`, `gamemaster/manager.go:120-122`).
- An entry of `pvp_rank_batch` can fail for more than its own IVs (`tools/rank_batch.go:116-123`:
  "only per-IV errors"): after a refresh, once the context has ended, and under the batch's own
  `cp_cap`. A positive one passes `resolveCPCap` whatever it is (`tools/rank.go:989-1004`); one
  below every spread then fails every entry with a copy of one error, which is what the check
  up front is said to prevent. So does a species without a stat product. `BatchFailures` says
  for each entry which it can be.
- The cups that a batch hoists are called "identical across IVs"
  (`tools/rank_batch.go:39-42`, `68-70`, `150-153`). They are those of the first entry that has
  any, and a fetch that fails there and succeeds in a later entry leaves a cup out that the
  later one had. What holds, and what `HoistSound` says, is that each hoisted line is in the
  lists of the later entries.
- The comment of `walkEvolutionChain` (`tools/team_builder_evolve.go:204-208`) says that a
  branch, or a terminal form over the cap, gives nil and a reason to skip. The code
  (`222-262`, `292-306`) gives them only if the first hop already fails, and else evolves the
  member to the last form that fits, as the comment of `processEvolveStep` (`271-279`) says.
  `EvolvesAsFarAsFits` states the latter.
- A counter search that is cancelled in its sweep answers with what it has and says "ok"
  (`tools/counter_finder.go:380`), where `pvp_threat_coverage` and `pvp_team_analysis` refuse; its
  comment promises no more than to stop. `CountersComplete` says what such an answer is good
  for: the best of the candidates it came to.
- A role whose rankings cannot be fetched counts as last, so the gap rule can name one
  of the others, against "fetch error leaves empty role" (`tools/meta.go:153-155`).
- The client is not the first `X-Forwarded-For` entry (`config/config.go:93-96`) but the
  last that is not a proxy.
- `pvp_evolution_target` with XL candy may answer a level up to 51, which
  `pvp_powerup_cost` refuses (its table ends at 50).
- `ErrThresholdUnreachable` can never be returned (`ThresholdReached`): the sweep tests the
  very spreads the threshold is a share of.
- `Validate` does not bound the tools' deadlines by the shutdown grace, nor ask for one;
  a call without can be cut at the exit, so `NoRequestCut` assumes one.

## Fairness

- Rankings: a goroutine that can run does (`WF` on each caller's steps); the HTTP
  client's 30 s timeout makes `Response` such a step. `sync.Mutex` hands the lock to a
  starving waiter, hence `SF` on `Lock`.
- Gamemaster: the loop's ticks keep coming and, once an attempt is made, no stage fails
  for ever (`SF` on the successful outcome of each stage). `POST /refresh` and `fetch-gm`
  are owed nothing. `Converges` is about servers that are not restarted for ever.
- Serve: goroutines that can run do, time goes on (`SF` on `Tick`, because the janitor may
  run in between), a bootstrap attempt ends by its HTTP timeout, the SDK returns once the
  context is done, a request that is due answers, a select with two ready cases takes
  each in the long run. Neither the refresh loop nor the client at stdio owes anything:
  the wait for the loop has a window.
- Team builder: every goroutine that can run does. The context owes nothing.

## Proofs

Each theorem holds for every value of the constants that satisfies the assumptions of
its module; an assumption that is not about types or bounds is named below.

`RankingsManagerProofs`. The inductive invariant is `TypeOK`, `LocalInv` (which locals
are set at which statement) and `MutexInv` (a caller past `lockFor` uses the mutex its process has
in `fetchMu` for the key, and holds it exactly between `lock` and `unlock`). `TypeOK` alone is not
inductive: `Rename` moves a caller's temporary file to the path. From it follow
`TypeCorrect` and `SingleFlightHolds`. `FilesInv` adds that a temporary file ready for the
rename is whole, for `FilesWholeHolds`. `AnswerInv` says what a caller past its second look
knows of the caches; it gives `NoRedundantLoadHolds`, `CoherentHolds` and `Refinement`. These
three assume `NoNull`, that no body is the document null; `rankings_null` shows why.

`GamemasterManagerProofs`. The invariant joins the types, what each refresher holds at
each statement (a body past `parse` is a version), and the three properties
`ServingHasSnapshot`, `FileWhole`, `EtagNamesSnapshot`, which are inductive only together: a 304
keeps the snapshot, so it must be known that an ETag is sent only by a process that has one.

`ServeLifecycleProofs`. `Started` says what is behind each step of `runServe` (an accepted
configuration, a gamemaster, every listener that is wanted) and gives `StartsWholeOrNotHolds`,
with the lemma `ValidIsEnough` that what `Validate` accepts no reader refuses. `Paired` binds
a listener to its watcher, its request and the janitor: `DoneMeansQuietHolds`. `Windows` bounds
what is left of each wait and `Served` what is left of a request by its deadline:
`GracesKeptHolds`, for any graces and deadlines. That time cannot pass while somebody
could run is the guard of `Tick`; `Ready` spells out, for every action, when it can run.

`RateLimiterProofs`. `Bounded`, that the map is finite and within the cap, is inductive by
itself: only `LimiterFor` inserts, and at the cap it drops an entry first. Nothing need be
known of the clock or the buckets, so the bound holds whatever the time stamps are. The
other properties share an invariant: the types; `Named`, each request and bucket is
one client's; `Sweeps`, what the janitor's last look left behind; and `Held`, a client that was
never displaced has in its bucket what it is owed, all its requests hold that bucket, and it
has been filling since the last of them. `KeyedByOriginHolds` is an induction over the hops of
a route, for any header and any chain of proxies; `OneBucketEachHolds` and `ReapedHolds`
have the premises of their properties (`FillsWhileIdle`, delays within the idle time).

`TeamBuilderSweepProofs`. `Made` says which rows exist at which point of the spawn loop and
that only a cancelled context leaves any out; `Slots` and `Ended` bind the semaphore and the
goroutines to the caller's progress. With `Written` (what a live row holds after `opp` opponents)
they give `FullMatrixHolds`, and the three parts `MatrixSoundHolds`. `Counted` says of which
battles each counter is the number, whatever the order of the goroutines:
`FailuresCountedHolds`. `SearchCompleteHolds` rests on `Searched`: at every row of a walk
that is not cancelled, what was found is what the triples passed so far (`Passed`) give
of the engine's own matrix, the teams each once (`Joined`), and each champion the one
that leads (`Leading`). `SearchComplete` is not inductive, since it speaks of the end of the walk only.
Teams are ordered by `Beats`: by their means, multiplied crosswise
(`Chain`, which is why a team without a valid sample may not compete), and among equals by
their place in the loops. The order is total (`BeatsOrders`), so one of finitely many leads
(`OneLeads`), and a champion need only meet the first of the best of the next row, all of
which come later (`ChampionLeads`). `FrontierIs` then shows that dropping a second team of
the same triple loses no champion.

`TeamBuilderProofs`. `PoolKept`: whatever becomes of a member, it stays at its index and
can be traced to the species the client sent. The filter keeps the order of what it
keeps (`WithoutInOrder`), so positions of the filtered pool map to increasing positions of the
client's, and `Answering` ties the two parts of the answer to one window: `IndicesAgreeHolds`,
`BanHonouredHolds`. `Unforbidden`: moves are checked on the document of the read that fills
them in, and promoted members have none until then: `RestrictionsHoldHolds`.
`EvolvesAsFarAsFitsHolds` is an induction over the hops of `walkEvolutionChain`: on any line, in
a cycle too, the walk ends where no hop is left or the limit of hops is reached.
`BestAffordableHolds` is about every list that `Rankings` allows: `RanksAll` says that it has every
team, so what is cut off ranks behind what is returned. Neither depends on how long
the pool is.

`RankToolProofs`. What the manager remembers stays, so all that a result tells of rankings
is what is remembered now (`Recalled`); what is not told yet is still to be asked
(`OpenListed`), and what is hoisted comes again in every entry (`Hoisted`): `CupsAgreeHolds`.
`ScanSound`: the best so far leads all builds enumerated so far; a category that is concluded
is `Settled`: `AlternativesSoundHolds`. `Counted` says that an undisturbed batch keeps finding its
species and its cap, and that the IVs of an entry that has got past `Enter` fit:
`BatchFailuresHolds`.

`BattleToolsProofs`. `Planned` says which stages are left and in which order, hence which have
been passed. `Resolved`: a fighter is as it was sent, or was filled in from what the
manager remembers, for the form that `MovesetId` finds, past the check of its flags; past the
gate nothing that was sent conflicts. `Fought`: a fighter of the engine is built of such a
one, by `Lookup`. Together they give `FormsMatchHolds`, and with `Ranked` (the meta is the
filtered top of what is remembered) `RestrictionsKeptHolds`. `SweptSoFar`: row i is the row of
fighter i, the list of threats is that of the entries looked at, and a team tool answers
only after a whole sweep: `CoverageCompleteHolds`, the first part of `CoverageSound`. `Compared` says what
such an answer tells of the ratings: one of the ratings is no less than their mean
(`MeanIs`), so that the averaged view contradicts no scenario; the ranking has every
rated candidate once, and none that is cut off is better than one that is kept; and a
counter search that was not cancelled has a row for every candidate. With it
`CoverageSoundHolds` and `CountersCompleteHolds`.

How the loops of the code can be proved about. A walk or a filter is a recursive
function (`Trip` of `RealIP`, `Without` of `Lists`, `bestPerFast` of `RankTool`); `Recursion`
shows that such a function exists and `Induction`, which is about a subset of the naturals
and so needs no operator parameter, what its values are. `RealIP`'s walk from the right is
the last place that is not passed over. A sort is `OrderedBy` of `Lists`: the element with n
others before it is at place n + 1, which `OrderedBySorts` shows, by the pigeonhole principle, to
list every element of a finite set once and in order, for any strict total order. A sum over a
set is the library's `MapThenSumSet`; `SumsExist` builds the sums over all subsets of a finite set
step by step, so that its `CHOOSE` is known to be one, and `SumIs` bounds it. Each module of
proofs states those of these lemmas that it needs.

Assumptions that are not plain types: `WireAssumption` (finitely many goroutines; a client
writes a finite header of entries), `RankAssumption` and `BattleAssumption` (a ranking is a
list; the document's cups have rankings; "left out" is neither a move nor a rating),
`RankingAssumption` (a ranking has a species once; `tools/team_analysis.go:893-906` keys what it
tells by species), `RatingAssumption` (the engine's ratings are naturals, for whoever can be
put into a fight), `NilAssumption` (no row or team is nil), and
those of `TeamBuilder`: `DocsAssumption` (what a species evolves into is a list), `CallsAssumption`
(a pool is a list, of any length) and `LimitsAssumption` (`MaxPoolSize` and `autoEvolveMaxDepth`,
50 and 5 in the code, are naturals, the latter positive). TLC evaluates all of them in the
runs.

Only model-checked:

- liveness, and the temporal properties that need fairness (`SearchEnds`,
  `EveryCallReturns`, `Converges`, `ShutsDown`): out of the prover's reach;
- `Calculations`: the walks of the graphs and grids are recursive operators, and what
  they compute is induction over data.

## Plan

Open: shadow forms in the team builder's pool, with the forms of `Combatants`.

## Left out

- Numbers the engine computes (stat products, IV ranks, battle ratings), parsing of the
  documents, formatting and logging: their results are inputs of the models.
- The constant tables of the lookup tools, and the table of evolution items: they keep no
  state.
- `cache/lru.go`: no package imports it.
- Where viper takes a value of the configuration from.
- `Recover`, `SecurityHeaders` and `MaxBytes`: they wrap a handler and keep nothing.
- Shadow forms, evolution alternatives and requirements in the team builder.
