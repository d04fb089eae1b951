# coins-monitor: a verification project in TLA+

coins-monitor samples, for each configured pair, the top of a CEX order book
and two quotes of a DEX, records the spread with its provenance in SQLite, and
reports how long profitable spreads last. It never trades: what it must get
right is that the numbers it records and counts are what was really observed,
and that it goes on recording them. This directory holds TLA+ models of the
parts that carry that responsibility, the TLC runs that check them, and TLAPS
proofs of every safety property the runs check.

`tlc -workers 2 -config X.cfg M` checks a run, `tlapm M_proofs.tla` the proofs.
`PROJECT.json` lists the components, runs, mutants, findings, hazards and
theorems, and maps every definition to the lines it models.

## 1. The system

    config ──► cmd/monitor run ──► one Limiter per chain ──► evm.Client / Jupiter
                    │                                             ▲
                    ├──► one Feed per venue ──► book cache        │ quotes, TVL
                    │                               │             │
                    └──► engine.Run ──► PairRunner (one goroutine per pair)
                    │                        │ Write
                    └──► retentionLoop ──► store (SQLite) ◄── cmd/import-jsonl
                                             │
                                 cmd/report, cmd/verify, cmd/spotcheck

| component | state | operations | talks to |
|---|---|---|---|
| `ratelimit.Limiter` | `next`, `interval`, a mutex | `Wait` | shared by all callers of an endpoint; `evm.Client.Call`, Jupiter |
| `evm.Client` | request id | `Call`, ABI helpers | the limiter, the RPC endpoint |
| `cex.BinanceFeed` | `connSeq`, book cache, backoff | `Start`, `run`, `streamOnce`, a watcher goroutine per connection, `Book`, `ValidateSymbol` | writes the cache the runners read |
| `cex.KucoinFeed` | book cache | a polling goroutine | the same |
| `engine.PairRunner` | `tvlUSD`, `tvlAt`, `midHistory`, `lastBestNet`, `lastSample` | `run`, `sampleOnce`, `freshBook`, `refreshTVL`, `recordMid`, `momentum10s` | reads the cache, calls the quoter, writes to the recorder |
| `engine.Engine` | the runners and their stagger | `New`, `Run`, `summaryLoop` | starts and awaits the runners |
| `store.Store` | the table, one connection, a mutex | `Write`, `Retain`, `ForEach`, `SamplesBetween`, `Count` | the runners, the retention goroutine, the tools |
| `cmd/monitor` | limiters, clients, candidates, runners, feeds | `run`, `retentionLoop`, `selfTest`, `buildQuoter` | all of the above |
| `cmd/import-jsonl` | none | `run`, `importFile` | the store, from another process |
| `dex.*` quoters | orientation of the pool, decimals, route | `QuoteBuyBase`, `QuoteSellBase`, `PoolTVLUSD` | `evm.Client` |
| `stats` | aggregates, windows | `record`, `findWindows`, reports | the store, offline |
| `config` | – | `Load`, `applyDefaults`, `validate`, effective values | everyone |
| `cmd/verify`, `cmd/spotcheck`, `klines` | – | one-shot comparisons | the store, public candles |

What is hard here: several goroutines share a limiter, a cache and a database;
a sample is assembled from four observations made at different times; every
remote call can fail, be slow or be cancelled; archives are moved between two
stores without a transaction; a second process may write to the same table;
and everything must stop when the process context ends.

What makes each component correct:

* limiter: requests are spaced and never early, slots are used once, nobody waits for ever;
* feeds: a book is stamped when it is received and then only ages; provenance is unique,
  silence is noticed, books keep coming, all goroutines end;
* runner: a sample that counts satisfies the gates at the moments its parts were
  observed; ranking and summary report what was sampled; the loop goes on and stops;
* store: a recorded row is held somewhere, young rows stay in the table, and only old ones leave it;
* pairs over one limiter: slots wasted by abandoned calls starve nobody;
* configuration: what is accepted can run;
* quoters: both legs are quotes of the configured market, hop by hop, each way;
* start-up: whatever drops out, what remains is wired to the right feed, limiter and stagger;
* report: excluded rows leave no trace, legacy rows are told from new ones, windows are exactly
  the maximal positive runs, never across unobserved time, and ranks are ranks.

`PROJECT.json` lists, under "hazards", the places in the code where these are at risk.

## 2. The models

### Pacer, RateLimiter (`internal/ratelimit`, `evm.Client.Call`)
`Pacer` is the promise: each grant is the earliest point of time that is not
past and is `Interval` after every earlier grant. `RateLimiter` is the code:
`Reserve` is `Wait` up to the end of its critical section and the early return,
`TimerFires` and `GiveUp` the two cases of the select, `Send`, `SendRefused` and
`CallReturns` the rest of `Call`. The clock may advance between any two steps,
by any amount, so a timer fires at its time or later. `reserved` is a history
variable. `PacingSpec` is the refinement: the single field `next` stands for the
whole history of reservations.

### Edges, PairRunner (`internal/engine`)
`Edges` is the arithmetic of `sample.go` on whole basis points. `PairRunner` is
one goroutine. An action is a stretch of `sampleOnce` between two points at
which it can be overtaken: by the feed replacing a book, the clock, or the
cancellation. `pc` names the point, in the order of the code:

| `pc` | code | actions |
|---|---|---|
| stagger, wait | `run` | `StaggerOver`, `StoppedWhileStaggered`, `TickTaken`, `StopTaken` |
| pass | first book, history, momentum | `BeginPass`, `NothingToSample` |
| tvl, tvlcall | `refreshTVL`, local copy | `TVLStillFresh`, `AskTVL`, `TVLAnswers`, `TVLFails` |
| size | loop head, second book read | `TakeBook`, `BookLost`, `FinishPass` |
| buy, sell, stamp | the quotes and `dexTs` | `BuyAnswers`, `BuyFails`, `SellAnswers`, `SellFails`, `StampDex` |
| check | `ctx.Err()`, failed or empty quotes | `AbandonPass`, `SkipSize`, `QuotesGood` |
| record, write | gates, sample, `Write`, ranking | `MakeSample`, `WriteSample` |

The feed and the quoter are their interfaces: a book appears at any time,
stamped with that time; a quote answers or fails before its context ends and
fails after it. A leaving `sampleOnce` resets its locals, as does each turn of
the loop. `nets`, `late` and `seen`, all the mids ever recorded, are history variables:
what the code prunes is compared with what it would have without pruning.

### HeldRows, SampleStore (`internal/store`, `retentionLoop`, `cmd/import-jsonl`)
`HeldRows` is the promise: a recorded row stays recorded. `SampleStore` takes
one action per SQL statement or file operation, since SQLite makes a statement
atomic and nothing makes two of them so. A row is its time stamp (one pair, one
size: the identity key). The monitor may die between any two steps. `world`
says what else a behaviour is about: an import running beside the monitor, or a
machine that loses power. The latter brings back one of the tables committed
since the last checkpoint (`synchronous=NORMAL`, WAL) and drops any archive whose
data the kernel had not written back, since the code never syncs one. The stamp
of a row is assumed to reach the table within `WriteLag < Retention`
(milliseconds against days in the code).

### Sampling (runners over one limiter)
The composition of `PairRunner` and `RateLimiter` for the pairs of a chain. A
pass is reduced to its calls: perhaps a TVL refresh (one balance, then the other),
then for every size a buy and a sell leg under one context of 20 s, the sell
leg asked whatever became of the buy leg (engine.go:231-234). The limiter is reduced to
how far its next slot lies ahead. A call that finds its context over before its
slot gives up, and the slot stays taken (ratelimit.go:39). Ticks,
stale books and failed requests come at any time; cancellation is left to
`PairRunner`. Time is relative, so there is no horizon. Its unit is long against the
scheduler's: what is due happens before time goes on.

### BookSource, BinanceFeed, KucoinFeed, Feeds (`internal/cex`)
`BookSource` is what the runners need of either feed, and what `PairRunner`
assumes: a book appears with the stamp of that moment and then only grows older
until another replaces it, and none appears once the feed has ended. `BinanceFeed` has
the run goroutine (`dial`, `read`, `backoff`, `ended`), the watchers and the
cache, and tells three things apart: whether the exchange can be reached (`link`), whether
it still sends on this connection (`alive`), and whether the watcher closed it. A connection
may die without a word at any time, and that the exchange is reachable again does not
revive it. `KucoinFeed` has a goroutine per symbol (`fetch`, `select`, `ended`), its request's
timeout and its ticker, whose channel holds one tick. Both keep time as countdowns
and ages so that behaviours need no end; the connection number `MaxConns` is the
last, and no stream breaks, dies or is closed on it: nothing else is bounded. An exchange whose stream is up sends before the
read deadline: this is the code's own assumption (binance.go:182-183).
`Feeds` puts them under the one process context. They share nothing else, so a
behaviour follows one of them.

### Settings, Quoters (`internal/config`, `internal/dex`)
Pure operators. `Settings` is a file as decoded: `ApplyDefaults`, `Validate`, and the
effective values the program reads. `Quoters` is, for each of the five venues, the
constructor with its checks (a constructor is the set of quoters it returns, empty when it
refuses), the sequence of swaps the chain simulates for a buy or sell leg with the
decimals of its amounts, and the pool and tokens TVL is computed from. The pools on the
chains are a constant, with genuine and false ones, both orientations and
several fee tiers.

### Startup (`cmd/monitor/main.go`, `engine.New`)
It extends both: from a file, through `Load`, the three loops over pairs,
candidates and runners, one element per action, in which any remote call can
fail, to the engine. A limiter is its identity and rate, so that sharing can be seen.

### Windows, Report (`internal/stats`, `cmd/report`)
`Windows` is pure: the loop of `findWindows` turn by turn, the figures made of its
windows, `percentile`, and beside it the definition of what the loop should find,
the maximal positive runs without a data gap inside. Sorting is modelled by its result:
each place has the value with fewer members below it than its rank. `Report` lets a table grow
row by row and reports on it at any moment: `Record` and `LoadStore` fold the rows
into aggregates, from which the columns, both window series, the momentum buckets
and the hours are taken. A row has an `origin` the code cannot see, against
which its way of telling legacy rows is judged. Rows are what the engine can write
(`RowsAssumption`): fields of the correction are 0 in rows older than it, a trade costs
something, a stored bucket is the one of the pair's threshold. The rows of the run
are narrower: their two directions mirror each other around the cost. Loops
over rows are recursive functions, because what folds and `SelectSeq` return cannot be reasoned
about in a proof.

## 3. The runs

| run | instance | shows |
|---|---|---|
| limiter | 3 callers, interval 2, contexts already over, 2 units, beyond the horizon; horizon 6 | `SlotsSpaced`, `NeverEarly`, `SlotsUsedOnce`, `PacingSpec`, `WaitReturns` |
| runner | one size, one price of everything, thin and deep pool answers, quotes of up to 2 units, horizon 3 | `LegsWithinSkew`, `CanonicalEdgeBacked`, `ThinPoolExcluded`, `ReferencesKept`, `TickHonoured`, `StopObeyed` |
| runner_sizes | two sizes, plausible and implausible books, present and absent basis, quotes that are empty, cheap or dear, horizon 2 | `BookRecentAtQuote`, `StopCutsRecording`, `SummaryFollowsPass` |
| sampling | 2 pairs, 2 sizes, a slot every 2 units, contexts of 8 | `FirstCallsServed`, `RequestsGoOn` |
| store | retention 2, daily tick 1, write lag 1; horizon 5, or 3 with an import of an old row or power losses | `HeldSpec`, `ArchivesOnlyOld`, `YoungRowsLive` |
| feeds | 2 symbols, book age 2; 4 connections, deadline 2, backoff 1 → 2 → 4; polls every 2, requests of up to 3 | `ConnIDsAreNew`, `SilenceNoticed`, `BookSpec`, `BooksKeepComing`, `AllStop` |
| startup | 46 files: six pairs on 2 venues and 3 chains with a shared basis, one disabled, one chain without URL, twice, with equal and mixed intervals; one pair for each of the good and bad DEX configurations of the five venues; files with a bad, a bad but disabled, a duplicate and no pair | `FeedsServeRunners`, `OneLimiterPerChain`, `BurstsApart`, `QuotesTheMarket`, `AcceptedConfigsRun` |
| report | all tables of up to 4 rows over the stamps 0, 1, 2, 5, of which 2 excluded, legacy, basis-corrected or of another size | `WindowsAreRuns`, `ExcludedLeaveNoTrace`, `LegacyTold`, `BucketsAgree`, `RanksRight` |

The runs with a clock, a protocol or a pipeline also check their `TypeOK`. Each
property is stated, with the code it is about, above its definition.

*Why the bounds are enough.* The durations of the runner are one or two units,
so that within three units every limit is met exactly, kept and overrun, a TVL
answer expires, a momentum reference is found and another pruned. With two
sizes a pass can end after none, one or both. Six units give the limiter three
slots and three callers to queue for them. The store's horizon lets a row be written, age,
be archived and deleted, with a crash at any step and a second retention run
after it. The feeds' backoff is doubled past its limit once, a request outlasts the
ticker, and books pass their age. Four rows are enough for an even and
an odd number of samples and of gaps, equal stamps, an interior run, an outage,
and an excluded row between two counted ones. `CHECK_DEADLOCK FALSE` stands where
the clock's horizon or a finished process ends the behaviour; `Feeds` and
`Sampling` never stop.

*What the sampling run says of the configuration.* The assumption of `Sampling`, that
two slots of every pair fit into a context, is exact on the instances tried: with one
unit less (2 pairs, interval 2, contexts of 7; or 3 pairs, interval 1, contexts
of 5) TLC finds both properties violated. Every caller then gives up, the slots they
leave behind keep the queue longer than a context, and nothing is ever
quoted again. With 3 pairs, interval 1, contexts of 6 both hold. In the code's terms
a context is 20 s: at the default 10 requests a second there is room for 100 pairs
on a chain, at 1 request a second (the free Jupiter endpoint) for 10.
README.md:109-113, "a misconfigured interval degrades into queueing (growing leg skew
...) rather than into RPC bans", holds within that bound; beyond it, queueing ends
in silence.

*Fairness.* The runs of the limiter, the runner, the sampling and the feeds use
`FairSpec`. Time passes, the Go runtime runs every goroutine, and delivers due
timers, ticks and done contexts (weak fairness). A `select` that finds both a tick and the
cancelled context ready picks at random, so a context that is done for ever is
picked eventually: strong fairness of `StopTaken`. Quotes need no fairness of
their own: each ends by the deadline of its context. `RequestsGoOn` takes the feeds'
promise (`BooksKeepComing`) for granted: a tick meets a fresh book now and then. A stream that is up sends the
book of every symbol (weak), and a KuCoin endpoint within reach does not refuse or time out
every request (strong, since a request can fail at any time). In `KucoinFeed` a cancelled
poller needs no strong fairness, because a request under a done context fails
and ends the goroutine. The network need not heal: `BooksKeepComing` speaks of
behaviours in which it stays reachable.

*Disagreements between the code and what it says of itself*, each a run in
which TLC finds the counterexample:

| run | says | does |
|---|---|---|
| store_import_lost | "archives every sample older than cutoff …, deletes the archived rows" (store.go:215-216) | deletes everything older than the cutoff: a legacy row imported between the SELECT and the DELETE is lost |
| runner_positive | "The canonical metric everywhere is the basis-corrected net edge" (README.md:154) | announces POSITIVE edges by the raw net |
| startup_basis | "flagged `exclude_reason: basis`, never silently passed off as corrected" (README.md:24-27) | a basis that fails its validation at start-up is forgotten: samples count, corrected = raw |
| windows_upper | "Duration is an UPPER BOUND" (windows.go:13-15) | adds one median gap where up to two gaps of any length are unobserved |

Others were noted while modelling, and have no run of their own:
`rate_limit_rps: 0` is no limit rather than the default (config.go:157 against
167-172, ratelimit.go:21-26); the momentum of later sizes is that of the pass's
first book (sample.go:68); `pool_tvl_usd` is -1 also before the first
successful answer of a venue that does report TVL (sample.go:87); books of a
broken connection are used up to `max_book_age` (README.md:20); importing legacy
files again after a retention run records their rows twice, in the table and
in an archive (import-jsonl/main.go:3); archives are closed and not synced before rows are
deleted, so that a power loss can take both, against "safely on disk" (store.go:270); pairs of one chain with different intervals are not kept
apart by the stagger (engine.go:108-110); a negative `poll_interval` is accepted and
panics later (config.go:197, engine.go:188); KuCoin is polled every `poll_interval / 3`
whatever `max_book_age` is (main.go:168); `-include-excluded` puts rows excluded for a missing basis
into the corrected series with their raw edges (stats.go:86); on `uniswap_v3` the configured
`pool_address`, from which TVL is read, is not compared with the pool quotes go through, and
configured decimals are never compared with the contract's (main.go:361-368).

## 4. What is proved

The `*_proofs` modules prove, for every value of the constants allowed by the
modules' assumptions, what the runs show on a small instance (liveness apart). Each has one inductive invariant, `IInv`, kept as a conjunction of
named parts; TLC has checked those of the store, the sampling and start-up on the instances of
their runs.

| module | theorems |
|---|---|
| `RateLimiter_proofs` | types, `SlotsSpaced`, `NeverEarly`, `SlotsUsedOnce`, the refinement `PacingSpec` |
| `PairRunner_proofs` | types, `LegsWithinSkew`, `BookRecentAtQuote`, `CanonicalEdgeBacked`, `ThinPoolExcluded`, `StopCutsRecording`, `SummaryFollowsPass`, `ReferencesKept` |
| `SampleStore_proofs` | types, `ArchivesOnlyOld`, `YoungRowsLive`, `DeletesTheArchived` without an import, the refinement `HeldSpec` |
| `Feeds_proofs` | types, `ConnIDsAreNew`, the refinement `BookSpec` of both feeds |
| `Sampling_proofs` | `FirstCallsServed`, a bound on the limiter's backlog |
| `Quoters_proofs` | what any constructor returns quotes the configured market |
| `Startup_proofs` | types, `FeedsServeRunners`, `OneLimiterPerChain`, `AcceptedConfigsRun`, `BurstsApart`, `QuotesTheMarket` |
| `Report_proofs` | `WindowsAreRuns`, `ExcludedLeaveNoTrace`, `LegacyTold`, `BucketsAgree`, `RanksRight` |

*Limiter.* The inductive invariant says that `next` is at least an interval
after every slot handed out, and that callers past Wait are past their slot. The
first alone gives spacing and uniqueness: a new slot is `next` or later. The
refinement needs more, that `next` is 0 or exactly an interval after some slot, so that what
the code hands out is the earliest permitted point and not just a permitted one.

*Runner.* Typing comes first (`RunnerTypes`), because every other step needs
it. The strengthenings tie the locals of a pass to the clock and to each other:
* a quote's answer lies between the start of its context and `dexTs`, and `dexTs` is no later than now;
  the leg was taken when the context began. Hence the skew, computed from one stamp
  taken after both quotes, bounds both (`SkewBoundsQuotes`);
* the basis is judged after `dexTs`, so its age at the quotes is at most its
  age at the check (`EdgesBacked`). Nothing bounds how much younger than the legs it is;
* while a pass is past its TVL step its local copy equals the runner's value, as
  nobody else writes it (`ThinPoolsStayOut`);
* after the cancellation only a goroutine already past the check can write, and
  it meets the check before writing again; its book, its quotes and `dexTs` were there
  at the check (`RecordingCut`). The basis book is read after it (engine.go:261), so
  nothing of the kind holds for the basis, and nothing is claimed;
* in a pass, `nets` are the nets written and the running best is their maximum, so the
  summary at its end is that, or untouched (`SummaryRight`);
* the pruned history holds every mid ever recorded that is young enough for any pass from
  now on (`Remembered`): stamps of cached books never decrease, so a mid too old for
  this pass is so for all later ones, given `LookbackMax <= MidKeep` (21 s against 40 s in
  the code). What the search then finds, or does not find, is the same in both
  (`FarMidsDoNotCount`), pass after pass (`HistoryLongEnough`).

*Store.* `YoungRowsLive` and `ArchivesOnlyOld` are not inductive as they stand:
* after a power loss the table is one of several, so a young row must be in all
  of them (`YoungRowsKept`), and rows are old when the cutoff is read, not when they are
  archived: every cutoff lies a retention behind a moment that has passed (`CutoffLies`, `Clocked`);
* `BatchAccounted`: in a world without import and power loss the batch that was read is
  what the DELETE will find, and when the DELETE comes its archive is whole. This carries both
  `StoreDeletesArchived` and the refinement (`StoreHolds`), step by step: each
  step of the detailed store adds a recorded row to `Held` or stutters;
* `FileOpen`, that the file being written is among the files, came out of a proof that failed.

`StoreDeletesArchived` complements the run store_import_lost: that the monitor is not
alone is the only cause of the loss found there.

*Feeds.* A step of either feed stores a book with the present stamp, lets books
age, or changes nothing `BookSource` sees. The one strengthening is that a stream
being read has a connection, so that id 0 stands for no book only. The proof
needs `Symbols # {}`: a feed is started for the symbols of some runner.

*Sampling.* The invariant counts. It gives each pair two points of time: `last`, the
slot of its latest call, and `before`, the slot of the call before that. Every slot
from now on that is taken is one of these (`AllOwned`): no pair holds three,
because only a second call gives up, and by then the slot of the first has passed
(`Stands`). A pair that begins a context has at most one slot ahead, and the slots are an
interval apart, so by the pigeonhole principle its next one comes within two
intervals per pair, which is what the module assumes a context to last. The code keeps no such
owners: they are existentially quantified in the invariant.
`SamplingBacklogBounded` says the same of the limiter at every moment.

*Quoters.* For each venue a lemma goes through its constructor and its two legs,
for routes of any length: the pools of the sell leg are those of the buy leg backwards, each
swap gives what the next takes, each fee stays with its hop, amounts carry the decimals of
their token, TVL is read from the tokens of the market. Two things are hypotheses,
because the program takes them on trust (`Truthful`): configured decimals
are the token's, and the fee tiers of a route are below 2^24, the width they are packed into
(uniswapv3.go:182). `QuotersAssumption` is about the chain: one contract per address, two
tokens in a pool, one listed v2 pair for two tokens.

*Start-up.* The loops over pairs, candidates and runners are inductions over
their index: `CandidatesMade`, `RunnersMade`, `SymbolsServe`, `FeedsWired` and `Staggered`
say what the elements up to `i` have, `LimitersDiffer` that two chains never got one limiter,
`LimitersMade` that each was made at its chain's rate for the first pair that asked,
`Configured` what loading left in the configuration. Two hypotheses are part of
the theorems. `RoomForTurns`: the stagger of a runner is its interval times its turn divided by
the number of runners, rounded down, so an interval shorter than that
number of units would give two runners one turn. The unit is the nanosecond, which makes this
harmless, but without it the claim is false and the proof fails.
`StartedTruthful` is `Truthful` for every runner. `FilesAssumption` says that what the decoder
returns has the types of the Go structures, negative numbers included.

*Reports.* The state is trivial: once printed, the aggregates are `LoadStore` of the rows
(`IInv`). What is hard is what the loops compute for a table of any length. The induction
rules of the library cannot be used here, so induction is by the least number
principle, over sets of numbers or of sequences (`NatSteps`, `SeqSteps`), and each recursive
function is first shown to exist and to take its steps (`TurnsSteps` and its like).
* `LoadAggregates`: a key holds one entry per counted row of its size, in the order of
  the table, and the number of the others. The three theorems about rows follow.
  Telling legacy rows rests on costs above 0: then the gross and the net edge of a
  direction differ, so that the fields of a corrected row are never all 0. With costs of 0, which the
  configuration allows, a row with corrected edges of exactly 0 both ways would pass for a legacy one.
* `LoopInv`: before sample n + 1 the windows flushed are those of the maximal runs that ended
  before n, listed in order (`Listed`), and the open window, if sample n is positive, is
  the run that ends at n and begins where nothing can join it. A turn closes it
  exactly when no run can go on (`RunEnds`), on which `ReportWindowsAreRuns` rests;
  nothing is assumed of the stamps, not even their order.
* `SortedIs`: every rank is taken by some member, and consecutive places rise (`SortedRises`),
  so what lies between two ranks cuts the column where it should (`SummaryIsRight`). The
  edge-weighted mean is a weighted sum between the extremes (`WeightedSum`).

*Only model-checked.* `WaitReturns`, `TickHonoured`, `StopObeyed`, `RequestsGoOn`,
`SilenceNoticed`, `BooksKeepComing` and `AllStop`: the prover does not handle
fairness. The four violations are counterexamples and stay with their runs.

## 5. Abstractions

* Prices, spreads and thresholds are integers; nothing depends on rounding.
* A clock step is a unit; only comparisons with the code's limits matter.
* A row is its stamp; a second pair or size adds rows that never meet it.
* Logging and formatting are left out, except the decision to announce an edge.
* Mutexes do not appear: each critical section lies within one action.
* The files of the start-up run hold no fee tier of 2^24 or more on a route, and correct decimals where
  they hold any; for other files `QuotesTheMarket` is not claimed (`Truthful`).
* Gaps and durations are whole milliseconds, so three median gaps are exactly that. The code
  goes through float64 seconds and truncates (windows.go:81-82), and an outage of exactly three
  medians may end a window for a nanosecond less.
* The share of positive samples and the counts that the report prints beside its ranks are left out
  (stats.go:135-149), and so is which point between two neighbouring ranks is interpolated.
* The mutants of `WaitReturns`, of the store's `TypeOK` and of `TickHonoured` change Go's timers and
  tickers, which the models carry too, rather than the code that uses them.
* Amounts are left to the chain: a quote is the swaps it consists of.

Not modelled: the bytes of ABI and JSON calls (`evm` helpers), the schema migration
of old databases, the layout of reports, the YAML decoder and environment expansion,
and the verification tools (`cmd/verify`, `cmd/spotcheck`, `klines`), which read
the store once, keep nothing, and are read by nobody.

## 6. Plan

Order of work: what a sample means first, then where it is kept, then where it
comes from, then what is made of it.

1. Done: `Pacer`/`RateLimiter`, `Edges`/`PairRunner`, `HeldRows`/`SampleStore`,
   `BookSource`/`BinanceFeed`/`KucoinFeed`/`Feeds`, `Settings`/`Quoters`/`Startup`,
   `Sampling`, `Windows`/`Report`, all with proofs of the safety properties of their runs.
2. Next: theorems about what no run states, where a hazard has no property
   yet (the age of KuCoin's books, a momentum shared by the sizes of a pass), and the safety
   parts the liveness properties rest on (who can be waited for, and by whom).
3. Left for TLC: liveness under fairness.

New questions join the run of the module they are about, or take the place of a
weaker one.
