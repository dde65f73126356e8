# Verification of the tokenomics service

This directory holds TLA+ specifications of the tokenomics service
(`src/src/tokenomics`), the TLC runs that check them on small instances, and
theorems about them that the TLA+ proof system proves for every value of the
constants. `PROJECT.json` lists the runs, the theorems, the source lines behind
each definition, and the hazards the properties are aimed at.

Run a check with `tlc -config <run>.cfg MC<module>.tla` and a proof with
`tlapm <module>Proofs.tla`.

## The system

A FastAPI service on one asyncio event loop answers questions about language
models: what there is (the catalog), which to take (selection queries), and what
it would cost (estimates). It has no database. Its data come from two HTTP
sources, each behind an in-memory TTL cache, and from YAML files that are read
again for each request.

| Component | State | Operations | Talks to |
|---|---|---|---|
| TTL cache (`providers/cache.py`) | value, time of the last success, last error, an `asyncio.Lock` | `get(fetcher, force)` | the fetcher, awaited under the lock |
| OpenRouter adapter (`providers/openrouter.py`) | a cache of cards | `list_models`, `status` | HTTP |
| Artificial Analysis provider (`benchmarks/artificial_analysis.py`) | a cache of quality records | `records`, `status` | HTTP; disabled without a key |
| Local models, overrides (`providers/local.py`, `benchmarks/local.py`) | status only; files read per call | `list_models`, `load` | the file system |
| Tier derivation (`benchmarks/tiers.py`) | none | `derive_population` | - |
| Registry (`registry/registry.py`) | none | `catalog`, `get`, `suggestions`, `refresh`, `provider_status` | all of the above, in a fixed order |
| Queries (`registry/queries.py`) | none | filter, `cheapest`, `best`, `best_value` | cards it is given |
| Cost engine (`cost/`, `schemas/`) | none | `monthly_totals`, `estimate_workload`, `estimate_pipeline` | prices it is given |
| Service, HTTP API, client (`service.py`, `app.py`, `client.py`) | the registry | one method per route | registry, queries, engine |

What makes it hard:

* *Interleaving.* Requests run concurrently and each may wait at two sources,
  twice on the 404 path. Between two awaits a request is atomic, because the
  event loop is cooperative; at every await anything may happen.
* *Failure.* Fetches fail, tasks are cancelled, files stop parsing. The promise
  is to degrade: serve the stale value, go on without a provider.
* *Staleness.* Forced and unforced calls share one lock; a fetch takes time while
  the provider publishes; two catalogs of one request may differ.
* *Layering.* Four layers write a model's tiers, each with precedence rules, and
  the validator of tiers sees only the first.
* *Numbers.* Percentiles of small populations with ties, weights of all signs, a
  price floor, and three-point Ranges whose results are sorted.

## Modules

| Module | Models | Built on |
|---|---|---|
| `TTLCache` | the cache, step by step | - |
| `CacheRules` | what a cache answers and holds after it, as functions | - |
| `CacheContract` | the cache as its callers may see it: every call is answered in one step | `CacheRules` |
| `Registry` | concurrent requests over two sources and the override file | `CacheRules` |
| `Tiers` | percentiles and tiers of a changing population | - |
| `Catalog` | the layers of a merged card | `Tiers` |
| `Adapter` | the parsing of OpenRouter's payloads and of local model files | - |
| `Queries` | filter and rankings over a changing catalog | - |
| `Pager` | a listing read page by page while the sources change | `Adapter`, `Queries` |
| `RangeNum` | Range arithmetic | - |
| `CostEngine` | one workload component priced, one target at a time; has no specification of its own | `RangeNum` |
| `Estimates` | the three estimate routes: bodies, the jobs they become, answers | `CostEngine` |
| `MC*` | the instances TLC checks | the module of that name |
| `TTLCacheProofs`, `RegistryProofs`, `CatalogProofs`, `PagerProofs`, `QueriesProofs`, `EstimatesProofs` | the theorems; `CatalogProofs` has those about `Tiers` and `EstimatesProofs` those about `CostEngine` and `RangeNum` too | the module of that name |
| `FormulaProofs` | the theorems about what estimates come to | `EstimatesProofs` |
| `RanksAndSums` | lemmas on places in a finite linear order, on sums and on folds | - |

A definition named `D_Bug` is `D` with a plausible bug. The specifications do not
use them; with one of them in place of `D` some property must fail.

### TTLCache

The three fields of the cache are `value`, `fetchedAt` and `lastError`; `owner`
and `waiters` are the `asyncio.Lock`; `pc` says where a task is in `get`. Data are
versions: the provider publishes ever newer ones, and a fetch returns some
version it had between the request (`sent`) and the answer. `asked`, `seen`,
`floor` and `fills` are history that no guard reads.

`get` can be suspended at two places, the lock and the fetcher, so its body falls
into these steps: `Call` (take the free lock and go on, or queue), `Grant` (the
first waiter wakes with the lock and looks at the cache again), `FetchOk`,
`FetchFail`, and `CancelFetch` and `CancelWait`: `CancelledError` is no
`Exception`, so it passes the handler and leaves by the `async with`. A hit takes
and releases the lock within one step.

One thing is stricter in the model than in CPython: a woken waiter takes the lock
before a task that calls at the same moment. `asyncio.Lock` guarantees that, as a
caller that finds a queue joins it.

`RefreshesAreRationed` counts the requests of unforced calls that succeeded or are in flight
(`Spent`), and no more: a request that fails or is cancelled leaves `fetchedAt` as it was, so
every waiter sends one more, and the daily quota of a provider that is down has no such bound.

### Registry

The event loop runs a task until it awaits something that is not ready. Here that
is a source whose lock is taken, or one without a fresh value, so one step (`Begin`,
`ModelsReply`, `QualityReply`) takes a request from the answer it got as far as the next
source that makes it wait, or to its response. `get` looks at the value under the lock
only: a request whose value is fresh still waits behind a refresh in flight (`Ready`), and
finds whatever is there when its turn comes. `queue` has for each source the request with
the lock, then those that wait for it in order; only the first is answered (`InTurn`). The
answers are `Replies` of `CacheRules`, a hit on the value that became fresh meanwhile among
them; `TTLCache` implements `CacheContract`, which is written with the same rules, so the
two levels fit. `asked`, the oldest version a fetch may return, is the one published when
the wait began, as in the contract. Requests are of three kinds: a catalog (also what every
query and estimate starts with), a `get` that may end in a 404 (also an estimate that does,
`service.py:181`), and a refresh. `overrides` is the revision of `overrides.yaml`, `None` when it does not
parse; `cardMarks` are the revisions whose effects live on in the cached card
objects, which the deep copy must keep empty. `LocalAdapter` awaits nothing and
cannot make a request wait, so it has no step.

### Tiers and Catalog

`reports` is what Artificial Analysis says of each model. `Report` changes one
value; tiers are functions of the reports, as in the code, where they are derived
on every merge. Percentiles are compared with cutoffs without dividing, which is
exact; the code's floats are as well, since a percentile that differs from a cutoff
differs by much more than a rounding error.

`Catalog` adds listings (`openrouter`, `local`), what a quality record has besides
indices (`measured`: benchmark scores and speed), aliases and overrides. `Served` is the
merged catalog, layer by layer: `Base`, `WithQuality`, `WithOverrides`, `WithSignals`,
each with the fields it replaces and the fields it merges. A record may exist and hold
nothing, and then it takes away the indices of a local card. A source that failed
counts as empty there; `Registry` has the failures.

### Adapter and Pager

An entry of a payload or a file in `config/local_models` is a record of what parsing
looks at: whether it is an object at all, id, context length, the two prices every card
needs (published, not published, or the `-1` of dynamic pricing), modalities, supported
parameters and expiration. `Usable` and `UsableFile` are the errors that skip an entry,
`CardOf` is the card, `CardsOf` keeps the last card of an id. `Fetch` is a refresh that
parsed, `FetchGarbled` one that an entry which is no object made fail; failures of the
request itself are `TTLCache`'s. `Base` are the base cards of the registry's merge, which
`Pager` hands to `Queries` as its catalog.

`GET /v1/models` keeps nothing between two requests, so the walk over the pages is the
caller's: `Begin` starts one, `NextPage` asks for the next `offset` and ends it when the
`total` of that page is reached, `SourcesChange` lets days pass, fetches succeed and files
be edited at any time between. `kept`, `added`, `removed` and `repeated` are history no
guard reads. The listing is sorted by id, so ids are numbers and a page is the models
whose rank lies in it.

### Queries

The state is the catalog; each action lists, changes or delists one model, or lets
a day pass (models expire). The queries are operators on it. Prices are in
thousandths of a dollar, weights in quarters; the common divisor of a query's prices
is left out and multiplied into the price floor. Rankings are total orders because
ids decide ties, so a sorted list is given by ranks: place i of `best_value` has the
candidate with i - 1 others before it. The filter has every criterion of `filter_models`; tags and supported
parameters are one set, as both ask for a subset.

### CostEngine and Estimates

`Begin` takes the next component, with its own targets or the overriding model;
`PriceTarget` is one turn of the loop over targets, which adds costs up and replaces the
token totals (`tokens`) by those of this target; `UnknownModel` is the exception that
discards everything; `EndComponent` builds the breakdown. The seven workload types are one
record: `rate` things per `period`, `each` requests per thing, tokens and media per
request; types without a field hold 0 or 1 there. Ratios, weights and the subagent
multiplier are in parts of `Whole`; prices and tokens come in units small enough for every
division of them by it to be exact (`UnitAssumption`, `TokenAssumption`). `Multiplier` itself
and the default cache read price (a tenth) are rounded down; the instance's values are not
rounded either.
The `Formula` the estimates are checked against is the documented one, in plain integers,
for one scenario at a time; it uses no Range arithmetic and no accumulation.

`Estimates` is what comes before and after. `Receive` completes a body (`Completed` is
`_inject_model_id`, for a comparison too), validates it and resolves its schedule: it
refuses the body with a 422, fails with a 500 when the catalog cannot be built (`NoCatalog`:
`overrides.yaml` does not parse and nothing catches that), or accepts it and turns it into `JobsOf` it, one workload each
(`estimate_pipeline`) or one model each (`compare`). `NextJob` starts the engine on the
next; `NotFound` is the 404 of the first unknown model, `Finish` the answer with the
pipeline's total or the ranking, which is stable: equals stay in the order asked for. `Outcome` is what the Python client raises or returns for
it. A route awaits nothing between the prices it got from the catalog and its answer, so
requests do not interleave here; what they interleave in is `Registry`. The state is reset
with each request, so a request starts from whatever the one before left.

## Runs

| Run | Properties | Bounds |
|---|---|---|
| `cache_safety` | `TypeOK`, `LockInv`, `NeverGoesBack`, `ForcedIsCurrent`, `AvailableOnceServed`, `RefreshesAreRationed`, `ImplementsContract` | 3 tasks, TTL 2, clock to 3, 2 versions |
| `cache_live` | `EveryCallEnds` | 3 tasks, smaller clock and versions, no symmetry |
| `registry_safety` | `TypeOK`, `NeverOlder`, `NoFalse404`, `OnlyCurrentOverrides` | 2 requests, TTL 1, clock to 1, 2 versions per source, 2 override revisions and a broken file |
| `registry_live` | `EveryRequestEnds` | 2 requests, TTL 1, clock to 1, 1 version per source, no symmetry |
| `tiers` | `TypeOK`, `TiersFollowScores`, `HighTiersAreScarce`, `TierFallsHaveCauses` | 6 models, 4 scores, default cutoffs |
| `catalog` | `CuratedWins`, `TiersAreExplained`, `LocalCardsShadow`, `EnrichmentOnlyAdds` | 1 model, ranked with another, 3 cards, 2 sets of measurements, 2 overrides |
| `queries` | `LowerBarNeverCostsMore`, `BestIsUndominated`, `ValueRankingIsFair`, `RankingsAgree`, `WinnersDependOnWinners` | 3 models out of 9 cards, 4 sets of weights, every criterion of the filter |
| `pager` | `TypeOK`, `PricesArePublished`, `SkipsAreExplained`, `RepeatsAreExplained` | 4 ids, pages of 2, 8 payloads, 3 folders, 2 days |
| `estimates` | `TypeOK`, `BandsFollowFormula`, `TokensConserved`, `PerActionRecoversTotal`, `MixIsBetween`, `TypicalRestsOnListed`, `MissingModelsAreNamed`, `PipelineAddsUp`, `ComparisonIsFair` | 10 usual and 6 unusual workloads, 5 top-level ids, 6 lists of ids, 2 schedules, 3 price lists, pipelines of 2 |

Why the bounds are enough. Three tasks are a fetch in flight and two waiters, the
least that tells the order of the queue from its content; a TTL of 2 with a clock to 3 has
fresh, expiring and expired values; two versions are an old and a new one. The
theorems remove these bounds for the cache. Two requests and two versions give every
race between one request's two catalogs and another's refresh, the wait behind that refresh
included; the clock's one tick expires every entry. The order of several waiters is
`TTLCache`'s, and the theorems are about any number of requests. The liveness run needs no
second version, as no wait depends on one, but fresh values and expired ones. Six models are one more than a P90 tier needs, and with four
scores there are ties at the top, in the middle and at the bottom. Tasks, requests and
slugs are interchangeable, so their runs use symmetry; the liveness runs do not.
A card's layers do not look at other models except through ranks, so one model and a rival
show every order of them. A walk of four ids in pages of two has a full, a last and an empty
page, and every way a listing can grow or shrink before and behind the walk. With `Whole` of
2, weights come in halves, so the validator's tolerance of a thousandth is exact; two
components are enough for one to leak into the next. `Max*` and `LastDay` bound the
clock, the versions and the date, and nothing else is bounded.

Where the system stops: nowhere, so deadlock is checked in every run.

### Disagreements between the code and its documentation

Each of these runs checks one statement a comment, docstring or README line makes, and
TLC finds the behaviour of the code that contradicts it.

| Run | Statement | What the code does |
|---|---|---|
| `registry_refresh` | a refresh forces a re-fetch and reports its status | reports ok when the fetch failed and the old value was served |
| `catalog_floor` | `tools` floors the agentic tier at 2 | leaves a derived tier 1 as it is |
| `cost_ranges` | any Range input yields Range outputs | drops images whose typical count is 0 |

`BandsFollowFormula` says what holds instead in the last case: every workload whose
media are not typically absent is priced in full in all three scenarios.

More disagreements were met while modelling and have no run of their own:

* A fallback price that counts in the max scenario only is not in `estimated_fields`
  (`cost/engine.py:176`), although `schemas/breakdown.py:64` says it lists every one;
  `TypicalRestsOnListed` is what holds: the typical total rests on the listed ones.
* A 404 looks the id up in one catalog and takes its suggestions from a later one
  (`service.py:110`), which may hold the id; `NoFalse404` is what holds: it may only if some
  version before that one, since what had been served when the request began, did not list the id.
* `overrides.yaml` may put a tier of 6 on a card, although `schemas/model_card.py:53` says
  tiers are 1 to 5.
* `filter_models` ignores `min_tier` without a `capability` (`registry/queries.py:54`),
  although its docstring (line 48) says all criteria are AND-ed. `Passes` has it as it is.
* A workload with an empty `mix: []` beside a top-level `model_id` is completed with that id
  and then refused with a 422 for having both (`app.py:33`), although the docstring there
  says the copy makes a workload that names no target pass the validator, and `CompareRequest`'s
  (line 66) that the workload's own target is ignored. `MissingModelsAreNamed`
  counts it as a body that is not in order.

## Fairness

`TTLCache!FairSpec` assumes weak fairness of `Grant`, because the event loop runs a
task whose future is done, and of the end of a fetch, because `httpx` is given a
timeout. `Registry!FairSpec` assumes that a source answers, which is what
`EveryCallEnds` shows of the cache. Nobody is assumed to call, to cancel, to publish
or to edit a file, and time need not pass.

## Proofs

Each module of proofs states its inductive invariant first, has one lemma per action,
and ends with the theorems. Three ways of arguing recur. Where a property is about what
happens between two steps of a request (`TTLCache`, `Registry`, `Pager`, `Estimates`), it
needs a strengthening that says what a half-done request may have seen or done. Where it
is about a function of the state (`Tiers`, `Catalog`, `Queries`), the invariant only says
what the state looks like, and the work is in the function. An action property of such a
function is a lemma about one state, used before and after the step.

**TTLCacheProofs.** For any set of tasks, TTL and bounds. The invariants are not
inductive alone; `IInv` adds what relates the cache, the fetch in flight and the
calls:

* `LockInv` is inductive with types; everything else needs that only the owner of
  the lock writes the cache;
* `DataInv`: what was returned is no newer than the value, the value no newer than
  upstream, its time not in the future;
* `FlightInv`: a fetch in flight was sent when the call had begun and the value was no
  newer than what upstream had, so whatever it returns is newer than both; and the value is still
  not fresh for this call, as only this call could have refreshed it;
* `RationInv`: the n-th unforced refresh is at least n - 1 TTLs after the start, and so is a
  request in flight that would be the n-th. A refresh is sent only when the age has reached the TTL;
* `CallInv`, `PendingInv`: history only grows, and a call in progress has no result yet.

`Invariance` proves `Spec => []IInv`; `TypeCorrect`, `LockCorrect`, `DataNeverGoBack`,
`ForcedCallsAreCurrent`, `OutagesAreHidden` and `RefreshRateIsBounded` follow.
`CacheImplementsContract` proves the refinement: `open` is "not idle", a hit, an answer
and a failure map to `Ask` or `Answer` of the contract, joining the queue to `Ask`, a
wake-up that starts a fetch to a stutter, a cancellation to `Withdraw`.

**RegistryProofs.** For any number of concurrent requests, any TTLs, revisions and bounds,
with and without a key. `NeverOlder`, `NoFalse404` and `OnlyCurrentOverrides` speak of the
response of a step; to be inductive they need what the requests still waiting hold:

* `WorldInv`: versions, the clock and the override file are what they should be, and no
  cached card keeps a mark of an override;
* `EntriesInv`: a cache entry is a published version from the past, and at least as new as
  what any response has shown of that source;
* `RequestsInv`: a request has seen no more than was shown when it began, so whatever reply
  it holds while it waits for the other source is at least as new as that and no newer
  than the entry; and one that is looking for suggestions missed its id in a version
  between the one it had seen and the one in the entry, or the reply, it will make them from
  (`Missed`);
* `QueueInv`: the queue of a source has exactly the requests that await it, each once. So a
  request that is answered leaves the queue it is the head of, and no other.

Between two awaits a request runs through several functions of the code (`Begin` to
`Finish`, twice on the 404 path). `MergeHandles`, `SuggestHandles`, `FinishHandles` and
`AfterModelsHandles` show of each of them that it ends in an admissible wait or an
admissible response (`Handled`), and `HandledKeeps` that either keeps the invariant, so each
action is proved from the first of the functions it calls.

**Tiers, in CatalogProofs.** For any finite set of models, any scores and any cutoffs. The
properties follow from the type of `reports` by counting: the population falls into the
models below, tied with and above a model (`RankArithmetic`), so meeting a cutoff is
monotone in the score (`MeetsIsMonotone`), and few can meet a high one. For
`TierFallsHaveCauses` the same counts are compared before and after the step: when no rival rises,
appears at or above the model, or leaves from at or below it, its percentile does not fall.

**Catalog, in CatalogProofs.** For any models, cards, records, aliases and overrides. `CardsInv` says
that listings are of models and hold cards. `ServedIsLayered` takes a served card apart into
the layers it went through, each field as that layer wrote it; `ServedIsDescribed` says from it
where each tier, score, tag and speed of a served card comes from. The four properties follow from
these two lemmas; an alias names at most one slug (`SlugIsUnique`).

**QueriesProofs.** For any catalog, weights of either sign and `top_n`. `RanksAndSums` has what the
rankings rest on: in a finite linear order ranks are bounded, follow the order, differ between elements,
and are all taken. `CatalogInv` says the catalog is finite and its numbers are integers. The heart of it is
`OrdersAreLinear`: each of the three comparisons is a linear order on the candidates. For
best-value it compares tier / price as cross products, which is transitive only because the floored
prices are positive (`QuotientsAreTransitive`): the floor that avoids a division by zero is also what makes
the sort well defined when weights are negative.

**PagerProofs.** For any payloads, folders, query, page size and finite set of ids. The
inductive invariant `IInv` is
`Parsed` (the cached cards are the parse of the payload they come from), `WalkTypes` (the
types of the walk), and for each of the two walk properties a stronger form that counts:
`SkipInv` and `RepeatInv` compare the rank of a model in the present listing with the
offset. A kept model that is not yet seen has a rank of at least the offset unless one
before it was removed, and a seen one a rank below the offset unless one before it was
added. A change of the sources moves a rank down only by removing a model before it and up
only by adding one, which is a lemma on cardinalities; a page takes exactly the ranks
between one offset and the next.

**EstimatesProofs.** For any bodies, presets and prices that the validators and the adapter
let through. It begins with Range arithmetic: for all Nums, results satisfy Range's
validator, and sums, and products of nonnegative Nums, are taken point by point.
On these rest lemmas that every total, cost and quotient the engine computes is a
nonnegative band, also when a provider charges less for cache writes than for input. Then
`IInv`:

* `EngineInv`: the component being priced passed the validators and has a target, the costs so
  far are bands, and once a target is priced the tokens are those of the component, whatever
  that target's weight;
* `DoneInv`: a breakdown has the cache split of its own workload under the present schedule;
* `RequestInv`: the jobs and the schedule are those of the body, the models of every job
  done are listed, and so are the targets priced already. Without it `MissingModelsAreNamed`
  is not inductive, since nothing would say that the engine met no unknown model before
  `Finish`, or that the one it met is one the body needs.

`ComparisonIsFair` needs one more, `CompareInv`, proved on top of `IInv`: in a comparison the i-th
breakdown is the one of the i-th model alone, and what is being added up is nothing or
the whole cost of the present model at full weight (`PartOfWhole`). That holds only because costs are reset
when a component ends, also by the exception of an unknown model. `RankingIsSorted`
gets the order from `RanksAndSums`.

**FormulaProofs.** For the same bodies and prices, mixes and pipelines of any length. The
properties speak of sums over the targets of a mix or the components of a pipeline, and the
engine adds them up one step at a time, each step rounding (`\div`) where floats would not. The argument:

* *Nothing is rounded.* Tokens and unit prices are counted in units so fine that every division
  of the engine is exact. Then each of the seven costs of a month is the requests of the month
  times what one request costs (`CostsAreUnitCosts`), and so is the documented formula
  (`FormulaIsUnitCost`), although one works with sorted bands and the other with plain numbers.
* *One target more.* `TargetAdds`: pricing a target adds its weight's share of what it costs alone,
  in each scenario. So `CostsOfOneMore` carries four statements from the first k targets to the first
  k + 1 (`CostsOf`): the total is the sum of the formula's shares, it is a band per request times the
  requests, it is between the cheapest and the dearest target, and every fallback is listed.
* *The invariant.* `FormulaInv` says `CostsOf` of the targets priced so far, and of all targets of each
  breakdown. It needs `IInv` (the component is valid and its targets priced so far are listed) and
  `CompareInv` (costs start from nothing). The theorems read it at the last target:
  `TypicalTotalsRestOnTheListed` since a price that is not listed applies to a typical volume of 0
  (`UnusedPrices`), `PerActionTimesActions` since every action takes as many requests
  (`ActionsShareRequests`), so that the quotients are bands already and sorting moves none.
* *Pipelines.* `WorkInv` says that each breakdown is of its own job, and priced at the targets of
  that job alone; `BandsAddUp` that the point of a
  fold of bands is the sum of the points.

The induction on the number of targets is that of the invariant. What a sum over k + 1 numbers is
cannot be had by the library's induction theorems, so `RanksAndSums` argues with the smallest
counterexample, a set of least cardinality: the fold the community modules choose exists
(`FoldExists`), is determined by its steps (`FoldsAgree`) and may end with any member
(`AnyComesLast`).

**Assumptions.** They are named and stand in the modules that declare the constants: `None`
is none of the values it stands beside (numbers, tasks, models, workloads, error
records); bounds and TTLs are naturals; the models of `Tiers` are finite, scores are
integers, tiers are 1 to 5 and cutoffs naturals; an alias names one slug, and cards have
the six fields of a card (`Catalog`); ids are integers, finitely many in `Pager`, and so are the numbers of cards
and weights, which stand for decimals in the units named in the module, and `top_n` is at least 1, its one value in
the code being the default of 5 (`Queries`); payloads and folders are sequences of entries, a page has at least
one place (`Adapter`, `Pager`); bodies have the types the request models give them and presets
are valid schedules and prices are nonnegative (`CostEngine`, `Estimates`). Two are about units
and say nothing of the service: ratios are in parts of `Whole`, so tokens are counted in parts that
`Whole` divides as often as the engine multiplies them by a ratio, a multiplier or a weight
(`TokenAssumption`), and prices per request or image in parts that `Whole` divides (`UnitAssumption`).
Any finite set of amounts satisfies them in a unit that is small enough; what they leave out is the
rounding of floats. TLC evaluates all of them on the instances.

**Only model-checked:** `EveryCallEnds` and `EveryRequestEnds`, which rest on fairness, and the
prover has none. Every invariant and action property of the passing runs is a theorem.

## What is not modelled

* Text: justifications, logs, which ids a 404 suggests, the splitting of query strings
  (weights and modalities that do not parse raise a `ValueError` no handler turns into a
  4xx).
* Six optional price fields of an OpenRouter entry, which skip it the way the modelled ones do,
  and the keys of an Artificial Analysis entry, of which `Catalog` has the record they become.
* The client's timeout of 30 s: the server does not notice it, and an abandoned request runs
  on like any other of `Registry`. More generally the duration of anything.
* A wall clock that is set back, and the rounding of floats.
* Settings, which are read once at start, and `provider_status` and `describe`, which change
  nothing; enumerations and package exports, which have no behaviour.

## Plan

1. `Adapter` in more detail: the optional prices of an entry, and the numbers of an Artificial
   Analysis entry, so that its record is parsed rather than given.
2. `Registry` as an implementation of two `CacheContract`s: today `CacheRules` is the link
   between the two levels; a refinement would state it.
