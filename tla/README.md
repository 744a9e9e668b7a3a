# hrusha: a TLA+ model of the ledger, its sync, and its caches

hrusha keeps a personal ledger of Base-chain activity in one SQLite file. A *sync* copies transfers
and gas fees of the tracked wallets from an explorer into the ledger, prices and tags them, and
snapshots positions. A dashboard process runs syncs on a cadence and on a button; a command line
runs the same sync in another process; a *vote scout* scans Aerodrome pools and keeps chain facts in
the same file. Everything that can go wrong quietly goes wrong between these: two processes on one
file, a long run that dies, an upstream that answers half.

## Inventory

| part | source | state it keeps | operations | what makes it correct |
|---|---|---|---|---|
| sync lock | `ledger/sync_lock.py` | one row of `sync_state`: holder, start, last heartbeat | claim, refuse, heartbeat, take over, release | at most one sync works; a dead holder is replaced; a run that lost the row stays out |
| ledger sync | `service/sync.py`, `ledger/ingest.py` | `events`, a block cursor per wallet and stream | read cursors, fetch in parallel, ingest, move cursor | nothing below a cursor is missing, nothing is booked twice, fees are complete |
| Blockscout source | `providers/blockscout.py` | none (a page cursor within one call) | transfers, NFT transfers, retry | complete answers; row numbers that repeat from fetch to fetch |
| Alchemy provider | `providers/alchemy_rpc.py` | none | balances, receipts, historical price | fees of exactly the sender's transactions |
| price cache | `prices.py` | `price_cache`; per run the charts read and the breaker's count | look up, fetch a chart, ask the provider, reprice | only definitive misses are cached; a price is never taken back |
| vote scout cache | `service/vote_scout.py`, `ledger/chain_cache.py` | `pool_meta`, `pool_epochs`, `token_meta`, `token_checks`, `token_first_seen` | scan, read and write facts | only closed epochs are kept; a history has no hole; what is suggested has been vetted |
| dashboard, scheduler | `service/app.py`, `service/scheduler.py` | running flags, last results, failure count, next run | refresh, scheduled sync, scans, restart | one sync in the process; the scheduler never stops |
| snapshots, reports | `service/sync.py`, `ledger/reports.py` | `snapshots` stamped with a run id | write, show the newest run | a page shows one run, and never goes back to an older one; the pages agree |
| tagging | `ledger/tags.py`, `adapters/known_contracts.py` | `tags`, `tag_rules`, `events.source`, `epoch_id` | retag, manual tag, rules | manual beats rule; retagging is idempotent |
| rules backup | `ledger/rules_io.py` | a JSON file | export, import | a round trip changes nothing |
| gap healer | `service/heal.py` | none of its own | bisect, ingest missing legs | a healed ledger explains the chain; fees come along |
| reconciliation | `service/doctor.py` | none | compare | - |
| store | `ledger/store.py` | schema version | migrate | the version number is never ahead of the schema |
| adapters | `adapters/*.py` | cached verdicts | read contracts | a failure is not remembered as an answer |
| invest scout | `service/invest_scout.py`, `providers/aave.py` | none | fetch, tag, rank | safe ones first; the best is the best |

They interact through the file (SQLite: one write transaction at a time, five seconds of patience)
and, in the dashboard, through in-memory flags under locks. The hard behaviours are listed one by
one, each at its line, under `hazards` in `PROJECT.json`.

## What is modelled

### SyncLock, Lease - `ledger/sync_lock.py`

`row` is the lock row, `phase[r]` the main thread of run `r`, `beating[r]` its heartbeat thread,
`stamp[r]` the clock value `_claim` reads *before* `BEGIN IMMEDIATE`, `writer` the run whose own
write transaction is open. The lock's transactions are short and are one step each (`Claim`,
`Refuse`, `Beat`, `Release`); the sync's stay open across network calls, so they have a beginning
and an end (`BeginWrite`, `EndWrite`), and meanwhile every claim, beat and release waits or gives up
(`ClaimTimeout`, `ReleaseTimeout`, a skipped `Beat`). `Crash` may strike any run anywhere. Run ids
are unique, and each wins the lock at most once.

`Spec` assumes nothing of timing. `TimelySpec` adds what `LOCK_STALE_SECONDS` was chosen for:
heartbeats come in time, a claim is not suspended for longer than a lock lives. `LongWriteSpec`
drops that only while a write transaction is open.

`Lease` is the promise: somebody gets in only when nobody is inside and the record of a holder is
gone or has been silent for too long; who is inside is never silent that long. `ImplementsLease` says
the lock implements it under `TimelySpec`, with the runs at work as those inside and the row as the
record. The Dashboard, which does not have the lock's steps, implements the same lease with its
triggers and the terminal as the askers; this is what connects the two modules.

### LedgerSync, Mirror - `service/sync.py`, `ledger/ingest.py`, the two providers

`Chain` is a constant list of transfers with their transaction, block, family (native, token, NFT)
and parties; `head` says how much of it is mined, and grows between any two requests. A run reads
cursors (`Start`), its workers query (`Query`, each wallet's three queries in the code's order,
wallets interleaved), and it ingests stream by stream in the wallets' order (`Pick`, `Insert`,
`CommitTransfers`, `CommitFees`, `SetCursor`). `LegEvent` numbers rows as the explorer reader does,
and `Insert` ignores an event whose `Key` exists, as `INSERT OR IGNORE` does. A batch of receipts
may lack any of those asked for (`CommitTransfers`). `CommitWithPrice` is the price cache's nested
`with conn`, which commits half a batch. `Abort` is a crash or any exception. `Overlap` says whether
two runs may be at work, as after a takeover of the lock.

What the code loses is not assumed away but written down. `gaps` are native legs mined between a
stream's two queries, `unread` the fees whose receipt did not come, both history that no action
reads; `Rivals` are the legs of two wallets that share one unique key, a function of the chain.
`Settled`, `FeesComplete` and the mirror name these as the only exceptions.

`Mirror` is the promise: legs are recorded for good, late ones may be skipped (`Skip`), and a
frontier is only ever set over legs that are recorded, were skipped, or have a recorded rival. It
may go back. `ImplementsMirror` says the sync implements it, with cursors as frontiers and "some
event of the ledger is this leg of this wallet" as the record.

### PriceCache - `prices.py`

Several processes, each with its own resolver (`charts`, `failures`) on the one `price_cache` and
the one `events`: `hrusha sync`, `heal` and `reprice` have no lock between them. Days are the unit of
time and a price is there or not. A lookup is taken apart where network calls lie between its steps:
the cache (`Look`), the chart and its write (`FetchChart`), the second look (`Recheck`), the NULL of
a day the chart lacks (`StoreMiss`), the provider behind the breaker and its write (`AskProvider`,
`Verdict`). Every write needs SQLite's write lock (`writer`), and a stored price commits whatever
its run has open (`Committed`). `LookForIngest`, `Insert` and `EndBatch` are a sync's or a heal's
ingest; `StartReprice` (the purge), `Select`, `LookForReprice` and `Value` are `reprice_events`.
`Die` takes a run anywhere, with its open transaction. Points of the chart may come out late
(`Late`), a run may last past midnight (`Overnight`), and an older build may have left wrong misses
in the cache (`Poison`).

Four variables are history. `known` are the points that were out when the run began, less those that
another run has cached as a miss since; `aim` the events that were unpriced when a reprice purged;
`clean` says that no request of the run failed, and `raced` that another run has priced the lookup
under way since the cache was last asked for it. Transfers and ETH fees are selected in two
statements in the code, the fees after the transfers' loop, and here in one `Select`: a fee that is
booked between the two is valued there and left here, and no property speaks of it, since it was not
yet unpriced when the purge came. A reprice's lookups come in any order here; in the code a token's
transfers come oldest first, the fees in the order they were booked in.

### PoolHistory - `service/vote_scout.py`, `ledger/chain_cache.py`

Epochs are numbered by the week; votes of an epoch are `moving` while it runs and `final`
afterwards. A scan reads the clock, pages, reads `pool_meta` (`ReadMeta`), decides per candidate by
the marker (`Fresh`, `LookUp`), fetches or not, and writes back after its workers joined: first the
row (`SaveMeta`), then epochs and marker together (`SaveEpochs`). Two scanners share the cache; a
scan may straddle one flip and may fail at any step.

### Dashboard - `service/app.py`, `service/scheduler.py`

Each click is a thread, the scheduler is one; all go through `run_sync_once` (`Pass`, `Skip`,
`Claim`, `Busy`, `Locked`, `EndSync`, `Return`). The lock appears at its promise: free, held by the
dashboard or by the terminal, whose heartbeats come in time (so not in the case `lock_longwrite`
shows), or by a dead process until it is stale. `ImplementsLease` says that this promise is the
lease of SyncLock, and that one sync at a time follows across the two processes. `Return` counts the
scheduler's failures and sets its timer from `NextDelays`. Scans have a flag and a thread. Random
jitter is a choice among delays.

### Heal - `service/heal.py`

`Chain` is a constant list of legs of one wallet, each with its amount and the real index of its
log; `indexed` says which of them the explorer has, chosen once and for all, so any may be missing.
The healer's variables are `_heal_token`'s: `horizon`, `steps` (the legs it expects), `known` (a
block where both sides agree), `rounds`. `TakeToken` is the function up to its loop, `Stop` and
`Locate` are the loop's two ways, `BookLegs`, `BookFees` and `Judge` what follows a gap, in separate
steps because requests lie between them; `BookFees` gets any part of the receipts it asks for.
`Divergence` is the bisection as a recursive function. `Interrupted` is a failed request, which
leaves the token with a note, or the death of the process; either may leave part of a batch, since a
stored price commits what was inserted before it.

Healing takes no lock, so `Mine` and the sync's steps come between any two of its own. Of the sync
this keeps what it commits and when: `Fetch` (everything the explorer has from the cursor on, under
invented indexes, `Synced`), `SyncLegs` (a commit of all its transfers, or of those before a stored
price), `SyncFees`, `SetCursor`, and `SyncDies` between any of them. So heal meets a first sync that
has committed legs and set no cursor yet, alive or dead.

`done[t]` is history, the horizon up to which the run left token `t` without a note, and so are
`early` (tokens taken when there was no cursor), `overtaken` (those of them of which a sync has
booked since), `orphans` (legs booked for an early token), `mended` (legs whose healer was not cut
off from their fees) and `unread` (fees whose receipt the healer did not get).

### Tagging - `ledger/tags.py`, `ledger/rules_io.py`, the adapters' rules

Events are numbered by id and come in one by one (`Ingest`). `Retagged` is `retag_all` as a pipeline
of operators over a record of the ledger's tables (`Ledger`): own transfers, the rules by priority
(a fold, one `ApplyRow` per row of the rule table), routed vault flows, gas, swaps, reinvestments,
veNFT purchases, spam. None of these operators reads a variable, so what each does to any tables is
a lemma of its own. `Retag` applies the pipeline in one transaction.
Between two retags anything may happen: a late price (`Price`), a tag set by hand (`SetManual`), a
rule found (`FindRule`, which stands for the seeds and both adapters, all of which go through
`ensure_rule`) or switched off (`SwitchOff`).

A backup is the rule table in the order of the export. `ImportRules` folds `Ensure` over it, from a
table that the rebuilt ledger's own syncs have filled first: `Rebuilds` are all such tables, any of
the `Adapted` rules in any order, all of them on. `Undisturbed` says what of such a table the import
can live with: every rule in it is in the file and on there, and none was found before another of its
priority that the file has first. `fresh` is history: nothing has changed since the last retag.

### Reports - `ledger/reports.py`

Three pages over the tagged events, each as the set of events it adds up: `Neto` per source, the
`FeeSummary`, and `Slot`, the column of a strategy's account in which an event counts. The module
EXTENDS Tagging and adds no state; its invariants hold in every state a page may be opened in.
`Strategy` folds rebases and veNFT purchases into the voting strategy. `Tidy`, of an event, and
`TidyVault`, of a share leg's transaction, say that no rule in the table and no hand makes more of it
than it is; the pages are compared event by event, so one untidy event excuses only itself.
`Claims(e)` are the sources that rules give an event before any pairing, as the seeded rule for AERO
does.

### Migrations, Snapshots - `ledger/store.py`, `service/sync.py`, `ledger/reports.py`

Migrations is `apply_migrations` statement by statement. `made` is the schema as the set of
statements in effect, `Scripts` gives each version's statements by kind (`create` fails on what is
there, `ensure` does not, `fill` updates rows). Any number of openers do this at once, and an opener
may be killed anywhere (`Kill`). `FailStatement` is the exception of a duplicate column or table.

Snapshots EXTENDS it: a run that has the ledger open writes its groups one after another, each with
its own clock reading (`ReadGroup`) and its own transaction (`writer`, `newRows`). The lock's row
and the list of pools ever voted for go into one transaction (`InsertLock`); claimable rewards are
asked for (`AskClaims`) while it is open, and the price cache may commit it half way
(`CommitWithPrice`). `Cut` ends a run anywhere, `Overlap` lets two write at once. `FillRunIds` is
version 6's backfill of old rows. `Shown` is `latest_snapshots`. `saw`, `ballot`, `asked` and
`before` are what a run has read, and history.

### TokenFacts - `service/vote_scout.py`, `ledger/chain_cache.py`

One candidate pool (`Pair`) and the tokens its votes are bribed with (`Bribes`). A scan takes all
descriptions and the pool's two tokens (`Begin`; a pool that is not a standard one stays unread),
reads those it lacks from the chain (`Describe`: what cannot be read becomes a `fallback`, and is
remembered), stores them (`StoreMeta`), gets the pair's first prices (`FetchAges`) and GoPlus's
verdicts one by one (`Check`, `StoreCheck`). An answer of GoPlus may be its verdict, may lack the
token (an error body, or a contract it has never scanned), or fail. The world changes beside it
(`TurnRisky`, `GetPrice`, `Tick`), the cache may not open (`useCache`), a scan may end on a failed
request (`Fail`).

`first_price`, `first_seen` and `first` are times, or `Never`, in the world, in the ledger and in a
scan. What an operator may set is a constant: `TokenSafety`, and in `Filters` any number of
combinations of `require_major_pair`, the extra majors, `min_token_age` (0 is off, the default) and
whether a floor on TVL or history is set. `Blank`, `Exotic`, `Young` and `Risky` are the flags of
`score_pool` that tell of the pool's tokens, each under a combination `f`, and `Suggested` is the
conjunction that `PoolScore.suggested` makes of them; the other flags only take more pools out.
`cleanAt` and `lackedAt` are history: when GoPlus last found nothing in a token, and when an answer
last lacked it although it was risky.

### Invest - `service/invest_scout.py`, `providers/aave.py`

Pure functions of one answer: what the scanner offers (`Scanned`), `WithdrawalSafe`, the sort order
(`NotAfter`, `Ranked`), the best per token (`IsBest`). There is no state to explore, so there are
theorems about it (in ScoutProofs) instead of a run.

## What the runs show

| run | instance | shows |
|---|---|---|
| `lock_timely` | 3 runs, time 0-4, stale after 1 | mutual exclusion, the worker is the one displayed, refinement of `Lease` |
| `lock_anytime` | 2 runs, any timing, fair | `RowChangesHands`, `LostForGood`, `AbandonedRowReclaimed` |
| `lock_longwrite` | 2 runs | counterexample to mutual exclusion |
| `ledger_crash` | 2 wallets, 6 transfers in 2 blocks, one key for two wallets' legs, missing receipts, 1 stop, fair | nothing lost and fees complete but for the named exceptions, all recorded in the end |
| `ledger_overlap` | 2 runs at once, 1 wallet, 4 transfers, missing receipts, 1 stop | no double booking, refinement of `Mirror` |
| `price_faults` | 2 processes, 1 token, 2 days, poisoned cache, late points, breaker at 1, any deaths | misses are real, prices stay, a clean reprice is complete |
| `pool_shared` | 2 scanners, epochs 0-6, a history of 3 | final votes only, holes only at the two ends |
| `dash_live` | 2 clicks, scheduler, terminal, 1 scan, 2 crashes | one sync, one scan, refinement of `Lease`, results stay, the scheduler keeps trying, corpses are cleared |
| `heal_gaps` | 7 legs of 2 tokens in 4 blocks, any of 6 missing, missing receipts, 1 fault, 2 rounds, a live sync | no leg twice, unannotated tokens are explained, the bisection is sound, fees follow |
| `tagging_retag` | 11 events, 4 rules, 2 hand-set tags, 1 late price, 3 rules a rebuilt ledger may have found | a retag forgets the past, the first rule wins, own transfers are never untagged, a backup restores, vault flows count once, the pages agree |
| `snapshots_pages` | 2 processes, any old version, 3 groups, 1 kill, 1 cut, overlap | an open ledger is ready, a page is one run and never goes back, rewards stay in sight |
| `token_facts` | 2 scanners, 3 scans, a pair's token and a bribe, all 16 combinations of gates, 1 tick, TTL 0, 2 mishaps | suggestions are vetted, the age gate is true |

**Bounds.** Three runs suffice for a holder, its successor and a late third; time 4 with staleness 1
allows two takeovers and a late release. Two blocks give every cursor a transfer below it and one
above, and let a block be mined between two queries; an airdrop to both wallets gives two legs one
key; one stop may strike anywhere, also between the nested commit of half a batch and its end, and
the repetition meets what it left. For prices two processes are what it takes for one to write
between the other's lookup and write, and one token on two days what it takes for a chart to bring
a day that was not asked for; a breaker limit of one opens it within a run. No run lasts past
midnight there (`Overnight = FALSE`), and the chart's span reaches over both days: longer histories,
and runs over midnight, are the theorems' business, which hold for any. A history of three epochs
inside seven lets a pool drop out of the cache and come back. Three failures reach the cap of the
backoff, and would pass every other delay without it. In Heal four blocks put a gap on either side of
a known block, two rounds are used up by three gaps of one token, and the payment's first legs have
log indexes that the explorer's reader may have given to others of its legs. In Snapshots every
version is a possible start, a group may die before, in and after its transaction, and two runs may
write in the same tick, where only the row id tells which is newer; one pool is enough for a vote to
move away from. In TokenFacts three scans let a verdict be written, outlive its TTL and be written
again by the other scanner; with a pair that is a major the bribe carries the verdicts, and the pair
the ages. In Tagging every step of the retag has an event it applies to, two rules of one priority
match one event, one event is reached by rule, hand and inference, and a rebuilt ledger may have
found any three of the four rules in any order before the import. `MaxTime`, `MaxWrites`, `MaxHead`,
`MaxFaults`, `LastDay`, `LastWeek`, `MaxFailures`, `MaxCrashes`, `MaxKills`, `MaxCuts`, `MaxClock`,
`MaxScans` and `MaxMishaps` are bounds of the model, not of the code. Deadlock checking is off for
SyncLock, Snapshots and TokenFacts, where time ends, every run may be done, and a wedged migration
leaves nothing to do; `MaxFailures` keeps the scheduler's consecutive failures finite, as in the code
nothing else does.

**Fairness.** SyncLock: the clock runs, live threads run, transactions end, and a refused trigger
fires again (the scheduler is hourly); heartbeats and crashes are not assumed. LedgerSync: a sync
that is not stopped goes on, and stops are finitely many (`MaxFaults`); the chain need not grow.
Dashboard: threads run, waiting time passes, the container restarts a dead process; nobody need
click, and a terminal sync need not end. The other modules state safety only. No strong fairness is
used.

## Where the code departs from its documents

One run shows a counterexample; the quoted lines are in `findings`. `lock_longwrite`: the sync's own
transactions stay open across network calls, so its heartbeat, on another connection, cannot write;
a live run goes stale, and two syncs work.

Seen while modelling. The model has each of the following, and the property it touches names it as an
exception, exactly; without the exception TLC finds the case.

- `Rivals`: row numbers are per wallet and per transaction (`blockscout.py:193`) but the unique key
  has no wallet (`ledger/store.py:39`), so one transaction that pays two tracked wallets gives both
  legs one key, and the second is dropped as a duplicate. README.md:81-82 of the repository calls
  re-runs and overlaps harmless; with such a chain `NothingLost` excuses the dropped leg;
- `gaps`: the native and the token rows of one stream are asked for one after the other
  (`blockscout.py:65-73`), and the cursor is set past the highest block of both, so the native leg
  of a block mined in between is never fetched, nor its fee;
- `unread`: a receipt missing from a batch answer is skipped and its fee never asked for again
  (`alchemy_rpc.py:150-152`), in the sync and in heal;
- `Covered`: a chart request covers 500 days (`prices.py:127`), but a chart is taken to cover every
  day from its start on, so days after the window are cached as definitive misses;
- `raced`: a lookup that found nothing writes its NULL over whatever is in the cache by then
  (`prices.py:102`), so a price that another process has stored meanwhile is taken back; `PricesStay`
  names the one lookup that can do it. The next reprice repairs it, as far as events lack the price;
- `known`: what another process has cached as a miss since a run began, that run believes, also a
  reprice between its purge and its lookup;
- `early`, `orphans`, `overtaken`: without a cursor heal takes the whole chain for its own, since
  "there is no re-fetch to collide with" (`heal.py:128-131`). A first sync that is still at work, or
  died, has committed legs, set no cursor, and will book what heal booked a second time;
- `Crowded`: where a leg's real log index equals the invented one of another leg of its transaction,
  the healed leg is ignored by the unique key and yet counted as healed (`heal.py:248`);
- `mended`: a request for receipts that fails after heal booked the legs (`heal.py:275`): the next run
  sees no gap, and the fee is never booked; `FeesFollow` speaks of healers that were not cut off;
- `Undisturbed`: a rule that a sync has seeded or found before the import is left as it is
  (`rules_io.py:88-100`), enabled although the file has it disabled; and rules of one priority apply
  in the order in which they were found, not in the file's;
- `Tidy`: vault shares sent as a gift are tagged "deposit": neto leaves them out, and the strategy's
  account counts them as income, if they have a price (`reports.py:271-292`). A rule without a
  direction, or a hand, can tag a fee or an income as something else, and the pages differ then too;
- `TidyVault`: in a transaction that leaves one vault for another, the shares of the new one come in
  beside shares that are redeemed, and are tagged "withdraw" like an asset (`tags.py:266-282`);
- `Claims`: the docstring of `_pair_router_vault_flows` says the sibling asset leg "inherits the
  deposit/withdraw tag and the source" (`tags.py:260-264`), but only a missing source is filled in
  (`WHERE source IS NULL`, `tags.py:292`), and the seeded rule for AERO (`known_contracts.py:55`)
  has given every AERO that comes in a source before. AERO redeemed from a vault through a router,
  as in the run, is thus counted as withdrawn from the voting strategy, not from the vault's;
- `Unanswered`: a token whose GoPlus request failed counts as clean unless every request of the scan
  failed (`vote_scout.py:840-844`);
- `Cleared`: an answer with status 200 that lacks the token, an error body included, is stored as
  clean for the TTL (`vote_scout.py:823-838`);
- `f.floor`: a pool whose pair could not be read is kept and passes the gate for exotic tokens, and
  no token of its pair is checked (`vote_scout.py:497-513`). Only a floor on TVL or on its history,
  or the age gate, keeps it from being suggested.

Also met, and in the model, but of no property's concern:

- a token healed in exactly `MAX_GAP_ROUNDS` rounds is reported as still diverging
  (`heal.py:190-207`);
- a rule restored as disabled is enabled for an instant, and for good if the import dies there
  (`rules_io.py:88-100`; the import is one step of the model);
- which of several vaults' sources a routed leg takes, the query leaves open (`LIMIT 1`); `Pair`
  chooses one;
- a chart request that finds nothing *from its day on* marks the token unknown for the run, so an
  older, priced day is then cached as a miss (`prices.py:151`): that request did not ask for the older
  day (`Covered`);
- a miss for the running day is cached when the token is unknown, against the comment at
  `prices.py:90-91`; the next reprice repairs it;
- the marker of a fetch is the start of the epoch that was running then, and the marker test accepts
  any from the last completed epoch on (`vote_scout.py:694`), so the next week's scan serves the
  cache without the epoch that has closed since; the comment at `vote_scout.py:786-787` says that
  next week's scan refetches. `NoHoleInside` is about the inside of a history for this reason;
- a crash between a migration's script and its version number makes every later opening fail on what
  the script created (`store.py:212-214`). Two openers can do the same without a crash: one that
  read an old number writes the number of a repeatable script (version 4) after the other has
  written the last, and the next opening runs version 5 again;
- a page shows a run that is still writing, or died half way, with the groups it has written; what
  `latest_snapshots` promises is one run's rows, and `ShownIsWhole` asks for all of them only of a
  finished run;
- a description that could not be read is kept for good with 18 decimals, and may replace a good one
  that another scan has stored meanwhile (`vote_scout.py:442-453`);
- gas of contract calls without a transfer, and of reverted transactions, is never booked: fees are
  asked for the transactions of a batch's outgoing legs;
- `invest_scout.py:59` calls an option safe if "available liquidity >= your balance AND no slow tag".
  No scanner supplies liquidity or utilization, so all lending is unsafe as unverified, and the one
  kind that is called safe, the stable pair, is the kind for which neither is ever asked
  (`OnlyPairsAreSafe`);
- a claim that waits longer than `busy_timeout` raises `OperationalError`, not `SyncBusy`, and
  counts as an outage (`Locked` in Dashboard);
- a dashboard restarted in mid-sync is refused by its own corpse and waits a whole interval.

## What is proved

TLAPS proofs, in modules beside the models; each holds for **all** constants that satisfy the
model's named assumptions, so for any number of runs, scanners, wallets, tokens and bounds.

**SyncLockProofs.** `TypeCorrect`, `RowChangesHandsCorrect`, `LostForGoodCorrect` of `Spec`, with no
assumption on timing; `MutualExclusionCorrect` and `WorkingIsShownCorrect` of `TimelySpec`. Mutual
exclusion is not inductive. `ClockCorrect`: no stamp and no heartbeat lies in the future, so a
takeover always moves the row's time forward. `LockInv`: a run that works owns the row (under
`TimelySpec` nobody finds a timely row stale, because the time a claim judges with is not after the
present). And the row has one owner. `ImplementsLeaseCorrect`, from the same invariant: a claim finds
nobody at work (`ClaimAlone`), a release or a beat of a run that lost the row does nothing, and each
other step is `Take`, `Leave`, `Renew` or `Age` of `Lease`, or none (`LeaseStep`).

**LedgerSyncProofs.** For any chain and any runs at once, with no hypothesis beyond the constants'
types.

- `NoDoubleCountCorrect`. An answer reaches from the cursor to the height, so it holds a transaction
  whole (`GotInv`); the ordinal invented for a leg is therefore the one it has among all rows of its
  wallet, and its event is a function of the leg (`Booked`). `BookInv`: everything booked, or about
  to be, is such an event or a fee.
- `NothingLostCorrect` and `ImplementsMirrorCorrect`. `AskedInv`: with a row an answer holds every row
  of its stream between the cursor and that row, except what is in `gaps`, which is where a block
  mined between two queries does its harm. `SinceInv`: what lies below the cursor a run started from
  is settled, although another run may have moved the cursor since. `WorkInv`: of each leg of the
  batch the *key* is still to be inserted, in the run's open transaction, or committed (`Holds`), and
  it is committed before the cursor moves. Numbers of one wallet's rows are apart (`OrdinalsApart`),
  so an event with a leg's key is the leg's own or a rival's (`KeyIsOwnOrRival`); what is settled
  stays so (`SettledStays`). Then `SetCursor` moves over nothing that is unsettled (`BelowCursor`,
  `CursorIsEarned`), and each step of the sync is `Grow`, `Record`, `Skip` or `Vouch` of `Mirror`, or
  none.
- `FeesCompleteCorrect`, by the same argument over fees (`FeeSinceInv`, `FeeWorkInv`). It needs nothing
  of the legs' keys: a fee's key names its transaction, which has one sender.

**PriceCacheProofs.** For any number of processes, tokens, days, spans and limits, and with runs over
midnight. `PriceInv` is the types, `KnownInv` (a run knows no point that is not out), `LedgerInv`
(what is pending belongs to the open transaction), and for each run three parts. `PlaceInv`: what its
place in a lookup says of the rest of its state. `CacheInv`: a chart that came in has put every point
it asked for that was out when the run began into the cache, and one that found nothing had nothing
to find (`ChartInv`), so a lookup on its way to a miss is not of such a point (`LateInv`); and if the
cache meanwhile has what a lookup missed, then it was overtaken (`RaceInv`). `RepriceInv`: a reprice
knows of its failures, the misses it comes to are days beyond its charts, and each event it aims at is
still to be looked up, valued for good, or one it could not price. From these `PriceTypeCorrect`,
`MissesAreRealCorrect`, `PricesStayCorrect` (with `RowStep`, what any step of a run does to a row of
the cache) and `RepriceCompleteCorrect`. Most of the work is that another run's step between two of
one's own disturbs none of it (`Others`, `OthersKeep`, `LedgerKept`).

**PoolHistoryProofs.** `PoolTypeCorrect`. `StoredIsFinalCorrect` from `FinalInv`: what a scan holds
of an epoch it takes for closed is final, since the clock it read lies behind the present.
`NoHoleInsideCorrect` from `HoleInv`: a scan is one week behind at most; whatever a marker vouches
for, in the table or as a scan has read it, is stored as far as the chain still answers; and so is
what a scan has fetched, until it is stored.

**DashboardProofs.** `OneSyncHereCorrect` from `GuardInv` (the flag is up exactly while one trigger is
inside), `OneScanEachCorrect` and `ResultStaysCorrect` from `ScanInv`, `DashboardTypeCorrect` from
`CountInv`: however many attempts have failed, no delay exceeds the longest of the given ones.
`ImplementsLeaseCorrect` from `HolderInv` (a live holder is not silent, and a trigger that syncs has
the lock): nobody takes the lock from under a sync of either process.

The same module proves, for any events, rule book, tags set by hand and window, what the pages rely
on in the tagged ledger: `TaggingTypeCorrect`, `OwnTransfersTaggedCorrect`, `HistoryFreeCorrect`,
`FirstRuleWinsCorrect` and `BackupRestoresCorrect`, from `TaggingInv` (these invariants, and no two
rules of the table have one match, which is what `ensure_rule` sees to). Only a retag makes `fresh`
true, so the work is in `RetagLeaves`, what the pipeline leaves whatever it starts from:

- each step only adds tags and fills in sources that are missing (`Keeps`, one lemma per step), so
  the own transfers tagged first keep their tags and a source once given is not changed;
- the rules run one after the other: the community modules' fold is a `CHOOSE` of a recursive
  function on sets of positions. That there is such a function, and that it takes the elements in
  turn, is proved by looking at the least number of elements for which it would not
  (`FoldSolved`, `FoldInTurn`, `RulesInTurn`);
- the order by priority and id is a permutation in which every rule comes after all that precede it
  (`SortedByPriority`), so an event is without a source until the first rule that has one for it
  (`RulesKeep`), and sorting again changes nothing (`OrderIsFixed`);
- for the backup: the file's rows are imported in turn (`ImportInTurn`); after each, the rows of the
  table that are also among the file's first stand in the file's order where priorities are equal
  (`Importing`, first of an undisturbed table, then with every row); so the table in order enumerates
  the file's places in increasing order, and is the file (`ImportRestores`, with `InOrderIsIdentity`).
  A retag knows of the rule table only its order (`SameOrder`).

Assumed of the constants: kinds are in, out or gas, and priorities and the window are numbers.

`PagesAgreeCorrect`, of Reports, from `ReasonInv`: every tag has a reason (`Reason`: a hand, a rule of
the book, or the form of the transaction), after a retag one that the prices there are do not take
away, and every leg of a swap has its tag. A `Tidy` fee has thus none of the tags neto leaves out
(`FeesAreFees`), and a tidy income only one by which the account, too, knows it for none
(`IncomeIsIncome`). Shares that come in are tidy if something left before in their transaction, as
ERC-4626 has it.

`VaultFlowsOnceCorrect` follows a leg of a `TidyVault` transaction through the retag: a share leg's tag
and source come from a rule or a hand, since neither inference reaches it (`SharesMayBe`,
`PairExactly`); the pairing gives the asset the share's tag, and its source unless a rule that claims
the asset was first (`RulesClaim`); what follows takes neither away (`RetagStages`, `FlowsAreRouted`);
and a share leg is then a leg of a swap that is neither capital nor principal
(`SharesCountNowhere`). A deposit made directly, whose asset leg has a rule of its own, is tidy too.

**HealProofs.** For any chain, any log indexes, any set of legs the explorer lacks, and a sync's
commits, fees, cursor and death between any two steps, with or without a cursor at the start.

- `HealTypeCorrect`, with `TurnInv`, and `BisectionIsSoundCorrect`, with `SearchInv`: the expectation
  agrees with the chain at `known`, or nothing is left to search. The bisection is a recursive
  function on intervals; that it has a value, and that this value is the first block where
  expectation and balance differ after they agreed, is proved by taking the shortest interval
  for which it would not (`Halves`, `SearchExists`, `DivergenceSolved`, `DivergenceFinds`).
- `FeesFollowCorrect`, an invariant as it stands: only a fee whose leg was booked a moment ago is
  still to come.
- `NeverTwiceCorrect`, with `TerritoryInv`: an event is the sync's own, or lies below the cursor, or
  is an orphan; what the sync has fetched lies at or above the cursor; and the healer looks only below
  the cursor it read, which only grows, unless the token is an early one.
- `ReportIsTrueCorrect`, with `ExpectInv`: what the healer expects below its horizon is what the
  ledger has there, unless the token was overtaken or a leg's key is taken (`Taken`); so a token it
  leaves without a note is explained (`ClaimIsTrue`), and stays so (`ExplainedStays`).

**SnapshotsProofs.** `OpenMeansReadyCorrect` from `StoreInv`: the schema of the version number on disk
is in effect, and so is every statement an opener in mid-migration has behind it.
`RewardsInSightCorrect` from `VotesInv`: remembered pools only grow, in the file and in an open
transaction, which begins from the file and excludes other writers; a run's votes are in them from
its lock row on. `ShownIsWholeCorrect` and `NeverOutdatedCorrect` from `PageInv`, which has four
parts: rows written before run ids are older than any sync's, and backfilled once version 6 is in
(`RowInv`); ids are given in turn, those of an open transaction after those in the table (`IdInv`);
rows of runs that had ended when a run began lie before its own (`OrderInv`); and what a run has
read is in its rows, in its open transaction or still to be written, group by group, with no item
in two groups (`AccountInv`). Assumed, and true of every call and build: a sync writes each group
once, only version 6's script backfills, and every opener's program includes it.

**ScoutProofs.** Of TokenFacts, for any gates, TTL and thresholds: `SuggestionsAreVettedCorrect` from
`VettedInv`: a row's date is not after the last moment its token was clean, or missing from an answer,
if it says clean; dating rows by the scan's start is what makes this hold. `AgeGateIsTrueCorrect` from
`AgeInv`: a first price that is kept is the true one, and one that a scan has not found came after it
began. Of Invest: `OnlyPairsAreSafe`, `BestIsBest`.

Only model-checked: every liveness property (beyond the prover's reach), which are
`AbandonedRowReclaimed`, `EventuallyRecorded`, `KeepsTrying` and `CorpseCleared`. Every other
property of a passing run is the conclusion of a theorem about the specification, with no hypothesis
but the named assumptions on the constants and, for the two that speak of timely heartbeats,
`TimelySpec`. The type invariants of the modules other than Dashboard are proved and no longer run:
the theorems include every instance.

## Not modelled

- Reconciliation (`service/doctor.py`): one read-only comparison of sums with balances, with a
  tolerance for native coins. Its question is `ReportIsTrue` of Heal.
- The estimate of a pool's rewards and the order of the suggestions (`score_pool`'s arithmetic):
  floating-point over one scan's data.
- Amounts, decimals and currency: prices, balances and sums are present or absent, or sets of the
  events that make them up. What a wrong `decimals` does to a number is therefore out of sight.
- Epoch ids of events, page rendering, argument parsing, logging, configuration: no state that
  survives a call, or none that another part reads.
- Probe scripts under `docs/examples`: not part of the program.
- A crash within an import of rules, and an adapter's verdict on a contract kept after a failed call
  (`adapters/aerodrome.py:192`): the first is one step here, the second is a rule that is never
  found.

Worth doing next: the ledger sync under the lease, in place of `Overlap`; a fault model for the
rules' import.
