----------------------------- MODULE PriceCache -----------------------------
(***************************************************************************)
(* USD prices and their cache (hrusha/prices.py).                          *)
(*                                                                         *)
(* A price is looked up by token and day: in the cache, then in the        *)
(* token's chart (one request fills every day it covers), then at the      *)
(* provider, which a circuit breaker guards.  A miss that is "definitive"  *)
(* is cached as NULL and never looked up again, so a NULL that is wrong    *)
(* hides a price for good.  reprice_events is the way back: it purges the  *)
(* NULLs of tokens with unpriced events and looks those up again.          *)
(*                                                                         *)
(* `hrusha sync', `heal' and `reprice' are processes of their own, each    *)
(* with its own resolver, and share the cache and the events without a     *)
(* lock between them; only SQLite's write lock keeps their transactions    *)
(* apart.  Network calls lie between a lookup in the cache and the write   *)
(* that follows it, any request may fail, any run may die or raise         *)
(* anywhere, and a day's chart point may come out late.                    *)
(***************************************************************************)
EXTENDS Integers

CONSTANTS
  Runs,           \* the processes
  None,           \* no process, and no lookup
  Tokens,
  ChartDays,      \* token |-> the days the chart service has, or will have, a point for
  ProviderDays,   \* token |-> the days the provider has a price for
  Poison,         \* lookups an older build left in the cache as NULL
  LastDay,        \* bound: the last day
  MaxSpan,        \* DEFILLAMA_MAX_SPAN_DAYS
  FailureLimit,   \* PROVIDER_FAILURE_LIMIT
  Late,           \* may a day's point come out after the day has begun?
  Overnight       \* may a run last past midnight?

ASSUME PriceAssumption ==
  /\ LastDay \in Nat
  /\ MaxSpan \in Nat \ {0}
  /\ FailureLimit \in Nat \ {0}
  /\ Late \in BOOLEAN
  /\ Overnight \in BOOLEAN

Days == 0..LastDay
Lookups == Tokens \X Days

ASSUME SourceAssumption ==
  /\ None \notin Runs \cup Lookups
  /\ ChartDays \in [Tokens -> SUBSET Days]
  /\ ProviderDays \in [Tokens -> SUBSET Days]
  /\ Poison \subseteq Lookups

VARIABLES
  today,
  published,  \* points that are out, as lookups
  cache,      \* price_cache: lookup |-> absent, null or priced
  unpriced,   \* events in the ledger with usd_at_time NULL
  priced,     \* events in the ledger with a USD value
  writer,     \* the run whose write transaction is open, or None
  pending,    \* events that transaction has inserted or valued
  mode,       \* per run: what it does
  at,         \* per run: where it is in usd_price, and outside of it
  ask,        \* per run: the lookup under way, or None
  got,        \* per run: what that lookup came to
  charts,     \* per run: its chart of each token: the state, and the day it starts
  failures,   \* per run: consecutive provider failures
  todo,       \* per run: events a reprice has still to look up
  clean,      \* (history) no request of the run has failed
  known,      \* (history) the points that were out when the run began, and that no
              \* other run has cached as a miss since
  aim,        \* (history) the events that were unpriced when a reprice purged
  raced       \* (history) has another run priced the lookup under way since the
              \* cache was last asked for it?

ledgerVars == <<unpriced, priced, writer, pending>>
lookupVars == <<at, ask, got, charts, failures, clean>>
historyVars == <<known, aim, raced>>
vars == <<today, published, cache, ledgerVars, mode, lookupVars, todo, historyVars>>

NoChart == [state |-> "none", from |-> 0]
Charts == [state : {"none", "ok", "missing", "failed"}, from : Days]

\* The points of day d that come out with it.
PointsOf(d) == {l \in Lookups : l[2] = d /\ d \in ChartDays[l[1]]}

Init ==
  /\ today = 0
  /\ published = IF Late THEN {} ELSE PointsOf(0)
  /\ cache = [l \in Lookups |-> IF l \in Poison THEN "null" ELSE "absent"]
  /\ unpriced = {}
  /\ priced = {}
  /\ writer = None
  /\ pending = {}
  /\ mode = [p \in Runs |-> "idle"]
  /\ at = [p \in Runs |-> "ready"]
  /\ ask = [p \in Runs |-> None]
  /\ got = [p \in Runs |-> "none"]
  /\ charts = [p \in Runs |-> [k \in Tokens |-> NoChart]]
  /\ failures = [p \in Runs |-> 0]
  /\ todo = [p \in Runs |-> {}]
  /\ clean = [p \in Runs |-> TRUE]
  /\ known = [p \in Runs |-> {}]
  /\ aim = [p \in Runs |-> {}]
  /\ raced = [p \in Runs |-> FALSE]

-----------------------------------------------------------------------------
(* The world *)

Midnight ==
  /\ today < LastDay
  /\ Overnight \/ \A p \in Runs : mode[p] = "idle"
  /\ today' = today + 1
  /\ published' = IF Late THEN published ELSE published \cup PointsOf(today + 1)
  /\ UNCHANGED <<cache, ledgerVars, mode, lookupVars, todo, historyVars>>

\* A point that was late comes out.
Publish ==
  /\ \E l \in Lookups \ published :
       /\ l[2] <= today /\ l[2] \in ChartDays[l[1]]
       /\ published' = published \cup {l}
  /\ UNCHANGED <<today, cache, ledgerVars, mode, lookupVars, todo, historyVars>>

-----------------------------------------------------------------------------
(* Writing.  A run waits for another's write transaction; the nested `with  *)
(* conn' of a price that is stored commits whatever its run has open.       *)

MayWrite(p) == writer \in {None, p}

Committed == writer' = None /\ pending' = {} /\ UNCHANGED <<unpriced, priced>>

\* What run p's storing of these prices, or of this miss, means to the others.
PricesStored(p, stored) ==
  /\ raced' = [q \in Runs |-> q # p /\ (raced[q] \/ (at[q] # "use" /\ ask[q] \in stored))]
  /\ UNCHANGED known

MissStored(p, l) ==
  /\ known' = [q \in Runs |-> IF q = p THEN known[q] ELSE known[q] \ {l}]
  /\ raced' = [raced EXCEPT ![p] = FALSE]

-----------------------------------------------------------------------------
(* PriceResolver.usd_price, from one look in the cache to the next *)

\* _chart_state asks for a chart if there is none, or it starts too late.
NeedsChart(p, l) ==
  LET chart == charts[p][l[1]]
  IN  chart.state = "none" \/ (chart.state = "ok" /\ l[2] < chart.from)

\* Where a lookup goes on after the chart is there, or is known not to be.
PastChart(state) == IF state = "ok" THEN "recheck" ELSE "ask"

\* A run begins to look a day up.
Look(p, l) ==
  /\ ask' = [ask EXCEPT ![p] = l]
  /\ at' = [at EXCEPT ![p] = IF cache[l] # "absent" THEN "use"
                             ELSE IF NeedsChart(p, l) THEN "chart"
                             ELSE PastChart(charts[p][l[1]].state)]
  /\ got' = [got EXCEPT ![p] = IF cache[l] = "absent" THEN "none" ELSE cache[l]]
  /\ raced' = [raced EXCEPT ![p] = FALSE]
  /\ UNCHANGED <<today, published, cache, ledgerVars, mode, charts, failures, clean, todo, known,
                 aim>>

\* The days one /chart request asks for: from day d on, MaxSpan days at most.
Asked(d) == d..(d + MaxSpan - 1)

\* The points the request returns.
Window(l) ==
  {m \in published : m[1] = l[1] /\ m[2] \in Asked(l[2]) /\ m[2] < today + 2}

\* A bug: a chart request that failed counts as one that found nothing.
FetchedFailureIsMiss(l, ok) ==
  [state |-> IF ~ok \/ Window(l) = {} THEN "missing" ELSE "ok", from |-> l[2]]

\* _fetch_chart, when the request succeeds (ok) and when it fails.
Fetched(l, ok) ==
  [state |-> IF ~ok THEN "failed" ELSE IF Window(l) = {} THEN "missing" ELSE "ok",
   from |-> l[2]]

\* A bug: a chart replaces everything the cache has of its token.
OnlyChart(l) ==
  [m \in Lookups |-> IF m[1] # l[1] THEN cache[m]
                     ELSE IF m \in Window(l) THEN "priced" ELSE "absent"]

\* The chart's points, INSERT OR REPLACEd.
WithChart(l) == [m \in Lookups |-> IF m \in Window(l) THEN "priced" ELSE cache[m]]

FetchChart(p, ok) ==
  LET chart == Fetched(ask[p], ok)
  IN  /\ at[p] = "chart"
      /\ charts' = [charts EXCEPT ![p][ask[p][1]] = chart]
      /\ at' = [at EXCEPT ![p] = PastChart(chart.state)]
      /\ clean' = [clean EXCEPT ![p] = @ /\ ok]
      /\ IF chart.state = "ok"
         THEN MayWrite(p) /\ cache' = WithChart(ask[p]) /\ Committed /\ PricesStored(p, Window(ask[p]))
         ELSE UNCHANGED <<cache, ledgerVars, known, raced>>
      /\ UNCHANGED <<today, published, mode, ask, got, failures, todo, aim>>

\* "Chart fill landed here", if it did; else a day that is over is a miss, and the
\* running one is the provider's.
Recheck(p) ==
  /\ at[p] = "recheck"
  /\ at' = [at EXCEPT ![p] = IF cache[ask[p]] # "absent" THEN "use"
                             ELSE IF ask[p][2] # today THEN "miss" ELSE "ask"]
  /\ got' = [got EXCEPT ![p] = IF cache[ask[p]] = "absent" THEN "none" ELSE cache[ask[p]]]
  /\ raced' = [raced EXCEPT ![p] = FALSE]
  /\ UNCHANGED <<today, published, cache, ledgerVars, mode, ask, charts, failures, clean, todo,
                 known, aim>>

\* _store, whatever the cache says by now.
Store(p, verdict) ==
  /\ MayWrite(p)
  /\ cache' = [cache EXCEPT ![ask[p]] = verdict]
  /\ Committed
  /\ IF verdict = "null" THEN MissStored(p, ask[p]) ELSE PricesStored(p, {ask[p]})

\* The lookup is over.
Answer(p, verdict) ==
  /\ at' = [at EXCEPT ![p] = "use"]
  /\ got' = [got EXCEPT ![p] = verdict]
  /\ UNCHANGED <<today, published, mode, ask, charts, todo, aim>>

StoreMiss(p) ==
  /\ at[p] = "miss"
  /\ Store(p, "null")
  /\ Answer(p, "null")
  /\ UNCHANGED <<failures, clean>>

BreakerOpen(p) == failures[p] >= FailureLimit

\* What the provider's answer makes of the day: only a token DefiLlama does not know
\* is missed for good.
Verdict(p) ==
  IF ask[p][2] \in ProviderDays[ask[p][1]] THEN "priced"
  ELSE IF charts[p][ask[p][1]].state = "missing" THEN "null" ELSE "none"

AskProvider(p, ok) ==
  LET verdict == IF ok /\ ~BreakerOpen(p) THEN Verdict(p) ELSE "none"
  IN  /\ at[p] = "ask"
      /\ BreakerOpen(p) => ~ok
      /\ failures' = [failures EXCEPT ![p] = IF ok THEN 0 ELSE IF BreakerOpen(p) THEN @ ELSE @ + 1]
      /\ clean' = [clean EXCEPT ![p] = @ /\ ok]
      /\ IF verdict = "none" THEN UNCHANGED <<cache, ledgerVars, known, raced>> ELSE Store(p, verdict)
      /\ Answer(p, verdict)

-----------------------------------------------------------------------------
(* The callers *)

StartSync(p) ==
  /\ mode[p] = "idle"
  /\ mode' = [mode EXCEPT ![p] = "sync"]
  /\ known' = [known EXCEPT ![p] = published]
  /\ UNCHANGED <<today, published, cache, ledgerVars, lookupVars, todo, aim, raced>>

\* ingest_transfers, ingest_fees: a transfer's price is looked up whether its event
\* is there already or not.
LookForIngest(p, l) ==
  /\ mode[p] = "sync" /\ at[p] = "ready"
  /\ l[2] <= today
  /\ Look(p, l)

\* The lookup is done with: the run goes on to the next.
LookupDone(p) ==
  /\ at' = [at EXCEPT ![p] = "ready"]
  /\ ask' = [ask EXCEPT ![p] = None]
  /\ got' = [got EXCEPT ![p] = "none"]
  /\ raced' = [raced EXCEPT ![p] = FALSE]
  /\ UNCHANGED <<today, published, cache, mode, charts, failures, clean, known, aim>>

\* INSERT OR IGNORE of the event, in the batch's transaction.
Insert(p) ==
  LET event == {ask[p]} \ (unpriced \cup priced)
  IN  /\ mode[p] = "sync" /\ at[p] = "use"
      /\ MayWrite(p)
      /\ writer' = p
      /\ pending' = pending \cup event
      /\ IF got[p] = "priced" THEN priced' = priced \cup event /\ UNCHANGED unpriced
         ELSE unpriced' = unpriced \cup event /\ UNCHANGED priced
      /\ LookupDone(p)
      /\ UNCHANGED todo

\* A batch is in.
EndBatch(p) ==
  /\ mode[p] = "sync" /\ at[p] = "ready" /\ writer = p
  /\ Committed
  /\ UNCHANGED <<today, published, cache, mode, lookupVars, todo, historyVars>>

\* A bug: reprice trusts the misses it finds in the cache.
PurgedNot(l) == cache[l]

\* What reprice leaves: the cached misses go, of every token with an unpriced event.
Purged(l) ==
  IF cache[l] = "null" /\ \E u \in unpriced : u[1] = l[1] THEN "absent" ELSE cache[l]

\* reprice_events begins: the purge, in a transaction of its own.
StartReprice(p) ==
  /\ mode[p] = "idle"
  /\ writer = None
  /\ mode' = [mode EXCEPT ![p] = "reprice"]
  /\ at' = [at EXCEPT ![p] = "select"]
  /\ known' = [known EXCEPT ![p] = published]
  /\ cache' = [l \in Lookups |-> Purged(l)]
  /\ aim' = [aim EXCEPT ![p] = unpriced]
  /\ UNCHANGED <<today, published, ledgerVars, ask, got, charts, failures, clean, todo, raced>>

\* The unpriced events, as far as they are committed.
Select(p) ==
  /\ at[p] = "select"
  /\ at' = [at EXCEPT ![p] = "ready"]
  /\ todo' = [todo EXCEPT ![p] = IF writer = None THEN unpriced
                                 ELSE IF mode[writer] = "sync" THEN unpriced \ pending
                                 ELSE unpriced \cup pending]
  /\ UNCHANGED <<today, published, cache, ledgerVars, mode, ask, got, charts, failures, clean,
                 historyVars>>

\* Look up the next event.  (A token's transfers come oldest first, the fees after them
\* in the order they were booked in; any order is allowed here.)
LookForReprice(p, l) ==
  /\ mode[p] = "reprice" /\ at[p] = "ready"
  /\ l \in todo[p]
  /\ Look(p, l)

\* UPDATE the event, if there is a price.
Value(p) ==
  /\ mode[p] = "reprice" /\ at[p] = "use"
  /\ todo' = [todo EXCEPT ![p] = @ \ {ask[p]}]
  /\ IF got[p] = "priced"
     THEN /\ MayWrite(p)
          /\ writer' = p
          /\ pending' = pending \cup ({ask[p]} \cap unpriced)
          /\ priced' = priced \cup {ask[p]}
          /\ unpriced' = unpriced \ {ask[p]}
     ELSE UNCHANGED ledgerVars
  /\ LookupDone(p)

\* What is left of a run that has ended.
Gone(p) ==
  /\ mode' = [mode EXCEPT ![p] = "idle"]
  /\ at' = [at EXCEPT ![p] = "ready"]
  /\ todo' = [todo EXCEPT ![p] = {}]
  /\ ask' = [ask EXCEPT ![p] = None]
  /\ got' = [got EXCEPT ![p] = "none"]
  /\ charts' = [charts EXCEPT ![p] = [k \in Tokens |-> NoChart]]
  /\ failures' = [failures EXCEPT ![p] = 0]
  /\ clean' = [clean EXCEPT ![p] = TRUE]
  /\ known' = [known EXCEPT ![p] = {}]
  /\ aim' = [aim EXCEPT ![p] = {}]
  /\ raced' = [raced EXCEPT ![p] = FALSE]
  /\ UNCHANGED <<today, published, cache>>

\* A sync ends when its events are in; a reprice, when it has tried them all.
Finish(p) ==
  /\ at[p] = "ready"
  /\ \/ mode[p] = "sync" /\ writer # p /\ UNCHANGED ledgerVars
     \/ mode[p] = "reprice" /\ todo[p] = {} /\ IF writer = p THEN Committed ELSE UNCHANGED ledgerVars
  /\ Gone(p)

\* The process is killed, or the run raises (a locked database, after five seconds):
\* its open transaction is rolled back.
Die(p) ==
  /\ mode[p] # "idle"
  /\ Gone(p)
  /\ IF writer # p THEN UNCHANGED ledgerVars
     ELSE /\ writer' = None
          /\ pending' = {}
          /\ priced' = priced \ pending
          /\ unpriced' = IF mode[p] = "sync" THEN unpriced \ pending ELSE unpriced \cup pending

RunStep(p) ==
  \/ StartSync(p) \/ StartReprice(p) \/ Select(p)
  \/ \E l \in Lookups : LookForIngest(p, l) \/ LookForReprice(p, l)
  \/ \E ok \in BOOLEAN : FetchChart(p, ok) \/ AskProvider(p, ok)
  \/ Recheck(p) \/ StoreMiss(p)
  \/ Insert(p) \/ EndBatch(p) \/ Value(p) \/ Finish(p) \/ Die(p)

Next == Midnight \/ Publish \/ \E p \in Runs : RunStep(p)

Spec == Init /\ [][Next]_vars

-----------------------------------------------------------------------------

TypeOK ==
  /\ today \in Days
  /\ published \subseteq Lookups
  /\ cache \in [Lookups -> {"absent", "null", "priced"}]
  /\ unpriced \subseteq Lookups
  /\ priced \subseteq Lookups
  /\ writer \in Runs \cup {None}
  /\ pending \subseteq Lookups
  /\ mode \in [Runs -> {"idle", "sync", "reprice"}]
  /\ at \in [Runs -> {"ready", "select", "chart", "recheck", "miss", "ask", "use"}]
  /\ ask \in [Runs -> Lookups \cup {None}]
  /\ got \in [Runs -> {"none", "null", "priced"}]
  /\ charts \in [Runs -> [Tokens -> Charts]]
  /\ failures \in [Runs -> 0..FailureLimit]
  /\ todo \in [Runs -> SUBSET Lookups]
  /\ clean \in [Runs -> BOOLEAN]
  /\ known \in [Runs -> SUBSET Lookups]
  /\ aim \in [Runs -> SUBSET Lookups]
  /\ raced \in [Runs -> BOOLEAN]

\* Was the day among those the run's chart request asked for?
Covered(p, l) == l[2] \in Asked(charts[p][l[1]].from)

\* "Transient failures are NOT cached": a run never caches a miss for a day its chart
\* request asked for and whose point was out when the run began, however its requests
\* fail, unless another run has cached one meanwhile.
MissStep ==
  \A p \in Runs :
    at[p] \in {"miss", "ask"} /\ at'[p] = "use" /\ got'[p] = "null" =>
      ~(ask[p] \in known[p] /\ Covered(p, ask[p]))
MissesAreReal == [][MissStep]_vars

\* "Priced cache rows are untouched": no purge, failed refetch or chart takes back a
\* price the cache has, and no lookup does but one that another run overtook with a
\* price, and that ends as a miss.
PriceStep ==
  \A l \in Lookups : cache[l] = "priced" /\ cache'[l] # "priced" =>
    \E p \in Runs :
      at[p] \in {"miss", "ask"} /\ ask[p] = l /\ raced[p] /\ cache'[l] = "null"
PricesStay == [][PriceStep]_vars

\* What reprice is for: when it ends, and no request of it failed, every event that was
\* unpriced when it purged has a value, if the point of its day was out by then, its
\* chart request asked for it and no other run has cached a miss for it since; whatever
\* NULLs there were, and whatever sync, heal or second reprice ran or died beside it.
RepriceStep ==
  \A p \in Runs :
    mode[p] = "reprice" /\ at[p] = "ready" /\ todo[p] = {} /\ mode'[p] = "idle" /\ clean[p] =>
      \A l \in aim[p] \cap known[p] : Covered(p, l) => l \in priced
RepriceComplete == [][RepriceStep]_vars
=============================================================================
