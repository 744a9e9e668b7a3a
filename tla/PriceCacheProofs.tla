-------------------------- MODULE PriceCacheProofs --------------------------
(***************************************************************************)
(* Theorems about PriceCache, for any runs, tokens, charts, providers,     *)
(* poison and limits: no run caches a miss for a day its chart request     *)
(* asked for and found, a price in the cache is only taken back by a       *)
(* lookup that was overtaken, and a reprice none of whose requests failed  *)
(* leaves no event unpriced that it could have priced.                     *)
(***************************************************************************)
EXTENDS PriceCache, TLAPS

\* Where a lookup is under way.
Looking == {"chart", "recheck", "miss", "ask", "use"}

\* Points that are out are of days that have begun, and a run knows no others.
KnownInv ==
  /\ \A l \in published : l[2] <= today
  /\ \A p \in Runs : known[p] \subseteq published

\* What a run's place says of the rest of its state.
IdleInv(p) == mode[p] = "idle" => at[p] = "ready"
FreshInv(p) ==
  at[p] = "select" \/ mode[p] = "idle" => \A k \in Tokens : charts[p][k].state = "none"
SyncInv(p) ==
  /\ mode[p] # "reprice" => aim[p] = {} /\ todo[p] = {}
  /\ at[p] = "select" => mode[p] = "reprice" /\ todo[p] = {}
AskedInv(p) ==
  at[p] \in Looking =>
    /\ ask[p] \in Lookups
    /\ mode[p] # "idle"
    /\ at[p] \in {"recheck", "miss"} => charts[p][ask[p][1]].state = "ok"
    /\ at[p] = "chart" => NeedsChart(p, ask[p])
    /\ at[p] \in {"recheck", "miss", "ask"} => ~NeedsChart(p, ask[p])

PlaceInv(p) == IdleInv(p) /\ FreshInv(p) /\ SyncInv(p) /\ AskedInv(p)

\* A chart that is there has put what it asked for into the cache; one that found
\* nothing had nothing to find.
ChartInv(p) ==
  \A l \in known[p] : Covered(p, l) =>
    /\ charts[p][l[1]].state = "ok" => cache[l] = "priced"
    /\ charts[p][l[1]].state # "missing"

\* A lookup on its way to a miss is not one the chart had a point for.
LateInv(p) ==
  at[p] = "miss" \/ (at[p] = "ask" /\ charts[p][ask[p][1]].state = "ok") =>
    ~(ask[p] \in known[p] /\ Covered(p, ask[p]))

\* A lookup that the cache did not have was overtaken, if the cache has it now.
RaceInv(p) == at[p] \in {"chart", "miss", "ask"} /\ cache[ask[p]] = "priced" => raced[p]

CacheInv(p) == ChartInv(p) /\ LateInv(p) /\ RaceInv(p)

\* The ledger: what is pending is the open transaction's, and never an event that a
\* reprice aims at, unless another reprice is about to value it.
LedgerInv ==
  /\ priced \cap unpriced = {}
  /\ writer = None => pending = {}
  /\ \A p \in Runs : /\ aim[p] \subseteq unpriced \cup priced
                     /\ aim[p] \cap pending # {} => mode[writer] = "reprice"

\* A failed request is one the run knows of.
FailedInv(p) == clean[p] => \A k \in Tokens : charts[p][k].state # "failed"

\* Its chart will not be asked for again, and was not asked for this day.
Beyond(p, l) == ~NeedsChart(p, l) /\ ~Covered(p, l)

\* The misses a reprice finds, and those it comes to, are days beyond its chart.
NullInv(p) ==
  \A l \in aim[p] \cap known[p] :
    /\ cache[l] = "null" => Beyond(p, l)
    /\ at[p] = "use" /\ ask[p] = l /\ got[p] # "priced" => ~clean[p] \/ Beyond(p, l)

\* Each event a reprice aims at is still to be looked up, or valued for good, or one it
\* could not price.
OweInv(p) ==
  at[p] # "select" =>
    \A l \in aim[p] \cap known[p] :
      \/ l \in todo[p]
      \/ l \in priced /\ (l \in pending => writer = p)
      \/ ~clean[p] \/ Beyond(p, l)

RepriceInv(p) == FailedInv(p) /\ NullInv(p) /\ OweInv(p)

PriceInv ==
  /\ TypeOK
  /\ KnownInv
  /\ LedgerInv
  /\ \A p \in Runs : PlaceInv(p) /\ CacheInv(p) /\ RepriceInv(p)

-----------------------------------------------------------------------------
(* Types *)

\* What a chart request leaves is a chart.
LEMMA FetchedTyped ==
  ASSUME NEW l \in Lookups, NEW ok \in BOOLEAN
  PROVE  Fetched(l, ok) \in Charts /\ Fetched(l, ok).from = l[2] /\ Fetched(l, ok).state # "none"
<1>1. l[2] \in Days
  BY DEF Lookups
<1>2. QED
  BY <1>1 DEF Fetched, Charts

\* Where a run goes on after a look in the cache.
LEMMA LookTyped ==
  ASSUME TypeOK, NEW p \in Runs, NEW l \in Lookups, Look(p, l)
  PROVE  TypeOK'
<1>1. cache[l] \in {"absent", "null", "priced"}
  BY DEF TypeOK
<1>2. /\ at' \in [Runs -> {"ready", "select", "chart", "recheck", "miss", "ask", "use"}]
      /\ got' \in [Runs -> {"none", "null", "priced"}]
  BY <1>1 DEF Look, TypeOK, PastChart
<1>3. ask' \in [Runs -> Lookups \cup {None}] /\ raced' \in [Runs -> BOOLEAN]
  BY DEF Look, TypeOK
<1>4. QED
  BY <1>2, <1>3 DEF Look, TypeOK, ledgerVars

\* What a provider's answer may come to.
LEMMA VerdictTyped ==
  ASSUME NEW p \in Runs
  PROVE  Verdict(p) \in {"priced", "null", "none"}
  BY DEF Verdict

\* What storing a verdict leaves.
LEMMA StoreTyped ==
  ASSUME TypeOK, NEW p \in Runs, NEW verdict \in {"priced", "null"}, Store(p, verdict)
  PROVE  /\ cache' \in [Lookups -> {"absent", "null", "priced"}]
         /\ unpriced' = unpriced /\ priced' = priced /\ writer' = None /\ pending' = {}
         /\ known' \in [Runs -> SUBSET Lookups] /\ raced' \in [Runs -> BOOLEAN]
<1>1. cache' \in [Lookups -> {"absent", "null", "priced"}] /\ Committed
  BY DEF Store, TypeOK
<1>2. MissStored(p, ask[p]) \/ PricesStored(p, {ask[p]})
  BY DEF Store
<1>3. known' \in [Runs -> SUBSET Lookups] /\ raced' \in [Runs -> BOOLEAN]
  <2>1. CASE MissStored(p, ask[p])
    BY <2>1 DEF MissStored, TypeOK
  <2>2. CASE PricesStored(p, {ask[p]})
    BY <2>2 DEF PricesStored, TypeOK
  <2>3. QED
    BY <1>2, <2>1, <2>2
<1>4. QED
  BY <1>1, <1>3 DEF Committed

\* Every step of a run keeps the types.
LEMMA RunTyped ==
  ASSUME TypeOK, NEW p \in Runs, RunStep(p), \A q \in Runs : AskedInv(q)
  PROVE  TypeOK'
<1>1. CASE StartSync(p)
  BY <1>1 DEF StartSync, TypeOK, ledgerVars, lookupVars
<1>2. CASE StartReprice(p)
  <2>1. cache' \in [Lookups -> {"absent", "null", "priced"}]
    BY <1>2 DEF StartReprice, Purged, TypeOK
  <2>2. QED
    BY <1>2, <2>1 DEF StartReprice, TypeOK, ledgerVars
<1>3. CASE Select(p)
  BY <1>3 DEF Select, TypeOK, ledgerVars, historyVars
<1>4. ASSUME NEW l \in Lookups, LookForIngest(p, l) \/ LookForReprice(p, l) PROVE TypeOK'
  BY <1>4, LookTyped DEF LookForIngest, LookForReprice
<1>5. ASSUME NEW ok \in BOOLEAN, FetchChart(p, ok) PROVE TypeOK'
  <2>1. ask[p] \in Lookups /\ at[p] = "chart"
    BY <1>5 DEF FetchChart, AskedInv, Looking
  <2>2. ask[p][1] \in Tokens /\ Fetched(ask[p], ok) \in Charts
    BY <2>1, FetchedTyped DEF Lookups
  <2>3. charts' \in [Runs -> [Tokens -> Charts]]
    BY <1>5, <2>2 DEF FetchChart, TypeOK
  <2>4. cache' \in [Lookups -> {"absent", "null", "priced"}]
    BY <1>5 DEF FetchChart, WithChart, TypeOK
  <2>5. /\ unpriced' \in SUBSET Lookups /\ priced' \in SUBSET Lookups
        /\ writer' \in Runs \cup {None} /\ pending' \in SUBSET Lookups
        /\ known' \in [Runs -> SUBSET Lookups] /\ raced' \in [Runs -> BOOLEAN]
    BY <1>5 DEF FetchChart, Committed, PricesStored, ledgerVars, TypeOK
  <2>6. at' \in [Runs -> {"ready", "select", "chart", "recheck", "miss", "ask", "use"}]
    BY <1>5 DEF FetchChart, PastChart, TypeOK
  <2>7. clean' \in [Runs -> BOOLEAN]
    BY <1>5 DEF FetchChart, TypeOK
  <2>8. QED
    BY <1>5, <2>3, <2>4, <2>5, <2>6, <2>7 DEF FetchChart, TypeOK
<1>6. ASSUME NEW ok \in BOOLEAN, AskProvider(p, ok) PROVE TypeOK'
  <2> DEFINE verdict == IF ok /\ ~BreakerOpen(p) THEN Verdict(p) ELSE "none"
  <2>1. verdict \in {"priced", "null", "none"}
    BY VerdictTyped
  <2>2. /\ IF verdict = "none" THEN UNCHANGED <<cache, ledgerVars, known, raced>> ELSE Store(p, verdict)
        /\ Answer(p, verdict)
    BY <1>6 DEF AskProvider
  <2>3. failures' \in [Runs -> 0..FailureLimit]
    <3>1. failures[p] \in 0..FailureLimit
      BY DEF TypeOK
    <3>2. (IF ok THEN 0 ELSE IF BreakerOpen(p) THEN failures[p] ELSE failures[p] + 1) \in 0..FailureLimit
      BY <3>1, PriceAssumption DEF BreakerOpen
    <3>3. failures' = [failures EXCEPT ![p] = IF ok THEN 0 ELSE IF BreakerOpen(p) THEN failures[p]
                                              ELSE failures[p] + 1]
      BY <1>6 DEF AskProvider
    <3>4. QED
      BY <3>2, <3>3 DEF TypeOK
  <2>4. clean' \in [Runs -> BOOLEAN]
    BY <1>6 DEF AskProvider, TypeOK
  <2> HIDE DEF verdict
  <2>5. /\ cache' \in [Lookups -> {"absent", "null", "priced"}]
        /\ unpriced' \in SUBSET Lookups /\ priced' \in SUBSET Lookups
        /\ writer' \in Runs \cup {None} /\ pending' \in SUBSET Lookups
        /\ known' \in [Runs -> SUBSET Lookups] /\ raced' \in [Runs -> BOOLEAN]
    <3>1. CASE verdict = "none"
      BY <2>2, <3>1 DEF ledgerVars, TypeOK
    <3>2. CASE verdict # "none"
      BY <2>1, <2>2, <3>2, StoreTyped DEF TypeOK
    <3>3. QED
      BY <3>1, <3>2
  <2>6. QED
    BY <2>1, <2>2, <2>3, <2>4, <2>5 DEF Answer, TypeOK
<1>7. CASE Recheck(p)
  <2>1. ask[p] \in Lookups /\ cache[ask[p]] \in {"absent", "null", "priced"}
    BY <1>7 DEF Recheck, AskedInv, Looking, TypeOK
  <2>2. /\ at' \in [Runs -> {"ready", "select", "chart", "recheck", "miss", "ask", "use"}]
        /\ got' \in [Runs -> {"none", "null", "priced"}] /\ raced' \in [Runs -> BOOLEAN]
    BY <1>7, <2>1 DEF Recheck, TypeOK
  <2>3. QED
    BY <1>7, <2>2 DEF Recheck, TypeOK, ledgerVars
<1>8. CASE StoreMiss(p)
  <2>1. Store(p, "null") /\ Answer(p, "null") /\ UNCHANGED <<failures, clean>>
    BY <1>8 DEF StoreMiss
  <2>2. QED
    BY <2>1, StoreTyped DEF Answer, TypeOK
<1>9. CASE Insert(p)
  <2>1. ask[p] \in Lookups
    BY <1>9 DEF Insert, AskedInv, Looking
  <2>2. /\ unpriced' \in SUBSET Lookups /\ priced' \in SUBSET Lookups
        /\ writer' \in Runs \cup {None} /\ pending' \in SUBSET Lookups
    BY <1>9, <2>1 DEF Insert, TypeOK
  <2>3. QED
    BY <1>9, <2>2 DEF Insert, LookupDone, TypeOK
<1>10. CASE EndBatch(p)
  BY <1>10 DEF EndBatch, Committed, lookupVars, historyVars, TypeOK
<1>11. CASE Value(p)
  <2>1. ask[p] \in Lookups
    BY <1>11 DEF Value, AskedInv, Looking
  <2>2. /\ unpriced' \in SUBSET Lookups /\ priced' \in SUBSET Lookups
        /\ writer' \in Runs \cup {None} /\ pending' \in SUBSET Lookups
    BY <1>11, <2>1 DEF Value, ledgerVars, TypeOK
  <2>3. todo' \in [Runs -> SUBSET Lookups]
    BY <1>11 DEF Value, TypeOK
  <2>4. QED
    BY <1>11, <2>2, <2>3 DEF Value, LookupDone, TypeOK
<1>12. ASSUME Gone(p),
              unpriced' \in SUBSET Lookups, priced' \in SUBSET Lookups,
              writer' \in Runs \cup {None}, pending' \in SUBSET Lookups
       PROVE  TypeOK'
  <2>1. [k \in Tokens |-> NoChart] \in [Tokens -> Charts]
    BY PriceAssumption DEF NoChart, Charts, Days
  <2>2. 0 \in 0..FailureLimit
    BY PriceAssumption
  <2>3. QED
    BY <1>12, <2>1, <2>2 DEF Gone, TypeOK
<1>13. CASE Finish(p)
  BY <1>12, <1>13 DEF Finish, Committed, ledgerVars, TypeOK
<1>14. CASE Die(p)
  BY <1>12, <1>14 DEF Die, ledgerVars, TypeOK
<1>15. QED
  BY <1>1, <1>2, <1>3, <1>4, <1>5, <1>6, <1>7, <1>8, <1>9, <1>10, <1>11, <1>13, <1>14 DEF RunStep

-----------------------------------------------------------------------------
(* What a step of one run is to the others *)

\* Another run keeps its place, and learns of misses and overtakes at most.
LEMMA Others ==
  ASSUME TypeOK, NEW p \in Runs, RunStep(p), NEW q \in Runs, q # p
  PROVE  /\ mode'[q] = mode[q] /\ at'[q] = at[q] /\ ask'[q] = ask[q] /\ got'[q] = got[q]
         /\ charts'[q] = charts[q] /\ clean'[q] = clean[q]
         /\ todo'[q] = todo[q] /\ aim'[q] = aim[q]
         /\ known'[q] \subseteq known[q]
         /\ raced[q] => raced'[q]
<1>1. CASE StartSync(p)
  BY <1>1 DEF StartSync, TypeOK, lookupVars
<1>2. CASE StartReprice(p)
  BY <1>2 DEF StartReprice, TypeOK
<1>3. CASE Select(p)
  BY <1>3 DEF Select, TypeOK, historyVars
<1>4. ASSUME NEW l \in Lookups, LookForIngest(p, l) \/ LookForReprice(p, l)
      PROVE  /\ mode'[q] = mode[q] /\ at'[q] = at[q] /\ ask'[q] = ask[q] /\ got'[q] = got[q]
             /\ charts'[q] = charts[q] /\ clean'[q] = clean[q]
             /\ todo'[q] = todo[q] /\ aim'[q] = aim[q]
             /\ known'[q] \subseteq known[q]
             /\ raced[q] => raced'[q]
  <2>1. Look(p, l)
    BY <1>4 DEF LookForIngest, LookForReprice
  <2>2. QED
    BY <2>1 DEF Look, TypeOK
<1>5. ASSUME NEW ok \in BOOLEAN, FetchChart(p, ok)
      PROVE  /\ mode'[q] = mode[q] /\ at'[q] = at[q] /\ ask'[q] = ask[q] /\ got'[q] = got[q]
             /\ charts'[q] = charts[q] /\ clean'[q] = clean[q]
             /\ todo'[q] = todo[q] /\ aim'[q] = aim[q]
             /\ known'[q] \subseteq known[q]
             /\ raced[q] => raced'[q]
  <2>1. known'[q] \subseteq known[q] /\ (raced[q] => raced'[q])
    BY <1>5 DEF FetchChart, PricesStored, TypeOK
  <2>2. QED
    BY <1>5, <2>1 DEF FetchChart, TypeOK
<1>6. ASSUME NEW verdict, Store(p, verdict)
      PROVE  known'[q] \subseteq known[q] /\ (raced[q] => raced'[q])
  <2>1. MissStored(p, ask[p]) \/ PricesStored(p, {ask[p]})
    BY <1>6 DEF Store
  <2>2. CASE MissStored(p, ask[p])
    BY <2>2 DEF MissStored, TypeOK
  <2>3. CASE PricesStored(p, {ask[p]})
    BY <2>3 DEF PricesStored, TypeOK
  <2>4. QED
    BY <2>1, <2>2, <2>3
<1>7. ASSUME NEW ok \in BOOLEAN, AskProvider(p, ok)
      PROVE  /\ mode'[q] = mode[q] /\ at'[q] = at[q] /\ ask'[q] = ask[q] /\ got'[q] = got[q]
             /\ charts'[q] = charts[q] /\ clean'[q] = clean[q]
             /\ todo'[q] = todo[q] /\ aim'[q] = aim[q]
             /\ known'[q] \subseteq known[q]
             /\ raced[q] => raced'[q]
  <2> DEFINE verdict == IF ok /\ ~BreakerOpen(p) THEN Verdict(p) ELSE "none"
  <2>1. /\ IF verdict = "none" THEN UNCHANGED <<cache, ledgerVars, known, raced>> ELSE Store(p, verdict)
        /\ Answer(p, verdict)
        /\ clean'[q] = clean[q]
    BY <1>7 DEF AskProvider, TypeOK
  <2> HIDE DEF verdict
  <2>2. known'[q] \subseteq known[q] /\ (raced[q] => raced'[q])
    BY <1>6, <2>1
  <2>3. QED
    BY <2>1, <2>2 DEF Answer, TypeOK
<1>8. CASE Recheck(p)
  BY <1>8 DEF Recheck, TypeOK
<1>9. CASE StoreMiss(p)
  <2>1. Store(p, "null") /\ Answer(p, "null") /\ UNCHANGED <<failures, clean>>
    BY <1>9 DEF StoreMiss
  <2>2. known'[q] \subseteq known[q] /\ (raced[q] => raced'[q])
    BY <1>6, <2>1
  <2>3. QED
    BY <2>1, <2>2 DEF Answer, TypeOK
<1>10. CASE Insert(p)
  BY <1>10 DEF Insert, LookupDone, TypeOK
<1>11. CASE EndBatch(p)
  BY <1>11 DEF EndBatch, lookupVars, historyVars
<1>12. CASE Value(p)
  BY <1>12 DEF Value, LookupDone, TypeOK
<1>13. CASE Gone(p)
  BY <1>13 DEF Gone, TypeOK
<1>14. CASE Finish(p) \/ Die(p)
  BY <1>13, <1>14 DEF Finish, Die
<1>15. QED
  BY <1>1, <1>2, <1>3, <1>4, <1>5, <1>7, <1>8, <1>9, <1>10, <1>11, <1>12, <1>14 DEF RunStep

\* A late miss of run p.
CachesMiss(p, l) ==
  /\ cache'[l] = "null" /\ l = ask[p] /\ at'[p] = "use"
  /\ at[p] = "miss" \/ (at[p] = "ask" /\ charts[p][l[1]].state = "missing")
  /\ charts'[p] = charts[p] /\ known'[p] = known[p]
  /\ \A q \in Runs : q # p => l \notin known'[q]

\* A price of run p.
CachesPrice(p, l) ==
  /\ cache'[l] = "priced"
  /\ at'[p] \in {"recheck", "use"}
  /\ \A q \in Runs : q # p /\ at[q] # "use" /\ ask[q] = l => raced'[q]

\* What a step of a run does to a row of the cache.
LEMMA RowStep ==
  ASSUME TypeOK, \A q \in Runs : AskedInv(q), NEW p \in Runs, RunStep(p), NEW l \in Lookups
  PROVE  \/ cache'[l] = cache[l]
         \/ CachesPrice(p, l)
         \/ CachesMiss(p, l)
         \/ cache[l] = "null" /\ cache'[l] = "absent"
<1>1. CASE StartSync(p) \/ Select(p) \/ Recheck(p) \/ Insert(p) \/ EndBatch(p) \/ Value(p)
  BY <1>1 DEF StartSync, Select, Recheck, Insert, EndBatch, Value, LookupDone
<1>2. CASE StartReprice(p)
  BY <1>2 DEF StartReprice, Purged
<1>3. ASSUME NEW m \in Lookups, LookForIngest(p, m) \/ LookForReprice(p, m)
      PROVE  cache'[l] = cache[l]
  BY <1>3 DEF LookForIngest, LookForReprice, Look
<1>4. ASSUME NEW ok \in BOOLEAN, FetchChart(p, ok)
      PROVE  cache'[l] = cache[l] \/ CachesPrice(p, l)
  <2>1. CASE Fetched(ask[p], ok).state = "ok" /\ l \in Window(ask[p])
    <3>1. cache'[l] = "priced" /\ PricesStored(p, Window(ask[p])) /\ at'[p] = "recheck"
      BY <1>4, <2>1 DEF FetchChart, WithChart, PastChart, TypeOK
    <3>2. QED
      BY <2>1, <3>1 DEF CachesPrice, PricesStored
  <2>2. CASE ~(Fetched(ask[p], ok).state = "ok" /\ l \in Window(ask[p]))
    BY <1>4, <2>2 DEF FetchChart, WithChart
  <2>3. QED
    BY <2>1, <2>2
<1>5. ASSUME Store(p, "priced"), at'[p] = "use"
      PROVE  cache'[l] = cache[l] \/ CachesPrice(p, l)
  <2>1. cache' = [cache EXCEPT ![ask[p]] = "priced"] /\ PricesStored(p, {ask[p]})
    BY <1>5 DEF Store
  <2>2. QED
    BY <1>5, <2>1 DEF CachesPrice, PricesStored, TypeOK
<1>6. ASSUME Store(p, "null"), at'[p] = "use", charts' = charts,
             at[p] = "miss" \/ (at[p] = "ask" /\ charts[p][ask[p][1]].state = "missing")
      PROVE  cache'[l] = cache[l] \/ CachesMiss(p, l)
  <2>1. cache' = [cache EXCEPT ![ask[p]] = "null"] /\ MissStored(p, ask[p])
    BY <1>6 DEF Store
  <2>2. known'[p] = known[p] /\ \A q \in Runs : q # p => ask[p] \notin known'[q]
    BY <2>1 DEF MissStored
  <2>3. QED
    BY <1>6, <2>1, <2>2 DEF CachesMiss, TypeOK
<1>7. ASSUME NEW ok \in BOOLEAN, AskProvider(p, ok)
      PROVE  cache'[l] = cache[l] \/ CachesPrice(p, l) \/ CachesMiss(p, l)
  <2> DEFINE verdict == IF ok /\ ~BreakerOpen(p) THEN Verdict(p) ELSE "none"
  <2>1. /\ IF verdict = "none" THEN UNCHANGED <<cache, ledgerVars, known, raced>> ELSE Store(p, verdict)
        /\ Answer(p, verdict)
        /\ at[p] = "ask"
    BY <1>7 DEF AskProvider
  <2>2. verdict \in {"priced", "null", "none"}
    BY VerdictTyped
  <2>3. verdict = "null" => charts[p][ask[p][1]].state = "missing"
    BY DEF Verdict
  <2> HIDE DEF verdict
  <2>4. at'[p] = "use" /\ charts' = charts
    BY <2>1 DEF Answer, TypeOK
  <2>5. QED
    BY <1>5, <1>6, <2>1, <2>2, <2>3, <2>4
<1>8. CASE StoreMiss(p)
  <2>1. Store(p, "null") /\ at'[p] = "use" /\ charts' = charts /\ at[p] = "miss"
    BY <1>8 DEF StoreMiss, Answer, TypeOK
  <2>2. QED
    BY <1>6, <2>1
<1>9. CASE Finish(p) \/ Die(p)
  BY <1>9 DEF Finish, Die, Gone
<1>10. QED
  BY <1>1, <1>2, <1>3, <1>4, <1>7, <1>8, <1>9 DEF RunStep

-----------------------------------------------------------------------------
(* The ledger *)

\* A step of a run leaves the ledger to another's open transaction, and never takes
\* back a value that is committed.
LEMMA LedgerStep ==
  ASSUME TypeOK, LedgerInv, NEW p \in Runs, RunStep(p)
  PROVE  /\ writer \notin {None, p} => UNCHANGED ledgerVars
         /\ priced \ pending \subseteq priced' \ pending'
<1>1. CASE UNCHANGED ledgerVars
  BY <1>1 DEF ledgerVars
<1>2. CASE MayWrite(p) /\ Committed
  BY <1>2 DEF MayWrite, Committed
<1>3. CASE Insert(p)
  BY <1>3 DEF Insert, MayWrite
<1>4. CASE Value(p)
  <2>1. CASE got[p] = "priced"
    BY <1>4, <2>1 DEF Value, MayWrite, LedgerInv
  <2>2. QED
    BY <1>1, <1>4, <2>1 DEF Value
<1>5. CASE Die(p)
  BY <1>5 DEF Die, ledgerVars
<1>6. CASE Finish(p)
  BY <1>1, <1>2, <1>6 DEF Finish, MayWrite
<1>7. CASE EndBatch(p)
  BY <1>2, <1>7 DEF EndBatch, MayWrite
<1>8. CASE StartSync(p) \/ StartReprice(p) \/ Select(p) \/ Recheck(p)
  BY <1>1, <1>8 DEF StartSync, StartReprice, Select, Recheck
<1>9. ASSUME NEW l \in Lookups, LookForIngest(p, l) \/ LookForReprice(p, l) PROVE UNCHANGED ledgerVars
  BY <1>9 DEF LookForIngest, LookForReprice, Look
<1>10. ASSUME NEW ok \in BOOLEAN, FetchChart(p, ok) \/ AskProvider(p, ok)
       PROVE  UNCHANGED ledgerVars \/ (MayWrite(p) /\ Committed)
  BY <1>10 DEF FetchChart, AskProvider, Store, ledgerVars
<1>11. CASE StoreMiss(p)
  BY <1>2, <1>11 DEF StoreMiss, Store
<1>12. QED
  BY <1>1, <1>2, <1>3, <1>4, <1>5, <1>6, <1>7, <1>8, <1>9, <1>10, <1>11 DEF RunStep

\* Every step of a run keeps the ledger in order.
LEMMA LedgerKept ==
  ASSUME PriceInv, NEW p \in Runs, RunStep(p)
  PROVE  LedgerInv'
<1>t. TypeOK /\ LedgerInv /\ \A q \in Runs : SyncInv(q) /\ AskedInv(q)
  BY DEF PriceInv, PlaceInv
<1>1. ASSUME UNCHANGED <<ledgerVars, mode, aim>> PROVE LedgerInv'
  BY <1>t, <1>1 DEF LedgerInv, ledgerVars
<1>2. ASSUME Committed, UNCHANGED <<mode, aim>> PROVE LedgerInv'
  BY <1>t, <1>2 DEF LedgerInv, Committed
<1>3. CASE StartSync(p)
  BY <1>t, <1>3 DEF StartSync, LedgerInv, ledgerVars, TypeOK
<1>4. CASE StartReprice(p)
  BY <1>t, <1>4 DEF StartReprice, LedgerInv, ledgerVars, TypeOK
<1>5. CASE Insert(p)
  <2> DEFINE event == {ask[p]} \ (unpriced \cup priced)
  <2>1. /\ mode[p] = "sync" /\ writer \in {None, p} /\ writer' = p /\ pending' = pending \cup event
        /\ \/ priced' = priced \cup event /\ unpriced' = unpriced
           \/ unpriced' = unpriced \cup event /\ priced' = priced
        /\ mode' = mode /\ aim' = aim
    BY <1>5 DEF Insert, MayWrite, LookupDone
  <2>2. event \cap (unpriced \cup priced) = {}
    OBVIOUS
  <2> HIDE DEF event
  <2>3. \A q \in Runs : aim[q] \cap pending' = {}
    BY <1>t, <2>1, <2>2 DEF LedgerInv
  <2>4. priced' \cap unpriced' = {} /\ \A q \in Runs : aim[q] \subseteq unpriced' \cup priced'
    BY <1>t, <2>1, <2>2 DEF LedgerInv
  <2>5. writer' # None
    BY <2>1, SourceAssumption
  <2>6. QED
    BY <2>1, <2>3, <2>4, <2>5 DEF LedgerInv
<1>6. CASE Value(p)
  <2>1. CASE got[p] = "priced"
    <3>1. /\ mode[p] = "reprice" /\ writer' = p
          /\ priced' = priced \cup {ask[p]} /\ unpriced' = unpriced \ {ask[p]}
          /\ mode' = mode /\ aim' = aim
      BY <1>6, <2>1 DEF Value, LookupDone
    <3>2. QED
      BY <1>t, <3>1, SourceAssumption DEF LedgerInv
  <2>2. QED
    BY <1>1, <1>6, <2>1 DEF Value, LookupDone
<1>7. ASSUME Gone(p)
      PROVE  /\ aim'[p] = {} /\ \A q \in Runs : q # p => aim'[q] = aim[q] /\ mode'[q] = mode[q]
  BY <1>t, <1>7 DEF Gone, TypeOK
<1>8. CASE Finish(p)
  <2>1. CASE Committed
    BY <1>t, <1>7, <1>8, <2>1 DEF Finish, LedgerInv, Committed
  <2>2. CASE UNCHANGED ledgerVars /\ writer # p
    <3>1. writer \in Runs => mode'[writer] = mode[writer]
      BY <1>7, <1>8, <2>2 DEF Finish
    <3>2. \A q \in Runs : aim[q] \cap pending # {} => writer \in Runs
      BY <1>t DEF LedgerInv, TypeOK
    <3>3. \A q \in Runs : aim'[q] \subseteq aim[q]
      BY <1>7, <1>8 DEF Finish
    <3>4. QED
      BY <1>t, <2>2, <3>1, <3>2, <3>3 DEF LedgerInv, ledgerVars
  <2>3. QED
    BY <1>8, <2>1, <2>2 DEF Finish
<1>9. CASE Die(p)
  <2>3. \A q \in Runs : aim'[q] \subseteq aim[q]
    BY <1>7, <1>9 DEF Die
  <2>1. CASE writer = p
    <3>1. /\ writer' = None /\ pending' = {} /\ priced' = priced \ pending
          /\ unpriced' = IF mode[p] = "sync" THEN unpriced \ pending ELSE unpriced \cup pending
      BY <1>9, <2>1 DEF Die
    <3>2. mode[p] = "sync" => \A q \in Runs : aim[q] \cap pending = {}
      BY <1>t, <2>1 DEF LedgerInv
    <3>3. \A q \in Runs : aim[q] \subseteq unpriced' \cup priced'
      BY <1>t, <3>1, <3>2 DEF LedgerInv
    <3>4. QED
      BY <1>t, <2>3, <3>1, <3>3 DEF LedgerInv
  <2>2. CASE writer # p
    <3>1. writer \in Runs => mode'[writer] = mode[writer]
      BY <1>7, <1>9, <2>2 DEF Die
    <3>2. \A q \in Runs : aim[q] \cap pending # {} => writer \in Runs
      BY <1>t DEF LedgerInv, TypeOK
    <3>3. UNCHANGED ledgerVars
      BY <1>9, <2>2 DEF Die
    <3>4. QED
      BY <1>t, <2>3, <3>1, <3>2, <3>3 DEF LedgerInv, ledgerVars
  <2>4. QED
    BY <2>1, <2>2
<1>10. CASE Select(p) \/ Recheck(p)
  BY <1>1, <1>10 DEF Select, Recheck, historyVars
<1>11. CASE EndBatch(p)
  BY <1>2, <1>11 DEF EndBatch, historyVars
<1>12. ASSUME NEW l \in Lookups, LookForIngest(p, l) \/ LookForReprice(p, l)
       PROVE  UNCHANGED <<ledgerVars, mode, aim>>
  BY <1>12 DEF LookForIngest, LookForReprice, Look
<1>13. ASSUME NEW ok \in BOOLEAN, FetchChart(p, ok) \/ AskProvider(p, ok)
       PROVE  UNCHANGED <<mode, aim>> /\ (UNCHANGED ledgerVars \/ Committed)
  BY <1>13 DEF FetchChart, AskProvider, Store, Answer, ledgerVars
<1>14. CASE StoreMiss(p)
  BY <1>2, <1>14 DEF StoreMiss, Store, Answer
<1>15. QED
  BY <1>1, <1>2, <1>3, <1>4, <1>5, <1>6, <1>8, <1>9, <1>10, <1>11, <1>12, <1>13, <1>14 DEF RunStep

-----------------------------------------------------------------------------
(* What a step of one run leaves of the others' invariants *)

LEMMA OthersKeep ==
  ASSUME PriceInv, NEW p \in Runs, RunStep(p), NEW q \in Runs, q # p
  PROVE  PlaceInv(q)' /\ CacheInv(q)' /\ RepriceInv(q)'
<1>t. /\ TypeOK /\ LedgerInv /\ KnownInv /\ \A r \in Runs : AskedInv(r)
      /\ PlaceInv(q) /\ CacheInv(q) /\ RepriceInv(q)
  BY DEF PriceInv, PlaceInv
<1>o. /\ mode'[q] = mode[q] /\ at'[q] = at[q] /\ ask'[q] = ask[q] /\ got'[q] = got[q]
      /\ charts'[q] = charts[q] /\ clean'[q] = clean[q]
      /\ todo'[q] = todo[q] /\ aim'[q] = aim[q]
      /\ known'[q] \subseteq known[q]
      /\ raced[q] => raced'[q]
  BY <1>t, Others
<1>r. \A l \in Lookups : \/ cache'[l] = cache[l]
                         \/ CachesPrice(p, l)
                         \/ CachesMiss(p, l)
                         \/ cache[l] = "null" /\ cache'[l] = "absent"
  BY <1>t, RowStep
<1>k. known[q] \subseteq Lookups /\ (at[q] \in Looking => ask[q] \in Lookups)
  BY <1>t DEF TypeOK, AskedInv
<1>1. PlaceInv(q)'
  BY <1>t, <1>o DEF PlaceInv, IdleInv, FreshInv, SyncInv, AskedInv, NeedsChart
<1>c. \A l : Covered(q, l)' = Covered(q, l)
  BY <1>o DEF Covered
<1>2. ChartInv(q)'
  <2> SUFFICES ASSUME NEW l \in known'[q], Covered(q, l)
               PROVE  /\ charts'[q][l[1]].state = "ok" => cache'[l] = "priced"
                      /\ charts'[q][l[1]].state # "missing"
    BY <1>c DEF ChartInv
  <2>1. l \in known[q] /\ l \in Lookups
    BY <1>o, <1>k
  <2>2. ~CachesMiss(p, l)
    BY DEF CachesMiss
  <2>3. QED
    BY <1>t, <1>o, <1>r, <2>1, <2>2 DEF CacheInv, ChartInv, CachesPrice
<1>3. LateInv(q)'
  BY <1>t, <1>o, <1>c DEF CacheInv, LateInv
<1>4. RaceInv(q)'
  <2> SUFFICES ASSUME at[q] \in {"chart", "miss", "ask"}, cache'[ask[q]] = "priced" PROVE raced'[q]
    BY <1>o DEF RaceInv
  <2>1. ask[q] \in Lookups
    BY <1>k DEF Looking
  <2>2. ~CachesMiss(p, ask[q])
    BY DEF CachesMiss
  <2>3. cache'[ask[q]] = cache[ask[q]] \/ CachesPrice(p, ask[q])
    BY <1>r, <2>1, <2>2
  <2>4. QED
    BY <1>t, <1>o, <2>3 DEF CacheInv, RaceInv, CachesPrice
<1>5. FailedInv(q)'
  BY <1>t, <1>o DEF RepriceInv, FailedInv
<1>b. \A l : Beyond(q, l)' = Beyond(q, l)
  BY <1>o, <1>c DEF Beyond, NeedsChart
<1>6. NullInv(q)'
  <2> SUFFICES ASSUME NEW l \in aim'[q] \cap known'[q]
               PROVE  /\ cache'[l] = "null" => Beyond(q, l)
                      /\ at'[q] = "use" /\ ask'[q] = l /\ got'[q] # "priced"
                           => ~clean'[q] \/ Beyond(q, l)
    BY <1>b DEF NullInv
  <2>1. l \in aim[q] \cap known[q] /\ l \in Lookups
    BY <1>o, <1>k
  <2>2. ~CachesMiss(p, l)
    BY DEF CachesMiss
  <2>3. cache'[l] = "null" => cache[l] = "null"
    BY <1>r, <2>1, <2>2 DEF CachesPrice
  <2>4. QED
    BY <1>t, <1>o, <2>1, <2>3 DEF RepriceInv, NullInv
<1>7. OweInv(q)'
  <2> SUFFICES ASSUME at[q] # "select", NEW l \in aim[q] \cap known[q]
               PROVE  \/ l \in todo[q]
                      \/ l \in priced' /\ (l \in pending' => writer' = q)
                      \/ ~clean[q] \/ Beyond(q, l)
    BY <1>o, <1>b DEF OweInv
  <2>1. CASE l \in priced /\ (l \in pending => writer = q)
    <3>1. CASE writer = q
      <4>1. q # None
        BY SourceAssumption
      <4>2. UNCHANGED ledgerVars
        BY <1>t, <3>1, <4>1, LedgerStep
      <4>3. QED
        BY <2>1, <4>2 DEF ledgerVars
    <3>2. CASE l \notin pending
      BY <1>t, <2>1, <3>2, LedgerStep
    <3>3. QED
      BY <2>1, <3>1, <3>2
  <2>2. QED
    BY <1>t, <2>1 DEF RepriceInv, OweInv
<1>8. QED
  BY <1>1, <1>2, <1>3, <1>4, <1>5, <1>6, <1>7 DEF CacheInv, RepriceInv

-----------------------------------------------------------------------------
(* What a run's step leaves of its own invariants, step by step *)

\* What holds of a run before its step, in one piece.
RunInv(p) == PlaceInv(p) /\ CacheInv(p) /\ RepriceInv(p)

LEMMA StartKeeps ==
  ASSUME PriceInv, NEW p \in Runs, StartSync(p) \/ StartReprice(p)
  PROVE  RunInv(p)'
<1>t. /\ TypeOK /\ LedgerInv /\ KnownInv
      /\ IdleInv(p) /\ FreshInv(p) /\ SyncInv(p)
      /\ mode[p] = "idle" /\ at[p] = "ready" /\ aim[p] = {} /\ todo[p] = {}
      /\ \A k \in Tokens : charts[p][k].state = "none"
  BY DEF PriceInv, PlaceInv, StartSync, StartReprice, IdleInv, FreshInv, SyncInv
<1>1. CASE StartSync(p)
  <2>1. /\ mode'[p] = "sync" /\ at'[p] = "ready" /\ aim'[p] = {} /\ todo'[p] = {}
        /\ charts' = charts /\ cache' = cache /\ known'[p] = published
    BY <1>t, <1>1 DEF StartSync, lookupVars, TypeOK
  <2>2. \A l \in known'[p] : l \in Lookups /\ l[1] \in Tokens
    BY <1>t, <2>1 DEF TypeOK, Lookups
  <2>3. PlaceInv(p)'
    BY <1>t, <2>1 DEF PlaceInv, IdleInv, FreshInv, SyncInv, AskedInv, NeedsChart, Looking
  <2>4. CacheInv(p)'
    BY <1>t, <2>1, <2>2 DEF CacheInv, ChartInv, LateInv, RaceInv
  <2>5. RepriceInv(p)'
    BY <1>t, <2>1 DEF RepriceInv, FailedInv, NullInv, OweInv
  <2>6. QED
    BY <2>3, <2>4, <2>5 DEF RunInv
<1>2. CASE StartReprice(p)
  <2>1. /\ mode'[p] = "reprice" /\ at'[p] = "select" /\ aim'[p] = unpriced /\ todo'[p] = {}
        /\ charts' = charts /\ cache' = [l \in Lookups |-> Purged(l)] /\ known'[p] = published
    BY <1>t, <1>2 DEF StartReprice, TypeOK
  <2>2. \A l \in known'[p] : l \in Lookups /\ l[1] \in Tokens
    BY <1>t, <2>1 DEF TypeOK, Lookups
  <2>3. PlaceInv(p)'
    BY <1>t, <2>1 DEF PlaceInv, IdleInv, FreshInv, SyncInv, AskedInv, NeedsChart, Looking
  <2>4. CacheInv(p)'
    BY <1>t, <2>1, <2>2 DEF CacheInv, ChartInv, LateInv, RaceInv
  <2>5. \A l \in aim'[p] : l \in Lookups /\ cache'[l] # "null"
    BY <1>t, <2>1 DEF TypeOK, Purged
  <2>6. RepriceInv(p)'
    BY <1>t, <2>1, <2>5 DEF RepriceInv, FailedInv, NullInv, OweInv, Looking
  <2>7. QED
    BY <2>3, <2>4, <2>6 DEF RunInv
<1>3. QED
  BY <1>1, <1>2

LEMMA SelectKeeps ==
  ASSUME PriceInv, NEW p \in Runs, Select(p)
  PROVE  RunInv(p)'
<1>t. TypeOK /\ LedgerInv /\ KnownInv /\ PlaceInv(p) /\ CacheInv(p) /\ RepriceInv(p)
  BY DEF PriceInv
<1>1. /\ at[p] = "select" /\ at'[p] = "ready" /\ mode[p] = "reprice"
      /\ UNCHANGED <<today, published, cache, unpriced, priced, writer, pending, mode, ask, got,
                     charts, failures, clean, known, aim, raced>>
      /\ todo'[p] = IF writer = None THEN unpriced
                    ELSE IF mode[writer] = "sync" THEN unpriced \ pending
                    ELSE unpriced \cup pending
      /\ \A k \in Tokens : charts[p][k].state = "none"
  BY <1>t DEF Select, TypeOK, ledgerVars, historyVars, PlaceInv, SyncInv, FreshInv
<1>2. todo'[p] \subseteq Lookups
  BY <1>t, <1>1 DEF TypeOK
<1>3. PlaceInv(p)'
  BY <1>t, <1>1 DEF PlaceInv, IdleInv, FreshInv, SyncInv, AskedInv, NeedsChart, Looking
<1>4. CacheInv(p)'
  BY <1>t, <1>1 DEF CacheInv, ChartInv, LateInv, RaceInv, Covered
<1>5. \A l \in todo'[p] : l[1] \in Tokens
  BY <1>2 DEF Lookups
<1>6. FailedInv(p)' /\ NullInv(p)'
  BY <1>t, <1>1, <1>5 DEF RepriceInv, FailedInv, NullInv, Looking, Beyond, NeedsChart, Covered
<1>7. OweInv(p)'
  <2>1. ASSUME NEW l \in aim[p] PROVE l \in todo'[p] \/ (l \in priced /\ l \notin pending)
    <3>1. l \in unpriced \cup priced /\ (l \in pending => mode[writer] = "reprice" /\ writer # None)
      BY <1>t DEF LedgerInv
    <3>2. QED
      BY <1>t, <1>1, <3>1 DEF LedgerInv
  <2>2. QED
    BY <1>1, <2>1 DEF OweInv
<1>8. QED
  BY <1>3, <1>4, <1>6, <1>7 DEF RunInv, RepriceInv

\* Both kinds of run look a day up.
LEMMA LookKeeps ==
  ASSUME PriceInv, NEW p \in Runs, NEW l \in Lookups, LookForIngest(p, l) \/ LookForReprice(p, l)
  PROVE  RunInv(p)'
<1>t. TypeOK /\ LedgerInv /\ KnownInv /\ PlaceInv(p) /\ CacheInv(p) /\ RepriceInv(p)
  BY DEF PriceInv
<1>1. /\ at[p] = "ready" /\ mode[p] \in {"sync", "reprice"}
      /\ ask'[p] = l
      /\ at'[p] = IF cache[l] # "absent" THEN "use"
                  ELSE IF NeedsChart(p, l) THEN "chart"
                  ELSE PastChart(charts[p][l[1]].state)
      /\ got'[p] = IF cache[l] = "absent" THEN "none" ELSE cache[l]
      /\ raced'[p] = FALSE
      /\ UNCHANGED <<today, published, cache, unpriced, priced, writer, pending, mode, charts,
                     failures, clean, todo, known, aim>>
  BY <1>t DEF LookForIngest, LookForReprice, Look, TypeOK, ledgerVars
<1>2. /\ at'[p] \in {"use", "chart", "recheck", "ask"}
      /\ at'[p] = "recheck" => charts[p][l[1]].state = "ok"
      /\ at'[p] = "ask" => charts[p][l[1]].state \notin {"none", "ok"}
      /\ at'[p] = "chart" => NeedsChart(p, l)
      /\ at'[p] \in {"chart", "ask"} => cache[l] = "absent"
  BY <1>1 DEF PastChart, NeedsChart
<1>3. PlaceInv(p)'
  BY <1>t, <1>1, <1>2 DEF PlaceInv, IdleInv, FreshInv, SyncInv, AskedInv, NeedsChart, Looking
<1>4. CacheInv(p)'
  BY <1>t, <1>1, <1>2 DEF CacheInv, ChartInv, LateInv, RaceInv, Covered
<1>5. FailedInv(p)' /\ OweInv(p)'
  BY <1>t, <1>1, <1>2 DEF RepriceInv, FailedInv, OweInv, Beyond, NeedsChart, Covered
<1>6. NullInv(p)'
  <2>1. at'[p] = "use" => got'[p] = cache[l]
    BY <1>1, <1>2 DEF PastChart
  <2>2. cache[l] \in {"absent", "null", "priced"} /\ (at'[p] = "use" => cache[l] # "absent")
    BY <1>t, <1>1, <1>2 DEF TypeOK, PastChart
  <2>3. \A m \in aim[p] \cap known[p] : cache[m] = "null" => Beyond(p, m)
    BY <1>t DEF RepriceInv, NullInv
  <2>4. \A m : Beyond(p, m)' = Beyond(p, m)
    BY <1>1 DEF Beyond, NeedsChart, Covered
  <2>5. QED
    BY <1>1, <2>1, <2>2, <2>3, <2>4 DEF NullInv
<1>7. QED
  BY <1>3, <1>4, <1>5, <1>6 DEF RunInv, RepriceInv

\* The points a chart request returns are all the run knows of those it asked for.
LEMMA WindowIsAll ==
  ASSUME TypeOK, KnownInv, NEW p \in Runs, NEW l \in Lookups, NEW m \in known[p],
         m[1] = l[1], m[2] \in Asked(l[2])
  PROVE  m \in Window(l)
<1>1. m \in published /\ m[2] <= today /\ m[2] \in Nat /\ today \in Nat
  BY PriceAssumption DEF KnownInv, TypeOK, Lookups, Days
<1>2. QED
  BY <1>1 DEF Window

LEMMA FetchKeeps ==
  ASSUME PriceInv, NEW p \in Runs, NEW ok \in BOOLEAN, FetchChart(p, ok)
  PROVE  RunInv(p)'
<1>t. TypeOK /\ LedgerInv /\ KnownInv /\ PlaceInv(p) /\ CacheInv(p) /\ RepriceInv(p)
  BY DEF PriceInv
<1> DEFINE l == ask[p]
           k == l[1]
           chart == Fetched(l, ok)
<1>1. at[p] = "chart" /\ l \in Lookups /\ mode[p] # "idle" /\ k \in Tokens /\ l[2] \in Days
  BY <1>t DEF FetchChart, PlaceInv, AskedInv, Looking, Lookups
<1>2. chart \in Charts /\ chart.from = l[2] /\ chart.state # "none"
  BY <1>1, FetchedTyped
<1>3. /\ charts'[p][k] = chart
      /\ \A j \in Tokens : j # k => charts'[p][j] = charts[p][j]
      /\ at'[p] = IF chart.state = "ok" THEN "recheck" ELSE "ask"
      /\ clean'[p] = (clean[p] /\ ok)
      /\ UNCHANGED <<today, published, mode, ask, got, todo, known, aim>>
  BY <1>t, <1>1 DEF FetchChart, TypeOK, PastChart, PricesStored
<1>4. IF chart.state = "ok" THEN MayWrite(p) /\ cache' = WithChart(l) /\ Committed
      ELSE UNCHANGED <<cache, ledgerVars>>
  BY DEF FetchChart
<1>4a. chart.state # "ok" => raced' = raced
  BY DEF FetchChart
<1>5. /\ \A m \in Window(l) : m \in Lookups /\ (chart.state = "ok" => cache'[m] = "priced")
      /\ chart.state = "missing" => Window(l) = {}
      /\ chart.state = "failed" => ~ok
  BY <1>t, <1>4 DEF Fetched, WithChart, Window, TypeOK
<1>6. \A m \in Lookups : cache'[m] \in {cache[m], "priced"}
  BY <1>4 DEF WithChart
<1> HIDE DEF chart
<1>7. known[p] \subseteq Lookups /\ \A m \in known[p] : m[1] \in Tokens
  BY <1>t DEF TypeOK, Lookups
<1>n. ~NeedsChart(p, l)'
  BY <1>1, <1>2, <1>3, PriceAssumption DEF NeedsChart, Days
<1>8. PlaceInv(p)'
  BY <1>t, <1>1, <1>3, <1>n DEF PlaceInv, IdleInv, FreshInv, SyncInv, AskedInv, Looking
<1>9. \A m \in Lookups : /\ m[1] = k => (Covered(p, m)' <=> m[2] \in Asked(l[2]))
                         /\ m[1] # k => /\ Covered(p, m)' <=> Covered(p, m)
                                        /\ Beyond(p, m)' <=> Beyond(p, m)
  BY <1>2, <1>3 DEF Covered, Beyond, NeedsChart, Lookups
<1>10. ChartInv(p)'
  <2> SUFFICES ASSUME NEW m \in known[p], Covered(p, m)'
               PROVE  /\ charts'[p][m[1]].state = "ok" => cache'[m] = "priced"
                      /\ charts'[p][m[1]].state # "missing"
    BY <1>3 DEF ChartInv
  <2>1. CASE m[1] = k
    <3>1. m \in Window(l)
      BY <1>t, <1>1, <1>7, <1>9, <2>1, WindowIsAll
    <3>2. QED
      BY <1>3, <1>5, <2>1, <3>1
  <2>2. CASE m[1] # k
    BY <1>t, <1>3, <1>6, <1>7, <1>9, <2>2 DEF CacheInv, ChartInv
  <2>3. QED
    BY <2>1, <2>2
<1>11. LateInv(p)' /\ RaceInv(p)'
  <2>1. at'[p] # "miss" /\ (at'[p] = "ask" => charts'[p][ask'[p][1]].state # "ok")
    BY <1>3
  <2>2. at'[p] = "ask" => cache' = cache /\ raced' = raced
    BY <1>3, <1>4, <1>4a
  <2>3. QED
    BY <1>t, <1>1, <1>3, <2>1, <2>2 DEF CacheInv, LateInv, RaceInv
<1>12. FailedInv(p)'
  BY <1>t, <1>3, <1>5 DEF RepriceInv, FailedInv
<1>13. ASSUME NEW m \in Lookups, m[1] = k, Beyond(p, m) PROVE Beyond(p, m)'
  <2>1. NeedsChart(p, l)
    BY <1>t, <1>1 DEF PlaceInv, AskedInv, Looking
  <2>2. charts[p][k] \in Charts /\ m[2] \in Days
    BY <1>t, <1>1, <1>13 DEF TypeOK, Lookups
  <2>3. l[2] < charts[p][k].from /\ charts[p][k].from <= m[2] /\ m[2] \notin Asked(charts[p][k].from)
    BY <1>13, <2>1, <2>2, PriceAssumption DEF Beyond, NeedsChart, Covered, Charts, Days
  <2>4. l[2] <= m[2] /\ m[2] \notin Asked(l[2])
    BY <1>1, <2>2, <2>3, PriceAssumption DEF Asked, Charts, Days
  <2>5. ~NeedsChart(p, m)'
    BY <1>1, <1>2, <1>3, <1>13, <2>2, <2>4, PriceAssumption DEF NeedsChart, Charts, Days
  <2>6. QED
    BY <1>9, <1>13, <2>4, <2>5 DEF Beyond
<1>14. \A m \in aim[p] \cap known[p] : Beyond(p, m) => Beyond(p, m)'
  BY <1>7, <1>9, <1>13
<1>15. NullInv(p)'
  <2>1. \A m \in aim[p] \cap known[p] : cache'[m] = "null" => cache[m] = "null"
    BY <1>6, <1>7
  <2>2. at'[p] # "use"
    BY <1>3
  <2>3. QED
    BY <1>t, <1>3, <1>14, <2>1, <2>2 DEF RepriceInv, NullInv
<1>16. OweInv(p)'
  <2>1. ASSUME NEW m \in priced, m \in pending => writer = p
        PROVE  m \in priced' /\ (m \in pending' => writer' = p)
    BY <1>4, <2>1 DEF Committed, ledgerVars
  <2>2. clean'[p] => clean[p]
    BY <1>3
  <2>3. at[p] # "select"
    BY <1>1
  <2>4. QED
    BY <1>t, <1>3, <1>14, <2>1, <2>2, <2>3 DEF RepriceInv, OweInv
<1>17. QED
  BY <1>8, <1>10, <1>11, <1>12, <1>15, <1>16 DEF RunInv, CacheInv, RepriceInv

LEMMA RecheckKeeps ==
  ASSUME PriceInv, NEW p \in Runs, Recheck(p)
  PROVE  RunInv(p)'
<1>t. TypeOK /\ LedgerInv /\ KnownInv /\ PlaceInv(p) /\ CacheInv(p) /\ RepriceInv(p)
  BY DEF PriceInv
<1>1. /\ at[p] = "recheck" /\ ask[p] \in Lookups /\ mode[p] # "idle"
      /\ charts[p][ask[p][1]].state = "ok"
  BY <1>t DEF Recheck, PlaceInv, AskedInv, Looking
<1>2. /\ at'[p] = IF cache[ask[p]] # "absent" THEN "use"
                  ELSE IF ask[p][2] # today THEN "miss" ELSE "ask"
      /\ got'[p] = IF cache[ask[p]] = "absent" THEN "none" ELSE cache[ask[p]]
      /\ raced'[p] = FALSE
      /\ UNCHANGED <<today, published, cache, unpriced, priced, writer, pending, mode, ask, charts,
                     clean, todo, known, aim>>
  BY <1>t DEF Recheck, TypeOK, ledgerVars
<1>3. PlaceInv(p)'
  BY <1>t, <1>1, <1>2 DEF PlaceInv, IdleInv, FreshInv, SyncInv, AskedInv, NeedsChart, Looking
<1>c. \A m : (Covered(p, m)' <=> Covered(p, m)) /\ (Beyond(p, m)' <=> Beyond(p, m))
  BY <1>2 DEF Covered, Beyond, NeedsChart
<1>4. LateInv(p)'
  <2> SUFFICES ASSUME at'[p] # "use", ask[p] \in known[p], Covered(p, ask[p]) PROVE FALSE
    BY <1>2, <1>c DEF LateInv
  <2>1. cache[ask[p]] = "absent"
    BY <1>2
  <2>2. QED
    BY <1>t, <1>1, <2>1 DEF CacheInv, ChartInv
<1>5. ChartInv(p)' /\ RaceInv(p)'
  BY <1>t, <1>2, <1>c DEF CacheInv, ChartInv, RaceInv
<1>6. FailedInv(p)' /\ OweInv(p)'
  BY <1>t, <1>1, <1>2, <1>c DEF RepriceInv, FailedInv, OweInv, Looking
<1>7. NullInv(p)'
  <2>1. cache[ask[p]] \in {"absent", "null", "priced"}
    BY <1>t, <1>1 DEF TypeOK
  <2>2. QED
    BY <1>t, <1>2, <1>c, <2>1 DEF RepriceInv, NullInv
<1>8. QED
  BY <1>3, <1>4, <1>5, <1>6, <1>7 DEF RunInv, CacheInv, RepriceInv

\* A lookup that ends as a miss, or as nothing though nothing failed, is not of a point
\* the run's chart request asked for.
LEMMA NothingToFind ==
  ASSUME PriceInv, NEW p \in Runs,
         \/ at[p] = "miss"
         \/ at[p] = "ask" /\ (clean[p] \/ charts[p][ask[p][1]].state = "missing")
  PROVE  ~(ask[p] \in known[p] /\ Covered(p, ask[p]))
<1>t. TypeOK /\ PlaceInv(p) /\ CacheInv(p) /\ RepriceInv(p)
  BY DEF PriceInv
<1>1. ask[p] \in Lookups /\ ask[p][1] \in Tokens
  BY <1>t DEF PlaceInv, AskedInv, Looking, Lookups
<1>2. charts[p][ask[p][1]] \in Charts /\ charts[p][ask[p][1]].state # "none"
  BY <1>t, <1>1 DEF TypeOK, PlaceInv, AskedInv, NeedsChart, Looking
<1>3. CASE at[p] = "miss"
  BY <1>t, <1>2, <1>3 DEF CacheInv, LateInv
<1>4. CASE at[p] = "ask"
  <2>1. CASE charts[p][ask[p][1]].state = "missing"
    BY <1>t, <1>2, <2>1 DEF CacheInv, ChartInv
  <2>2. CASE charts[p][ask[p][1]].state = "ok"
    BY <1>t, <1>2, <1>4, <2>2 DEF CacheInv, LateInv
  <2>3. charts[p][ask[p][1]].state # "failed" \/ charts[p][ask[p][1]].state = "missing"
    BY <1>t, <1>1, <1>4 DEF RepriceInv, FailedInv
  <2>4. QED
    BY <1>2, <2>1, <2>2, <2>3 DEF Charts
<1>5. QED
  BY <1>3, <1>4

\* A lookup is over, with what it stored.
LEMMA AnswerKeeps ==
  ASSUME PriceInv, NEW p \in Runs, NEW verdict \in {"priced", "null", "none"}, RunStep(p),
         Answer(p, verdict), at[p] \in {"miss", "ask"},
         IF verdict = "none" THEN UNCHANGED <<cache, ledgerVars, known, raced>> ELSE Store(p, verdict),
         verdict = "null" => at[p] = "miss" \/ charts[p][ask[p][1]].state = "missing",
         clean'[p] => clean[p]
  PROVE  RunInv(p)'
<1>t. /\ TypeOK /\ LedgerInv /\ KnownInv /\ PlaceInv(p) /\ CacheInv(p) /\ RepriceInv(p)
      /\ \A q \in Runs : AskedInv(q)
  BY DEF PriceInv, PlaceInv
<1>1. ask[p] \in Lookups /\ mode[p] # "idle"
  BY <1>t DEF PlaceInv, AskedInv, Looking
<1>2. /\ at'[p] = "use" /\ got'[p] = verdict
      /\ UNCHANGED <<today, published, mode, ask, charts, todo, aim>>
  BY <1>t DEF Answer, TypeOK
<1>3. known'[p] = known[p]
  <2>1. CASE verdict = "none"
    BY <2>1
  <2>2. CASE MissStored(p, ask[p])
    BY <1>t, <2>2 DEF MissStored, TypeOK
  <2>3. CASE PricesStored(p, {ask[p]})
    BY <2>3 DEF PricesStored
  <2>4. QED
    BY <2>1, <2>2, <2>3 DEF Store
<1>4. cache' = IF verdict = "none" THEN cache ELSE [cache EXCEPT ![ask[p]] = verdict]
  BY DEF Store
<1>5. UNCHANGED ledgerVars \/ Committed
  BY DEF Store
<1>6. /\ verdict = "null" => ~(ask[p] \in known[p] /\ Covered(p, ask[p]))
      /\ verdict # "priced" => ~clean'[p] \/ ~(ask[p] \in known[p] /\ Covered(p, ask[p]))
      /\ ~NeedsChart(p, ask[p])
  BY <1>t, NothingToFind DEF PlaceInv, AskedInv, Looking
<1>c. \A m : (Covered(p, m)' <=> Covered(p, m)) /\ (Beyond(p, m)' <=> Beyond(p, m))
  BY <1>2 DEF Covered, Beyond, NeedsChart
<1>k. known[p] \subseteq Lookups
  BY <1>t DEF TypeOK
<1>7. PlaceInv(p)'
  BY <1>t, <1>1, <1>2 DEF PlaceInv, IdleInv, FreshInv, SyncInv, AskedInv, NeedsChart, Looking
<1>8. ChartInv(p)'
  <2>1. ASSUME NEW m \in known[p], Covered(p, m), cache[m] = "priced" PROVE cache'[m] = "priced"
    BY <1>t, <1>k, <1>4, <1>6, <2>1 DEF TypeOK
  <2>2. QED
    BY <1>t, <1>2, <1>3, <1>c, <2>1 DEF CacheInv, ChartInv
<1>9. LateInv(p)' /\ RaceInv(p)'
  BY <1>2 DEF LateInv, RaceInv
<1>10. FailedInv(p)'
  BY <1>t, <1>2 DEF RepriceInv, FailedInv
<1>11. NullInv(p)'
  <2> SUFFICES ASSUME NEW m \in aim[p] \cap known[p]
               PROVE  /\ cache'[m] = "null" => Beyond(p, m)
                      /\ ask[p] = m /\ verdict # "priced" => ~clean'[p] \/ Beyond(p, m)
    BY <1>2, <1>3, <1>c DEF NullInv
  <2>1. cache[m] = "null" => Beyond(p, m)
    BY <1>t DEF RepriceInv, NullInv
  <2>2. ask[p] = m /\ verdict = "null" => Beyond(p, m)
    BY <1>6 DEF Beyond
  <2>3. ask[p] = m /\ verdict # "priced" => ~clean'[p] \/ Beyond(p, m)
    BY <1>6 DEF Beyond
  <2>4. cache'[m] = "null" => cache[m] = "null" \/ (ask[p] = m /\ verdict = "null")
    BY <1>t, <1>k, <1>4 DEF TypeOK
  <2>5. QED
    BY <2>1, <2>2, <2>3, <2>4
<1>12. OweInv(p)'
  <2>1. ASSUME NEW m \in priced, m \in pending => writer = p
        PROVE  m \in priced' /\ (m \in pending' => writer' = p)
    BY <1>5, <2>1 DEF Committed, ledgerVars
  <2>2. at[p] # "select"
    OBVIOUS
  <2>3. QED
    BY <1>t, <1>2, <1>3, <1>c, <2>1, <2>2 DEF RepriceInv, OweInv
<1>13. QED
  BY <1>7, <1>8, <1>9, <1>10, <1>11, <1>12 DEF RunInv, CacheInv, RepriceInv

\* The two ways a lookup that missed the cache ends.
LEMMA StoreMissKeeps ==
  ASSUME PriceInv, NEW p \in Runs, StoreMiss(p)
  PROVE  RunInv(p)' /\ ~(ask[p] \in known[p] /\ Covered(p, ask[p]))
<1>1. Answer(p, "null") /\ Store(p, "null") /\ at[p] = "miss" /\ clean' = clean /\ RunStep(p)
  BY DEF StoreMiss, RunStep
<1>2. QED
  BY <1>1, AnswerKeeps, NothingToFind

LEMMA AskKeeps ==
  ASSUME PriceInv, NEW p \in Runs, NEW ok \in BOOLEAN, AskProvider(p, ok)
  PROVE  RunInv(p)' /\ (got'[p] = "null" => ~(ask[p] \in known[p] /\ Covered(p, ask[p])))
<1> DEFINE verdict == IF ok /\ ~BreakerOpen(p) THEN Verdict(p) ELSE "none"
<1>1. /\ IF verdict = "none" THEN UNCHANGED <<cache, ledgerVars, known, raced>> ELSE Store(p, verdict)
      /\ Answer(p, verdict)
      /\ at[p] = "ask"
  BY DEF AskProvider
<1>2. verdict \in {"priced", "null", "none"}
  BY VerdictTyped
<1>3. verdict = "null" => charts[p][ask[p][1]].state = "missing"
  BY DEF Verdict
<1>4. clean'[p] => clean[p]
  BY DEF AskProvider, PriceInv, TypeOK
<1>5. got'[p] = verdict
  BY <1>1 DEF Answer, PriceInv, TypeOK
<1>6. RunStep(p)
  BY DEF RunStep
<1> HIDE DEF verdict
<1>7. QED
  BY <1>1, <1>2, <1>3, <1>4, <1>5, <1>6, AnswerKeeps, NothingToFind

LEMMA InsertKeeps ==
  ASSUME PriceInv, NEW p \in Runs, Insert(p) \/ EndBatch(p)
  PROVE  RunInv(p)'
<1>t. TypeOK /\ PlaceInv(p) /\ CacheInv(p) /\ RepriceInv(p)
  BY DEF PriceInv
<1>1. /\ mode[p] = "sync" /\ aim[p] = {} /\ todo[p] = {} /\ at'[p] = "ready"
      /\ UNCHANGED <<cache, mode, charts, clean, known, aim, todo>>
  BY <1>t DEF Insert, EndBatch, LookupDone, PlaceInv, SyncInv, lookupVars, historyVars, TypeOK
<1>2. PlaceInv(p)'
  BY <1>1 DEF PlaceInv, IdleInv, FreshInv, SyncInv, AskedInv, NeedsChart, Looking
<1>3. CacheInv(p)'
  BY <1>t, <1>1 DEF CacheInv, ChartInv, LateInv, RaceInv, Covered
<1>4. RepriceInv(p)'
  BY <1>t, <1>1 DEF RepriceInv, FailedInv, NullInv, OweInv
<1>5. QED
  BY <1>2, <1>3, <1>4 DEF RunInv

LEMMA ValueKeeps ==
  ASSUME PriceInv, NEW p \in Runs, Value(p)
  PROVE  RunInv(p)'
<1>t. TypeOK /\ LedgerInv /\ PlaceInv(p) /\ CacheInv(p) /\ RepriceInv(p)
  BY DEF PriceInv
<1>1. /\ mode[p] = "reprice" /\ at[p] = "use" /\ at'[p] = "ready"
      /\ todo'[p] = todo[p] \ {ask[p]}
      /\ UNCHANGED <<cache, mode, charts, clean, known, aim>>
  BY <1>t DEF Value, LookupDone, TypeOK
<1>2. PlaceInv(p)'
  BY <1>1 DEF PlaceInv, IdleInv, FreshInv, SyncInv, AskedInv, NeedsChart, Looking
<1>c. \A m : (Covered(p, m)' <=> Covered(p, m)) /\ (Beyond(p, m)' <=> Beyond(p, m))
  BY <1>1 DEF Covered, Beyond, NeedsChart
<1>3. CacheInv(p)'
  BY <1>t, <1>1, <1>c DEF CacheInv, ChartInv, LateInv, RaceInv
<1>4. FailedInv(p)' /\ NullInv(p)'
  BY <1>t, <1>1, <1>c DEF RepriceInv, FailedInv, NullInv, Looking
<1>5. OweInv(p)'
  <2> SUFFICES ASSUME NEW m \in aim[p] \cap known[p]
               PROVE  \/ m \in todo[p] \ {ask[p]}
                      \/ m \in priced' /\ (m \in pending' => writer' = p)
                      \/ ~clean[p] \/ Beyond(p, m)
    BY <1>1, <1>c DEF OweInv
  <2>1. CASE got[p] = "priced"
    <3>1. writer' = p /\ priced' = priced \cup {ask[p]}
      BY <2>1 DEF Value
    <3>2. QED
      BY <1>t, <1>1, <3>1 DEF RepriceInv, OweInv
  <2>2. CASE got[p] # "priced"
    <3>1. UNCHANGED <<priced, pending, writer>>
      BY <2>2 DEF Value, ledgerVars
    <3>2. m = ask[p] => ~clean[p] \/ Beyond(p, m)
      BY <1>t, <1>1, <2>2 DEF RepriceInv, NullInv
    <3>3. QED
      BY <1>t, <1>1, <3>1, <3>2 DEF RepriceInv, OweInv
  <2>3. QED
    BY <2>1, <2>2
<1>6. QED
  BY <1>2, <1>3, <1>4, <1>5 DEF RunInv, RepriceInv

LEMMA GoneKeeps ==
  ASSUME PriceInv, NEW p \in Runs, Finish(p) \/ Die(p)
  PROVE  RunInv(p)'
<1>1. /\ mode'[p] = "idle" /\ at'[p] = "ready" /\ todo'[p] = {} /\ known'[p] = {} /\ aim'[p] = {}
      /\ charts'[p] = [k \in Tokens |-> NoChart]
  BY DEF PriceInv, TypeOK, Finish, Die, Gone
<1>2. \A k \in Tokens : charts'[p][k].state = "none"
  BY <1>1 DEF NoChart
<1>3. PlaceInv(p)'
  BY <1>1, <1>2 DEF PlaceInv, IdleInv, FreshInv, SyncInv, AskedInv, NeedsChart, Looking
<1>4. CacheInv(p)'
  BY <1>1 DEF CacheInv, ChartInv, LateInv, RaceInv
<1>5. RepriceInv(p)'
  BY <1>1, <1>2 DEF RepriceInv, FailedInv, NullInv, OweInv
<1>6. QED
  BY <1>3, <1>4, <1>5 DEF RunInv

-----------------------------------------------------------------------------
(* Every step *)

\* What a run knows stays behind what is out, whatever a run does.
LEMMA KnownKept ==
  ASSUME PriceInv, NEW p \in Runs, RunStep(p)
  PROVE  KnownInv'
<1>t. TypeOK /\ KnownInv /\ \A q \in Runs : AskedInv(q)
  BY DEF PriceInv, PlaceInv
<1>1. today' = today /\ published' = published
  BY DEF RunStep, StartSync, StartReprice, Select, LookForIngest, LookForReprice, Look, FetchChart,
         AskProvider, Answer, Recheck, StoreMiss, Insert, LookupDone, EndBatch, Value, Finish, Die, Gone
<1>2. \A q \in Runs : q # p => known'[q] \subseteq known[q]
  BY <1>t, Others
<1>3. known'[p] \subseteq published
  <2>1. CASE StartSync(p) \/ StartReprice(p)
    BY <1>t, <2>1 DEF StartSync, StartReprice, TypeOK
  <2>2. CASE Finish(p) \/ Die(p)
    BY <1>t, <2>2 DEF Finish, Die, Gone, TypeOK
  <2>3. CASE Select(p) \/ Recheck(p) \/ Insert(p) \/ EndBatch(p) \/ Value(p)
    BY <1>t, <2>3 DEF Select, Recheck, Insert, EndBatch, Value, LookupDone, historyVars, KnownInv
  <2>4. ASSUME NEW l \in Lookups, LookForIngest(p, l) \/ LookForReprice(p, l)
        PROVE  known'[p] \subseteq published
    BY <1>t, <2>4 DEF LookForIngest, LookForReprice, Look, KnownInv
  <2>5. ASSUME NEW ok \in BOOLEAN, FetchChart(p, ok) PROVE known'[p] \subseteq published
    BY <1>t, <2>5 DEF FetchChart, PricesStored, KnownInv
  <2>6. ASSUME NEW verdict, Store(p, verdict) PROVE known'[p] \subseteq published
    <3>1. CASE MissStored(p, ask[p])
      BY <1>t, <3>1 DEF MissStored, KnownInv, TypeOK
    <3>2. CASE PricesStored(p, {ask[p]})
      BY <1>t, <3>2 DEF PricesStored, KnownInv
    <3>3. QED
      BY <2>6, <3>1, <3>2 DEF Store
  <2>7. ASSUME NEW ok \in BOOLEAN, AskProvider(p, ok) PROVE known'[p] \subseteq published
    <3> DEFINE verdict == IF ok /\ ~BreakerOpen(p) THEN Verdict(p) ELSE "none"
    <3>1. IF verdict = "none" THEN UNCHANGED <<cache, ledgerVars, known, raced>> ELSE Store(p, verdict)
      BY <2>7 DEF AskProvider
    <3> HIDE DEF verdict
    <3>2. QED
      BY <1>t, <2>6, <3>1 DEF KnownInv
  <2>8. CASE StoreMiss(p)
    BY <2>6, <2>8 DEF StoreMiss
  <2>9. QED
    BY <2>1, <2>2, <2>3, <2>4, <2>5, <2>7, <2>8 DEF RunStep
<1>4. QED
  BY <1>t, <1>1, <1>2, <1>3 DEF KnownInv

\* A run's step keeps its own invariants.
LEMMA OwnKeeps ==
  ASSUME PriceInv, NEW p \in Runs, RunStep(p)
  PROVE  RunInv(p)'
  BY StartKeeps, SelectKeeps, LookKeeps, FetchKeeps, RecheckKeeps, StoreMissKeeps, AskKeeps,
     InsertKeeps, ValueKeeps, GoneKeeps
     DEF RunStep

\* The world's steps leave the runs alone.
LEMMA WorldKeeps ==
  ASSUME PriceInv, Midnight \/ Publish \/ UNCHANGED vars
  PROVE  PriceInv'
<1>t. TypeOK /\ KnownInv /\ LedgerInv
  BY DEF PriceInv
<1>1. UNCHANGED <<cache, ledgerVars, mode, lookupVars, todo, historyVars>>
  BY DEF Midnight, Publish, vars
<1>2. LedgerInv' /\ \A p \in Runs : PlaceInv(p)' /\ CacheInv(p)' /\ RepriceInv(p)'
  BY <1>1 DEF PriceInv, LedgerInv, PlaceInv, IdleInv, FreshInv, SyncInv, AskedInv, NeedsChart, CacheInv, ChartInv,
              LateInv, RaceInv, RepriceInv, FailedInv, NullInv, OweInv, Beyond, NeedsChart, Covered,
              ledgerVars, lookupVars, historyVars
<1>3. today' \in Days /\ published' \subseteq Lookups /\ KnownInv'
  <2>1. CASE Midnight
    <3>1. today \in Nat /\ today' = today + 1 /\ today' <= LastDay /\ known' = known
      BY <1>t, <2>1, PriceAssumption DEF Midnight, TypeOK, Days, historyVars
    <3>2. published' \subseteq published \cup PointsOf(today')
      BY <2>1, <3>1 DEF Midnight
    <3>3. \A l \in published : l[2] \in Nat
      BY <1>t, PriceAssumption DEF TypeOK, Lookups, Days
    <3>4. \A l \in PointsOf(today') : l \in Lookups /\ l[2] = today'
      BY DEF PointsOf
    <3>5. published \subseteq published'
      BY <2>1 DEF Midnight
    <3>6. \A l \in published' : l[2] <= today'
      BY <1>t, <3>1, <3>2, <3>3, <3>4 DEF KnownInv
    <3>7. today' \in Days /\ published' \subseteq Lookups
      BY <1>t, <3>1, <3>2, <3>4, PriceAssumption DEF Days, TypeOK
    <3>8. QED
      BY <1>t, <3>1, <3>5, <3>6, <3>7 DEF KnownInv
  <2>2. CASE Publish
    BY <1>t, <2>2 DEF Publish, KnownInv, TypeOK, historyVars
  <2>3. CASE UNCHANGED vars
    BY <1>t, <2>3 DEF vars, KnownInv, TypeOK, historyVars
  <2>4. QED
    BY <2>1, <2>2, <2>3
<1>4. TypeOK'
  BY <1>t, <1>1, <1>3 DEF TypeOK, ledgerVars, lookupVars, historyVars
<1>5. QED
  BY <1>2, <1>3, <1>4 DEF PriceInv

\* The invariant holds in every behaviour.
LEMMA PriceInvCorrect == Spec => []PriceInv
<1>1. Init => PriceInv
  <2> SUFFICES ASSUME Init PROVE PriceInv
    OBVIOUS
  <2>1. TypeOK
    BY PriceAssumption, SourceAssumption DEF Init, TypeOK, Days, PointsOf, NoChart, Charts
  <2>2. KnownInv /\ LedgerInv
    BY SourceAssumption DEF Init, KnownInv, LedgerInv, PointsOf
  <2>3. ASSUME NEW p \in Runs PROVE PlaceInv(p) /\ CacheInv(p) /\ RepriceInv(p)
    BY DEF Init, PlaceInv, IdleInv, FreshInv, SyncInv, AskedInv, NeedsChart, Looking, CacheInv, ChartInv, LateInv,
           RaceInv, RepriceInv, FailedInv, NullInv, OweInv, NoChart
  <2>4. QED
    BY <2>1, <2>2, <2>3 DEF PriceInv
<1>2. PriceInv /\ [Next]_vars => PriceInv'
  <2> SUFFICES ASSUME PriceInv, [Next]_vars PROVE PriceInv'
    OBVIOUS
  <2>1. CASE Midnight \/ Publish \/ UNCHANGED vars
    BY <2>1, WorldKeeps
  <2>2. ASSUME NEW p \in Runs, RunStep(p) PROVE PriceInv'
    <3>1. TypeOK'
      BY <2>2, RunTyped DEF PriceInv, PlaceInv
    <3>2. \A q \in Runs : PlaceInv(q)' /\ CacheInv(q)' /\ RepriceInv(q)'
      BY <2>2, OwnKeeps, OthersKeep DEF RunInv
    <3>3. QED
      BY <2>2, <3>1, <3>2, KnownKept, LedgerKept DEF PriceInv
  <2>3. QED
    BY <2>1, <2>2 DEF Next
<1>3. QED
  BY <1>1, <1>2, PTL DEF Spec

\* Every variable keeps its type; the breaker counts no failure past its limit.
THEOREM PriceTypeCorrect == Spec => []TypeOK
<1>1. PriceInv => TypeOK
  BY DEF PriceInv
<1>2. QED
  BY <1>1, PriceInvCorrect, PTL

\* However its requests fail and whatever runs beside it, no run caches a miss for a
\* day its chart request asked for and whose point was out when it began, unless
\* another run cached one meanwhile.
THEOREM MissesAreRealCorrect == Spec => MissesAreReal
<1>1. PriceInv /\ [Next]_vars => [MissStep]_vars
  <2> SUFFICES ASSUME PriceInv, Next, NEW p \in Runs,
                      at[p] \in {"miss", "ask"}, at'[p] = "use", got'[p] = "null"
               PROVE  ~(ask[p] \in known[p] /\ Covered(p, ask[p]))
    BY DEF MissStep
  <2>1. CASE Midnight \/ Publish
    BY <2>1 DEF Midnight, Publish, lookupVars
  <2>2. ASSUME NEW q \in Runs, q # p, RunStep(q) PROVE FALSE
    BY <2>2, Others DEF PriceInv
  <2>3. CASE RunStep(p)
    <3>1. CASE StoreMiss(p)
      BY <3>1, StoreMissKeeps
    <3>2. ASSUME NEW ok \in BOOLEAN, AskProvider(p, ok)
          PROVE  ~(ask[p] \in known[p] /\ Covered(p, ask[p]))
      BY <3>2, AskKeeps
    <3>3. QED
      BY <2>3, <3>1, <3>2
         DEF RunStep, StartSync, StartReprice, Select, LookForIngest, LookForReprice, FetchChart,
             Recheck, Insert, EndBatch, Value, Finish, Die, Gone, lookupVars, PriceInv, PlaceInv,
             IdleInv, TypeOK
  <2>4. QED
    BY <2>1, <2>2, <2>3 DEF Next
<1>2. QED
  BY <1>1, PriceInvCorrect, PTL DEF Spec, MissesAreReal

\* No purge, refetch or chart takes back a price the cache has, and no lookup does but
\* one that another run overtook.
THEOREM PricesStayCorrect == Spec => PricesStay
<1>1. PriceInv /\ [Next]_vars => [PriceStep]_vars
  <2> SUFFICES ASSUME PriceInv, Next, NEW l \in Lookups, cache[l] = "priced", cache'[l] # "priced"
               PROVE  \E p \in Runs : /\ at[p] \in {"miss", "ask"} /\ ask[p] = l /\ raced[p]
                                      /\ cache'[l] = "null"
    BY DEF PriceStep
  <2>1. ASSUME NEW p \in Runs, RunStep(p) PROVE CachesMiss(p, l)
    BY <2>1, RowStep DEF CachesPrice, PriceInv, PlaceInv
  <2>2. PICK p \in Runs : CachesMiss(p, l)
    BY <2>1 DEF Next, Midnight, Publish
  <2>3. at[p] \in {"miss", "ask"} /\ ask[p] = l /\ cache'[l] = "null"
    BY <2>2 DEF CachesMiss
  <2>4. raced[p]
    BY <2>3 DEF PriceInv, CacheInv, RaceInv
  <2>5. QED
    BY <2>3, <2>4
<1>2. QED
  BY <1>1, PriceInvCorrect, PTL DEF Spec, PricesStay

\* A reprice none of whose requests failed leaves no event unpriced that was unpriced
\* when it purged and whose point its chart request asked for and could return,
\* whatever NULLs there were and whatever ran or died beside it.
THEOREM RepriceCompleteCorrect == Spec => RepriceComplete
<1>1. PriceInv /\ [Next]_vars => [RepriceStep]_vars
  <2> SUFFICES ASSUME PriceInv, Next, NEW p \in Runs, mode[p] = "reprice", at[p] = "ready",
                      todo[p] = {}, mode'[p] = "idle", clean[p],
                      NEW l \in aim[p] \cap known[p], Covered(p, l)
               PROVE  l \in priced
    BY DEF RepriceStep
  <2>1. QED
    BY DEF PriceInv, RepriceInv, OweInv, Beyond
<1>2. QED
  BY <1>1, PriceInvCorrect, PTL DEF Spec, RepriceComplete
=============================================================================
