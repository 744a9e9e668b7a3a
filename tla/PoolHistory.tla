---------------------------- MODULE PoolHistory ----------------------------
(***************************************************************************)
(* The vote scout's cache of pool histories (service/vote_scout.py,        *)
(* ledger/chain_cache.py).                                                 *)
(*                                                                         *)
(* A scan projects a pool's votes from its last HistoryEpochs closed       *)
(* epochs.  Closed epochs never change, so a scan keeps what it fetched,   *)
(* with a marker that says through which epoch the pool is recorded, and   *)
(* a later scan whose marker test passes does not ask the chain at all.    *)
(*                                                                         *)
(* Scans take minutes, may straddle the weekly flip, may fail, and the     *)
(* dashboard's scan and one started from the command line share the cache. *)
(***************************************************************************)
EXTENDS Integers, FiniteSets

CONSTANTS
  Scanners,       \* processes that scan
  Pools,
  Born,           \* pool |-> the first epoch it has votes in
  HistoryEpochs,  \* HISTORY_EPOCHS
  LastWeek        \* bound: the last running epoch

ASSUME PoolAssumption ==
  /\ HistoryEpochs \in Nat \ {0}
  /\ LastWeek \in Nat
  /\ Born \in [Pools -> Nat]

VARIABLES
  week,      \* the running epoch; epochs are numbered by the week
  meta,      \* pools with a pool_meta row
  marker,    \* pool_meta.epochs_synced_ts, 0 when never fetched
  stored,    \* pool_epochs: per pool, rows of an epoch and its votes
  phase,     \* where each scan is
  start,     \* the scan's epoch_start
  useCache,  \* could the scan open the ledger?
  seen,      \* the pool_meta rows the scan read: known, and the marker
  cand,      \* the scan's candidate pools
  source,    \* where a candidate's history comes from, once that is decided
  history,   \* the rows the scan uses
  toSave     \* fetched candidates whose rows are still to be written back

scanVars == <<phase, start, useCache, seen, cand, source, history, toSave>>
vars == <<week, meta, marker, stored, scanVars>>

\* Votes of an epoch: they move while it runs, and are final once it is closed.
Votes == {"moving", "final"}
Rows == (0..LastWeek) \X Votes

Unseen == [known |-> FALSE, marker |-> 0]

Init ==
  /\ week \in 2..LastWeek   \* a marker of 0 is older than any real one
  /\ meta = {}
  /\ marker = [p \in Pools |-> 0]
  /\ stored = [p \in Pools |-> {}]
  /\ phase = [s \in Scanners |-> "idle"]
  /\ start = [s \in Scanners |-> 0]
  /\ useCache = [s \in Scanners |-> FALSE]
  /\ seen = [s \in Scanners |-> [p \in Pools |-> Unseen]]
  /\ cand = [s \in Scanners |-> {}]
  /\ source = [s \in Scanners |-> [p \in Pools |-> "none"]]
  /\ history = [s \in Scanners |-> [p \in Pools |-> {}]]
  /\ toSave = [s \in Scanners |-> {}]

-----------------------------------------------------------------------------

\* The epoch flips, Thursday 00:00 UTC.  A scan straddles one flip at most.
Flip ==
  /\ week < LastWeek
  /\ \A s \in Scanners : phase[s] # "idle" => start[s] = week
  /\ week' = week + 1
  /\ UNCHANGED <<meta, marker, stored, scanVars>>

\* scan: read the clock, open the ledger if it opens.
Begin(s) ==
  /\ phase[s] = "idle"
  /\ phase' = [phase EXCEPT ![s] = "paging"]
  /\ start' = [start EXCEPT ![s] = week]
  /\ \E opens \in BOOLEAN : useCache' = [useCache EXCEPT ![s] = opens]
  /\ source' = [source EXCEPT ![s] = [p \in Pools |-> "none"]]
  /\ history' = [history EXCEPT ![s] = [p \in Pools |-> {}]]
  /\ UNCHANGED <<week, meta, marker, stored, seen, cand, toSave>>

\* The pages are in and ranked; read the candidates' pool_meta in one go.
ReadMeta(s) ==
  /\ phase[s] = "paging"
  /\ phase' = [phase EXCEPT ![s] = "looking"]
  /\ \E chosen \in SUBSET Pools : cand' = [cand EXCEPT ![s] = chosen]
  /\ seen' = [seen EXCEPT ![s] =
                [p \in Pools |-> IF useCache[s] /\ p \in meta
                                 THEN [known |-> TRUE, marker |-> marker[p]] ELSE Unseen]]
  /\ UNCHANGED <<week, meta, marker, stored, start, useCache, source, history, toSave>>

\* A bug: any marker at all makes the cached rows good.
FreshOnceMarked(s, p) == useCache[s] /\ seen[s][p].known /\ seen[s][p].marker > 0

\* The marker test: no older than the last completed epoch.
Fresh(s, p) == useCache[s] /\ seen[s][p].known /\ seen[s][p].marker >= start[s] - 1

\* The newest HistoryEpochs rows of a set of rows.
Newest(rows) == {r \in rows : Cardinality({q \in rows : q[1] > r[1]}) < HistoryEpochs}

\* pool_epochs is read on the main thread, before the candidate's worker starts.
LookUp(s, p) ==
  /\ phase[s] = "looking"
  /\ p \in cand[s] /\ source[s][p] = "none"
  /\ IF Fresh(s, p)
     THEN /\ source' = [source EXCEPT ![s][p] = "cache"]
          /\ history' = [history EXCEPT ![s][p] = Newest(stored[p])]
     ELSE /\ source' = [source EXCEPT ![s][p] = "asked"]
          /\ UNCHANGED history
  /\ UNCHANGED <<week, meta, marker, stored, phase, start, useCache, seen, cand, toSave>>

\* epochsByAddress: the running epoch and the HistoryEpochs before it.
OnChain(p) ==
  {<<e, IF e < week THEN "final" ELSE "moving">> :
     e \in {x \in Born[p]..week : x >= week - HistoryEpochs}}

\* A bug: the running epoch is kept with the completed ones.
CompletedAll(s, p) == OnChain(p)

\* The epochs before the scan's own.
Completed(s, p) == {r \in OnChain(p) : r[1] < start[s]}

\* A worker fetches the history and keeps the completed epochs.
Fetch(s, p) ==
  /\ source[s][p] = "asked"
  /\ source' = [source EXCEPT ![s][p] = "chain"]
  /\ history' = [history EXCEPT ![s][p] = Completed(s, p)]
  /\ UNCHANGED <<week, meta, marker, stored, phase, start, useCache, seen, cand, toSave>>

\* A pool without token0/token1 is kept unpriced, and nothing of it is recorded.
NotStandard(s, p) ==
  /\ source[s][p] = "asked"
  /\ ~seen[s][p].known
  /\ source' = [source EXCEPT ![s][p] = "odd"]
  /\ UNCHANGED <<week, meta, marker, stored, phase, start, useCache, seen, cand, history, toSave>>

\* The workers have joined.
Join(s) ==
  /\ phase[s] = "looking"
  /\ \A p \in cand[s] : source[s][p] \in {"cache", "chain", "odd"}
  /\ phase' = [phase EXCEPT ![s] = "saving"]
  /\ toSave' = [toSave EXCEPT ![s] = IF useCache[s] THEN {p \in cand[s] : source[s][p] = "chain"}
                                     ELSE {}]
  /\ UNCHANGED <<week, meta, marker, stored, start, useCache, seen, cand, source, history>>

\* store_pool_meta, for a pool whose row the scan did not find; the marker of a
\* row another scan has stored meanwhile is kept.
SaveMeta(s, p) ==
  /\ phase[s] = "saving" /\ p \in toSave[s]
  /\ ~seen[s][p].known
  /\ meta' = meta \cup {p}
  /\ seen' = [seen EXCEPT ![s][p].known = TRUE]
  /\ UNCHANGED <<week, marker, stored, phase, start, useCache, cand, source, history, toSave>>

\* The marker a scan leaves: the epoch that was running when it began.
NextMarker(s) == start[s]

\* store_pool_epochs: INSERT OR REPLACE the rows and set the marker, together.
SaveEpochs(s, p) ==
  /\ phase[s] = "saving" /\ p \in toSave[s]
  /\ seen[s][p].known
  /\ stored' = [stored EXCEPT ![p] =
                  {r \in @ : \A q \in history[s][p] : q[1] # r[1]} \cup history[s][p]]
  /\ marker' = [marker EXCEPT ![p] = NextMarker(s)]
  /\ toSave' = [toSave EXCEPT ![s] = @ \ {p}]
  /\ UNCHANGED <<week, meta, phase, start, useCache, seen, cand, source, history>>

\* The scan returns its result.
Finish(s) ==
  /\ phase[s] = "saving"
  /\ toSave[s] = {}
  /\ phase' = [phase EXCEPT ![s] = "idle"]
  /\ UNCHANGED <<week, meta, marker, stored, start, useCache, seen, cand, source, history, toSave>>

\* A failed request or a killed process: what is stored so far stays.
Fail(s) ==
  /\ phase[s] # "idle"
  /\ phase' = [phase EXCEPT ![s] = "idle"]
  /\ cand' = [cand EXCEPT ![s] = {}]
  /\ source' = [source EXCEPT ![s] = [p \in Pools |-> "none"]]
  /\ toSave' = [toSave EXCEPT ![s] = {}]
  /\ UNCHANGED <<week, meta, marker, stored, start, useCache, seen, history>>

ScanStep(s) ==
  \/ Begin(s) \/ ReadMeta(s) \/ Join(s) \/ Finish(s) \/ Fail(s)
  \/ \E p \in Pools : \/ LookUp(s, p) \/ Fetch(s, p) \/ NotStandard(s, p)
                      \/ SaveMeta(s, p) \/ SaveEpochs(s, p)

Next == Flip \/ \E s \in Scanners : ScanStep(s)

Spec == Init /\ [][Next]_vars

-----------------------------------------------------------------------------

TypeOK ==
  /\ week \in 0..LastWeek
  /\ meta \subseteq Pools
  /\ marker \in [Pools -> 0..LastWeek]
  /\ stored \in [Pools -> SUBSET Rows]
  /\ phase \in [Scanners -> {"idle", "paging", "looking", "saving"}]
  /\ start \in [Scanners -> 0..LastWeek]
  /\ useCache \in [Scanners -> BOOLEAN]
  /\ seen \in [Scanners -> [Pools -> [known : BOOLEAN, marker : 0..LastWeek]]]
  /\ cand \in [Scanners -> SUBSET Pools]
  /\ source \in [Scanners -> [Pools -> {"none", "asked", "cache", "chain", "odd"}]]
  /\ history \in [Scanners -> [Pools -> SUBSET Rows]]
  /\ toSave \in [Scanners -> SUBSET Pools]

\* "Immutable once the epoch closes": the cache never holds votes that were
\* still moving, although a scan may straddle the flip (_scan_candidate).
StoredIsFinal == \A p \in Pools : \A r \in stored[p] : r[2] = "final"

\* The completed epochs of pool p that a scan begun in epoch w should use.
Wanted(p, w) == {e \in Born[p]..(w - 1) : e >= w - HistoryEpochs}

Used(s, p) == {r[1] : r \in history[s][p]}

\* What every scan can count on: between the oldest and the newest epoch it
\* wants, nothing is missing, whoever filled the cache and when.
NoHoleInside ==
  \A s \in Scanners, p \in Pools :
    source[s][p] \in {"cache", "chain"} =>
      \A e \in Wanted(p, start[s]) :
        e \in Used(s, p) \/ e = start[s] - 1 \/ e = start[s] - HistoryEpochs
=============================================================================
