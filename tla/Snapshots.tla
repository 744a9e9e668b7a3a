----------------------------- MODULE Snapshots -----------------------------
(***************************************************************************)
(* The position snapshots a sync leaves behind and what the pages make of  *)
(* them (service/sync.py, ledger/reports.py), on a ledger that is being    *)
(* migrated (module Migrations).                                           *)
(*                                                                         *)
(* A sync writes four groups one after another, each with its own clock    *)
(* reading and its own transaction, all under the id of the run; the       *)
(* transaction of the aerodrome group stays open across network calls and  *)
(* is committed by the price cache in the middle.  latest_snapshots shows  *)
(* the rows of the run that wrote the newest row.  Runs die half way, and  *)
(* after a takeover of the lock two of them write at once.                 *)
(***************************************************************************)
EXTENDS Migrations, FiniteSets

CONSTANTS
  Runs,      \* openers that sync; the others only read
  Nobody,    \* not a run: no write transaction is open
  NoRun,     \* sync_run_id of a row from before version 6
  Groups,    \* the groups a sync writes, in order: an adapter may be missing
  Pools,     \* pools a veNFT can vote for
  MaxClock,  \* bound: the last clock tick
  MaxCuts,   \* bound: runs that die half way
  Overlap    \* may two runs write at once?

\* The run id version 6 makes of an old row's time.
PreV6(ts) == <<"pre-v6", ts>>

\* The times of rows from before version 6.
OldTimes == 0..1

\* Each group is written once, and no program is older than the run ids, which
\* version 6 brings.
ASSUME SnapshotsAssumption ==
  /\ Runs \subseteq Openers
  /\ Nobody \notin Runs
  /\ NoRun \notin Runs
  /\ \A ts \in OldTimes : PreV6(ts) \notin Runs \cup {NoRun}
  /\ Groups \in Seq({"balances", "aerodrome", "morpho", "forty_acres"})
  /\ Groups # <<>> /\ Groups[1] = "balances"
  /\ \A g, h \in DOMAIN Groups : Groups[g] = Groups[h] => g = h
  /\ \A v \in DOMAIN Scripts : v < 6 => \A i \in DOMAIN Scripts[v] : Scripts[v][i] # "fill"
  /\ \A p \in Openers : \E v \in 1..Build[p] : \E i \in DOMAIN Scripts[v] : Scripts[v][i] = "fill"
  /\ MaxClock \in Nat /\ MaxCuts \in Nat
  /\ Overlap \in BOOLEAN

VARIABLES
  clock,      \* the time
  votes,      \* the pools the veNFT votes for now
  owing,      \* the pools that hold unclaimed rewards of it
  rows,       \* the snapshots table
  pools,      \* sync_state aero_vote_pools: the pools ever seen voted
  writer,     \* the run whose write transaction is open, or Nobody
  newRows,    \* the uncommitted rows of that transaction
  newPools,   \* aero_vote_pools as that transaction sees it
  status,     \* per run: "ready", "reading", "lock", "claims", "writing", "finished", "cut"
  group,      \* the group a run is at, a position of Groups
  now,        \* the clock reading of that group
  todo,       \* the items of the group not yet inserted
  saw,        \* every item a run has read from the chain
  ballot,     \* the votes a run has read
  asked,      \* the pools a run has asked for rewards
  before,     \* the runs that had ended when a run began to write
  cuts        \* runs that died half way so far

world == <<clock, votes, owing>>
tables == <<rows, pools, writer, newRows, newPools>>
runVars == <<status, group, now, todo, saw, ballot, asked, before, cuts>>
vars == <<storeVars, world, tables, runVars>>

\* The items of the aerodrome group: the lock, and the claimable rewards of a pool.
Lock == <<"lock">>
Claim(p) == <<"claimable", p>>

\* Snapshots from before version 6: two groups of some old syncs.
OldRows ==
  { [id |-> 1, ts |-> 0, run |-> NoRun, item |-> <<"balances">>],
    [id |-> 2, ts |-> 1, run |-> NoRun, item |-> Lock] }

Init ==
  /\ StoreInit
  /\ clock = 2
  /\ votes \in SUBSET Pools /\ owing = votes
  /\ IF version \in 1..5 THEN rows \in {{}, OldRows} ELSE rows = {}
  /\ pools = {} /\ newPools = {}
  /\ writer = Nobody /\ newRows = {}
  /\ status = [r \in Runs |-> "ready"]
  /\ group = [r \in Runs |-> 1]
  /\ now = [r \in Runs |-> 0]
  /\ todo = [r \in Runs |-> {}]
  /\ saw = [r \in Runs |-> {}]
  /\ ballot = [r \in Runs |-> {}]
  /\ asked = [r \in Runs |-> {}]
  /\ before = [r \in Runs |-> {}]
  /\ cuts = 0

-----------------------------------------------------------------------------
(* Opening the ledger, and the world outside *)

\* A bug: one synthetic run for all the old rows.
BackfillAsOne(row) == IF row.run = NoRun THEN [row EXCEPT !.run = PreV6(0)] ELSE row

\* v6: an old row's time becomes its run id.
Backfill(row) == IF row.run = NoRun THEN [row EXCEPT !.run = PreV6(row.ts)] ELSE row

Migrate(p) ==
  /\ \/ ReadVersion(p) \/ FailStatement(p) \/ WriteVersion(p) \/ Kill(p)
     \/ Statement(p) /\ Kind(p) # "fill"
  /\ UNCHANGED <<world, tables, runVars>>

\* The UPDATE of version 6.  It needs the write lock.
FillRunIds(p) ==
  /\ Statement(p) /\ Kind(p) = "fill"
  /\ writer = Nobody
  /\ rows' = {Backfill(row) : row \in rows}
  /\ UNCHANGED <<world, pools, writer, newRows, newPools, runVars>>

Tick ==
  /\ clock < MaxClock
  /\ clock' = clock + 1
  /\ UNCHANGED <<storeVars, votes, owing, tables, runVars>>

\* The owner votes for other pools; rewards earned in the old ones stay there.
Vote ==
  /\ votes' \in SUBSET Pools
  /\ owing' = owing \cup votes'
  /\ UNCHANGED <<storeVars, clock, tables, runVars>>

-----------------------------------------------------------------------------
(* A run's snapshots *)

Ended(r) == status[r] \in {"finished", "cut"}
Writing(r) == status[r] # "ready" /\ ~Ended(r)

\* A sync has come as far as its snapshots.
Begin(r) ==
  /\ status[r] = "ready"
  /\ phase[r] = "open"
  /\ Overlap \/ \A q \in Runs : ~Writing(q)
  /\ status' = [status EXCEPT ![r] = "reading"]
  /\ before' = [before EXCEPT ![r] = {q \in Runs : Ended(q)}]
  /\ UNCHANGED <<storeVars, world, tables, group, now, todo, saw, ballot, asked, cuts>>

\* Start a group: read the clock, and ask the provider what there is.  A wallet
\* may have no position there; its balances are never empty.
ReadGroup(r) ==
  /\ status[r] = "reading"
  /\ now' = [now EXCEPT ![r] = clock]
  /\ \/ /\ Groups[group[r]] = "aerodrome"
        /\ status' = [status EXCEPT ![r] = "lock"]
        /\ ballot' = [ballot EXCEPT ![r] = votes]
        /\ UNCHANGED <<todo, saw>>
     \/ /\ Groups[group[r]] # "aerodrome"
        /\ \E items \in SUBSET {<<Groups[group[r]]>>} :
             /\ Groups[group[r]] = "balances" => items # {}
             /\ todo' = [todo EXCEPT ![r] = items]
             /\ saw' = [saw EXCEPT ![r] = @ \cup items]
        /\ status' = [status EXCEPT ![r] = "writing"]
        /\ UNCHANGED ballot
  /\ UNCHANGED <<storeVars, world, tables, group, asked, before, cuts>>

MayWrite(r) == writer \in {Nobody, r}

NewRow(r, item) ==
  [id |-> Cardinality(rows) + Cardinality(newRows) + 1, ts |-> now[r], run |-> r, item |-> item]

\* A bug: only the pools voted for now are asked, and remembered.
RemembersVotes(r) == ballot[r]

\* _aerodrome_claimable_pools: the pools ever seen, and those voted for now.
Remembers(r) == (IF writer = r THEN newPools ELSE pools) \cup ballot[r]

\* The lock's row and the remembered pools, in one transaction.
InsertLock(r) ==
  /\ status[r] = "lock"
  /\ MayWrite(r)
  /\ writer' = r
  /\ newRows' = newRows \cup {NewRow(r, Lock)}
  /\ newPools' = Remembers(r)
  /\ saw' = [saw EXCEPT ![r] = @ \cup {Lock}]
  /\ asked' = [asked EXCEPT ![r] = Remembers(r)]
  /\ status' = [status EXCEPT ![r] = "claims"]
  /\ UNCHANGED <<storeVars, world, rows, pools, group, now, todo, ballot, before, cuts>>

\* claimables: the rewards still owing in the pools asked for.
AskClaims(r) ==
  /\ status[r] = "claims"
  /\ LET claims == {Claim(p) : p \in asked[r] \cap owing} IN
       /\ todo' = [todo EXCEPT ![r] = claims]
       /\ saw' = [saw EXCEPT ![r] = @ \cup claims]
  /\ status' = [status EXCEPT ![r] = "writing"]
  /\ UNCHANGED <<storeVars, world, tables, group, now, ballot, asked, before, cuts>>

Insert(r) ==
  /\ status[r] = "writing"
  /\ MayWrite(r)
  /\ \E item \in todo[r] :
       /\ todo' = [todo EXCEPT ![r] = @ \ {item}]
       /\ newRows' = newRows \cup {NewRow(r, item)}
  /\ writer' = r
  /\ newPools' = IF writer = r THEN newPools ELSE pools
  /\ UNCHANGED <<storeVars, world, rows, pools, status, group, now, saw, ballot, asked, before, cuts>>

Commit ==
  /\ rows' = rows \cup newRows
  /\ pools' = newPools
  /\ writer' = Nobody
  /\ newRows' = {} /\ newPools' = {}

\* The price of the next item is stored, and commits what came before it.
CommitWithPrice(r) ==
  /\ status[r] = "writing" /\ todo[r] # {}
  /\ Groups[group[r]] \in {"aerodrome", "forty_acres"}
  /\ writer = r
  /\ Commit
  /\ UNCHANGED <<storeVars, world, runVars>>

\* The group is through; after the last the run has finished.
EndGroup(r) ==
  /\ status[r] = "writing" /\ todo[r] = {}
  /\ IF writer = r THEN Commit ELSE UNCHANGED tables
  /\ IF group[r] = Len(Groups)
     THEN status' = [status EXCEPT ![r] = "finished"] /\ UNCHANGED group
     ELSE /\ status' = [status EXCEPT ![r] = "reading"]
          /\ group' = [group EXCEPT ![r] = @ + 1]
  /\ now' = [now EXCEPT ![r] = 0]
  /\ UNCHANGED <<storeVars, world, todo, saw, ballot, asked, before, cuts>>

\* A failed request, a locked database or a killed process.
Cut(r) ==
  /\ Writing(r)
  /\ cuts < MaxCuts
  /\ cuts' = cuts + 1
  /\ status' = [status EXCEPT ![r] = "cut"]
  /\ IF writer = r THEN writer' = Nobody /\ newRows' = {} /\ newPools' = {}
     ELSE UNCHANGED <<writer, newRows, newPools>>
  /\ group' = [group EXCEPT ![r] = 1]
  /\ now' = [now EXCEPT ![r] = 0]
  /\ todo' = [todo EXCEPT ![r] = {}]
  /\ UNCHANGED <<storeVars, world, rows, pools, saw, ballot, asked, before>>

Next ==
  \/ Tick \/ Vote
  \/ \E p \in Openers : Migrate(p) \/ FillRunIds(p)
  \/ \E r \in Runs :
       \/ Begin(r) \/ ReadGroup(r) \/ InsertLock(r) \/ AskClaims(r) \/ Insert(r)
       \/ CommitWithPrice(r) \/ EndGroup(r) \/ Cut(r)

Spec == Init /\ [][Next]_vars

-----------------------------------------------------------------------------
(* The reader *)

\* A bug: the newest by the clock alone; of several, any.
NewestByClock(table) == CHOOSE x \in table : \A y \in table : y.ts <= x.ts

\* ORDER BY ts DESC, id DESC LIMIT 1
NewestRow(table) ==
  CHOOSE x \in table : \A y \in table : y.ts < x.ts \/ (y.ts = x.ts /\ y.id <= x.id)

\* A bug, as it was before version 6: whatever is about as old as the newest row.
ShownByWindow(table) == {x \in table : x.ts >= NewestRow(table).ts - 1}

\* latest_snapshots
Shown(table) == {x \in table : x.run = NewestRow(table).run}

\* Somebody has the ledger open, so there is a page to show and a row on it.
Page == rows # {} /\ \E p \in Openers : phase[p] = "open"

ItemsOf(table) == {x.item : x \in table}

\* "Exactly one run's rows": a page never counts a position twice, shows nothing
\* its run has not read, and all of it once that run has finished; snapshots from
\* before the run ids are shown one group at a time (latest_snapshots).
ShownIsWhole ==
  Page =>
    LET run == NewestRow(rows).run IN
      /\ \A x, y \in Shown(rows) : x.item = y.item => x = y
      /\ run \in Runs => ItemsOf(Shown(rows)) \subseteq saw[run]
      /\ run \in Runs /\ status[run] = "finished" => ItemsOf(Shown(rows)) = saw[run]
      /\ run \notin Runs => \A x, y \in Shown(rows) : x.ts = y.ts

\* A page never goes back: once a run has rows, no run that had ended before it
\* began is shown again, nor a group from before the run ids, whatever stops
\* half way and whoever writes beside it (latest_snapshots).
NeverOutdated ==
  Page =>
    \A r \in Runs : r \in {x.run : x \in rows} =>
      NewestRow(rows).run \in Runs \ before[r]

\* Rewards stay in sight after the votes have moved on: a sync asks every pool
\* that a finished sync before it saw voted for (_aerodrome_claimable_pools).
RewardsInSight ==
  \A r \in Runs, q \in Runs :
    /\ q \in before[r] /\ status[q] = "finished"
    /\ Lock \in saw[r]
    => ballot[q] \subseteq asked[r]
=============================================================================
