----------------------------- MODULE LedgerSync -----------------------------
(***************************************************************************)
(* How a sync copies the chain into the ledger (service/sync.py,           *)
(* ledger/ingest.py, providers/blockscout.py).                             *)
(*                                                                         *)
(* A run reads one block cursor per wallet and stream, fetches every       *)
(* transfer from there on in parallel worker threads, ingests the answers  *)
(* one stream at a time in the wallets' order (transfers, then gas fees),  *)
(* and only then moves that stream's cursor.  UNIQUE (tx_hash, log_index,  *)
(* kind) makes a repeated insert harmless; log_index is invented by the    *)
(* reader, since the explorer's rows carry none.                           *)
(*                                                                         *)
(* The chain grows between any two requests, a run may stop at any step,   *)
(* a batch of receipts may come back with some missing, and with Overlap a *)
(* second run works beside the first, as after a takeover of the sync lock *)
(* (module SyncLock).  What the code does lose this way is written down in *)
(* two history variables, gaps and unread, that no action reads.           *)
(***************************************************************************)
EXTENDS Integers, FiniteSets, FiniteSetsExt

CONSTANTS
  Runs,           \* processes that sync
  Nobody,         \* not a run: no write transaction is open
  Wallets,        \* tracked addresses, numbered in the order of the config
  Chain,          \* transfer number |-> [tx, block, family, from, to], in chain order
  Sender,         \* tx |-> the address that sent it and paid its gas
  MaxHead,        \* bound: the last block mined
  MaxFaults,      \* bound: how many runs stop half way
  Overlap         \* may two runs be at work at once?

Family == {"native", "token", "nft"}
Stream == {"coin", "nft"}

ASSUME LedgerAssumption ==
  /\ Nobody \notin Runs
  /\ Wallets \subseteq Nat
  /\ MaxHead \in Nat
  /\ MaxFaults \in Nat
  /\ Overlap \in BOOLEAN

ASSUME ChainAssumption ==
  /\ DOMAIN Chain \subseteq Nat \ {0}
  /\ \A t \in DOMAIN Chain : Chain[t].block \in Nat /\ Chain[t].family \in Family
  /\ \A t, u \in DOMAIN Chain : Chain[t].tx = Chain[u].tx => Chain[t].block = Chain[u].block
  \* a transaction is one row of the explorer's list of transactions
  /\ \A t, u \in DOMAIN Chain :
       Chain[t].tx = Chain[u].tx /\ Chain[t].family = "native" /\ Chain[u].family = "native" => t = u

VARIABLES
  head,     \* the latest block
  ledger,   \* the committed events
  cursor,   \* per wallet and stream: the first block not yet synced
  stage,    \* where each run is
  since,    \* the cursors a run read
  asked,    \* per run and wallet: the queries its worker has had answered
  got,      \* per run and wallet: the transfers those answers held
  todo,     \* the streams a run has still to ingest
  job,      \* the stream a run is ingesting
  left,     \* the events of the batch not yet inserted
  writer,   \* the run whose write transaction is open, or Nobody
  pending,  \* the uncommitted events of that transaction
  faults,   \* runs that stopped half way so far
  gaps,     \* history: legs mined between the two queries of a run's coin stream
  unread    \* history: gas fees whose receipt was missing from a run's batch

runVars == <<stage, since, asked, got, todo, job, left>>
history == <<gaps, unread>>
vars == <<head, ledger, cursor, runVars, writer, pending, faults, history>>

Transfers == DOMAIN Chain
Jobs == Wallets \X Stream

\* The stream whose cursor covers a family of transfers.
StreamOf(family) == IF family = "nft" THEN "nft" ELSE "coin"

\* Does transfer t move value from or to wallet w?
Touches(t, w) == w \in {Chain[t].from, Chain[t].to}

Stage == {"idle", "fetch", "pick", "transfers", "fees", "cursor"}

NoJob == <<>>

Init ==
  /\ head = 0
  /\ ledger = {}
  /\ cursor = [j \in Jobs |-> 0]
  /\ stage = [r \in Runs |-> "idle"]
  /\ since = [r \in Runs |-> [j \in Jobs |-> 0]]
  /\ asked = [r \in Runs |-> [w \in Wallets |-> {}]]
  /\ got = [r \in Runs |-> [w \in Wallets |-> {}]]
  /\ todo = [r \in Runs |-> {}]
  /\ job = [r \in Runs |-> NoJob]
  /\ left = [r \in Runs |-> {}]
  /\ writer = Nobody
  /\ pending = {}
  /\ faults = 0
  /\ gaps = {}
  /\ unread = {}

-----------------------------------------------------------------------------
(* The chain, and a run's network phase *)

Mine ==
  /\ head < MaxHead
  /\ head' = head + 1
  /\ UNCHANGED <<ledger, cursor, runVars, writer, pending, faults, history>>

\* Phase 1: read the cursors.
Start(r) ==
  /\ stage[r] = "idle"
  /\ Overlap \/ \A q \in Runs : stage[q] = "idle"
  /\ stage' = [stage EXCEPT ![r] = "fetch"]
  /\ since' = [since EXCEPT ![r] = cursor]
  /\ asked' = [asked EXCEPT ![r] = [w \in Wallets |-> {}]]
  /\ got' = [got EXCEPT ![r] = [w \in Wallets |-> {}]]
  /\ UNCHANGED <<head, ledger, cursor, todo, job, left, writer, pending, faults, history>>

\* A bug: the cursor's own block is taken for synced already.
SinceAfter(r, w, f) == since[r][<<w, StreamOf(f)>>] + 1

\* The first block a query asks for.
Since(r, w, f) == since[r][<<w, StreamOf(f)>>]

\* What the explorer answers for one family, now.
Answer(r, w, f) ==
  {t \in Transfers : /\ Chain[t].family = f
                     /\ Touches(t, w)
                     /\ Chain[t].block \in Since(r, w, f)..head}

\* Phase 2: the worker of wallet w asks for native, then token, then NFT rows.
\* What the token query would still show of the native rows is a gap: the chain
\* grew in between, and the stream's cursor will not know.
\* (Receipts it also asks for; they do not depend on when, see FeeEvents.)
Query(r, w, f) ==
  /\ stage[r] = "fetch"
  /\ asked[r][w] = CASE f = "native" -> {}
                     [] f = "token" -> {"native"}
                     [] f = "nft" -> {"native", "token"}
  /\ asked' = [asked EXCEPT ![r][w] = @ \cup {f}]
  /\ got' = [got EXCEPT ![r][w] = @ \cup Answer(r, w, f)]
  /\ gaps' = IF f = "token" THEN gaps \cup (Answer(r, w, "native") \ got[r][w]) \X {w} ELSE gaps
  /\ UNCHANGED <<head, ledger, cursor, stage, since, todo, job, left, writer, pending, faults, unread>>

\* Every worker is back: phase 3 begins.
Gather(r) ==
  /\ stage[r] = "fetch"
  /\ \A w \in Wallets : asked[r][w] = Family
  /\ stage' = [stage EXCEPT ![r] = "pick"]
  /\ todo' = [todo EXCEPT ![r] = Jobs]
  /\ UNCHANGED <<head, ledger, cursor, since, asked, got, job, left, writer, pending, faults, history>>

-----------------------------------------------------------------------------
(* A run's ingest phase: one stream of one wallet after another *)

Batch(r, j) == {t \in got[r][j[1]] : StreamOf(Chain[t].family) = j[2]}

\* A bug: the rows are numbered through the answer, not within their transaction.
OrdinalInAnswer(rows, t) == Cardinality({u \in rows : u < t /\ Chain[u].family = Chain[t].family})

\* The row's number among its family's rows of its transaction, in this answer.
Ordinal(rows, t) ==
  Cardinality({u \in rows : u < t /\ Chain[u].tx = Chain[t].tx /\ Chain[u].family = Chain[t].family})

\* The event of transfer t in wallet w's answer.  Native rows have log_index -1
\* and NFT rows an ordinal from NFT_ORDINAL_BASE up, so ordinals of two families
\* never meet.
LegEvent(rows, t, w) ==
  [tx |-> Chain[t].tx, family |-> Chain[t].family, ordinal |-> Ordinal(rows, t),
   kind |-> IF Chain[t].from = w THEN "transfer_out" ELSE "transfer_in",
   wallet |-> w, leg |-> t]

LegEvents(r, j) == {LegEvent(Batch(r, j), t, j[1]) : t \in Batch(r, j)}

\* A fee is of its transaction, not of any one leg.
FeeEvent(tx, w) ==
  [tx |-> tx, family |-> "fee", ordinal |-> 0, kind |-> "gas_fee", wallet |-> w, leg |-> 0]

\* A bug: only the batch's token transfers are asked receipts for.
TokenFeeEvents(r, j) ==
  {FeeEvent(Chain[t].tx, j[1]) :
     t \in {u \in Batch(r, j) : /\ Chain[u].family = "token"
                                /\ Chain[u].from = j[1] /\ Sender[Chain[u].tx] = j[1]}}

\* tx_fees: the outgoing transactions of the batch that the wallet itself sent.
FeeEvents(r, j) ==
  {FeeEvent(Chain[t].tx, j[1]) :
     t \in {u \in Batch(r, j) : Chain[u].from = j[1] /\ Sender[Chain[u].tx] = j[1]}}

\* The unique key of the events table.
Key(e) == <<e.tx, e.family, e.ordinal, e.kind>>

\* The wallets come in the order of the config, coins before NFTs.
Before(j, k) == j[1] < k[1] \/ (j[1] = k[1] /\ j[2] = "coin" /\ k[2] = "nft")

\* _ingest_address: a stream that brought nothing is passed over, cursor and all.
Pick(r) ==
  /\ stage[r] = "pick"
  /\ \E j \in todo[r] :
       /\ \A k \in todo[r] \ {j} : Before(j, k)
       /\ todo' = [todo EXCEPT ![r] = @ \ {j}]
       /\ \/ /\ Batch(r, j) = {}
             /\ UNCHANGED <<stage, job, left>>
          \/ /\ Batch(r, j) # {}
             /\ stage' = [stage EXCEPT ![r] = "transfers"]
             /\ job' = [job EXCEPT ![r] = j]
             /\ left' = [left EXCEPT ![r] = LegEvents(r, j)]
  /\ UNCHANGED <<head, ledger, cursor, since, asked, got, writer, pending, faults, history>>

\* INSERT OR IGNORE of one event, in the batch's transaction.  (The order
\* within a batch is left open: its keys are distinct.)
Insert(r) ==
  /\ stage[r] \in {"transfers", "fees"}
  /\ writer \in {Nobody, r}
  /\ writer' = r
  /\ \E e \in left[r] :
       /\ left' = [left EXCEPT ![r] = @ \ {e}]
       /\ pending' = IF \E old \in ledger \cup pending : Key(old) = Key(e)
                     THEN pending ELSE pending \cup {e}
  /\ UNCHANGED <<head, ledger, cursor, stage, since, asked, got, todo, job, faults, history>>

\* Looking up the price of the next event may store it in the price cache; that
\* is a nested `with conn' on the same connection and commits what came before.
CommitWithPrice(r) ==
  /\ stage[r] \in {"transfers", "fees"}
  /\ writer = r
  /\ left[r] # {}
  /\ ledger' = ledger \cup pending
  /\ pending' = {}
  /\ writer' = Nobody
  /\ UNCHANGED <<head, cursor, runVars, faults, history>>

Committed(r) ==
  /\ left[r] = {}
  /\ writer = r
  /\ ledger' = ledger \cup pending
  /\ pending' = {}
  /\ writer' = Nobody

\* The transfers are in: go on to the fees of the same stream, as many of them
\* as the receipts batch brought.
CommitTransfers(r) ==
  /\ stage[r] = "transfers"
  /\ Committed(r)
  /\ stage' = [stage EXCEPT ![r] = "fees"]
  /\ \E fees \in SUBSET FeeEvents(r, job[r]) :
       /\ left' = [left EXCEPT ![r] = fees]
       /\ unread' = unread \cup (FeeEvents(r, job[r]) \ fees)
  /\ UNCHANGED <<head, cursor, since, asked, got, todo, job, faults, gaps>>

\* The fees are in (there may have been none, and no transaction).
CommitFees(r) ==
  /\ stage[r] = "fees"
  /\ \/ Committed(r)
     \/ left[r] = {} /\ writer # r /\ UNCHANGED <<ledger, pending, writer>>
  /\ stage' = [stage EXCEPT ![r] = "cursor"]
  /\ UNCHANGED <<head, cursor, since, asked, got, todo, job, left, faults, history>>

\* A bug: the cursor jumps to the chain's present height.
CursorAtHead(r) == head + 1

\* Just above the highest block of what was ingested.
NextCursor(r) == Max({Chain[t].block : t \in Batch(r, job[r])}) + 1

\* _set_cursor, in a transaction of its own.
SetCursor(r) ==
  /\ stage[r] = "cursor"
  /\ writer = Nobody
  /\ cursor' = [cursor EXCEPT ![job[r]] = NextCursor(r)]
  /\ stage' = [stage EXCEPT ![r] = "pick"]
  /\ job' = [job EXCEPT ![r] = NoJob]
  /\ UNCHANGED <<head, ledger, since, asked, got, todo, left, writer, pending, faults, history>>

Forget(r) ==
  /\ stage' = [stage EXCEPT ![r] = "idle"]
  /\ since' = [since EXCEPT ![r] = [j \in Jobs |-> 0]]
  /\ asked' = [asked EXCEPT ![r] = [w \in Wallets |-> {}]]
  /\ got' = [got EXCEPT ![r] = [w \in Wallets |-> {}]]
  /\ todo' = [todo EXCEPT ![r] = {}]
  /\ job' = [job EXCEPT ![r] = NoJob]
  /\ left' = [left EXCEPT ![r] = {}]

\* Every stream is ingested (tagging and snapshots follow, elsewhere).
Finish(r) ==
  /\ stage[r] = "pick"
  /\ todo[r] = {}
  /\ Forget(r)
  /\ UNCHANGED <<head, ledger, cursor, writer, pending, faults, history>>

\* A crash, a failed request, or a locked database: an open transaction is
\* rolled back, and what was fetched is forgotten.
Abort(r) ==
  /\ stage[r] # "idle"
  /\ faults < MaxFaults
  /\ faults' = faults + 1
  /\ Forget(r)
  /\ IF writer = r THEN writer' = Nobody /\ pending' = {} ELSE UNCHANGED <<writer, pending>>
  /\ UNCHANGED <<head, ledger, cursor, history>>

Progress(r) ==
  \/ Start(r) \/ (\E w \in Wallets, f \in Family : Query(r, w, f)) \/ Gather(r)
  \/ Pick(r) \/ Insert(r) \/ CommitWithPrice(r)
  \/ CommitTransfers(r) \/ CommitFees(r) \/ SetCursor(r) \/ Finish(r)

Next == Mine \/ \E r \in Runs : Progress(r) \/ Abort(r)

Spec == Init /\ [][Next]_vars

\* The scheduler starts a sync every hour, and a sync that does not fail ends.
\* Nothing is assumed of the chain's growth, and failures are finitely many.
FairSpec == Spec /\ \A r \in Runs : WF_vars(Progress(r))

-----------------------------------------------------------------------------

\* An event as the ledger keeps it.
Event ==
  [tx : {Chain[t].tx : t \in Transfers}, family : Family \cup {"fee"}, ordinal : Nat,
   kind : {"transfer_in", "transfer_out", "gas_fee"}, wallet : Wallets,
   leg : Transfers \cup {0}]

TypeOK ==
  /\ head \in Nat
  /\ ledger \subseteq Event
  /\ cursor \in [Jobs -> Nat]
  /\ stage \in [Runs -> Stage]
  /\ since \in [Runs -> [Jobs -> Nat]]
  /\ asked \in [Runs -> [Wallets -> SUBSET Family]]
  /\ got \in [Runs -> [Wallets -> SUBSET Transfers]]
  /\ todo \in [Runs -> SUBSET Jobs]
  /\ job \in [Runs -> Jobs \cup {NoJob}]
  /\ left \in [Runs -> SUBSET Event]
  /\ writer \in Runs \cup {Nobody}
  /\ pending \subseteq Event
  /\ faults \in Nat
  /\ gaps \subseteq Transfers \X Wallets
  /\ unread \subseteq Event

\* The rows of the chain a wallet's answers are drawn from.
RowsOf(w) == {u \in Transfers : Touches(u, w)}

\* The event a leg has in the ledger when the answer holds its whole transaction.
Booked(t, w) == LegEvent(RowsOf(w), t, w)

Recorded(t, w) == \E e \in ledger : e.leg = t /\ e.wallet = w

\* Per leg, the legs of other wallets that have its unique key: the
\* key does not name the wallet, so a transaction that pays two of them has one
\* key for both.
Rivals ==
  [l \in Transfers \X Wallets |->
     {m \in Transfers \X (Wallets \ {l[2]}) :
        Touches(m[1], m[2]) /\ Key(Booked(m[1], m[2])) = Key(Booked(l[1], l[2]))}]

\* A leg is on record, or is known to be missing for one of two reasons.
Settled(t, w) ==
  Recorded(t, w) \/ <<t, w>> \in gaps \/ \E l \in Rivals[<<t, w>>] : Recorded(l[1], l[2])

\* "A crash mid-run loses nothing": whatever lies below a cursor is in the
\* ledger (_ingest_address, _set_cursor), except a native leg mined between the
\* two queries of its stream, and a leg whose key another wallet's leg of the
\* same transaction has taken.
NothingLost ==
  \A t \in Transfers, w \in Wallets :
    Touches(t, w) /\ Chain[t].block < cursor[<<w, StreamOf(Chain[t].family)>>] => Settled(t, w)

\* Re-runs and overlaps are harmless: the same leg is never booked twice, though
\* it may be fetched many times from different cursors (_token_transfers_from_raw).
NoDoubleCount ==
  \A e, f \in ledger : e.leg # 0 /\ e.leg = f.leg /\ e.wallet = f.wallet => e = f

\* Below a cursor, every transaction the wallet sent has its gas fee booked
\* (ingest_fees comes before _set_cursor), unless the batch's receipts came
\* without its receipt, or its leg was in the gap of its stream's queries.
FeesComplete ==
  \A t \in Transfers, w \in Wallets :
    /\ Chain[t].from = w /\ Sender[Chain[t].tx] = w
    /\ Chain[t].block < cursor[<<w, StreamOf(Chain[t].family)>>]
    => \/ \E e \in ledger : e.kind = "gas_fee" /\ e.tx = Chain[t].tx /\ e.wallet = w
       \/ FeeEvent(Chain[t].tx, w) \in unread
       \/ <<t, w>> \in gaps

\* Every transfer of a mined block is some day in the ledger, the two exceptions
\* of NothingLost apart.
EventuallyRecorded ==
  \A n \in 1..MaxHead :
    n <= head ~> \A w \in Wallets : \A t \in RowsOf(w) : Chain[t].block = n => Settled(t, w)

-----------------------------------------------------------------------------

\* What the sync promises, without runs, requests or transactions.
Promise == INSTANCE Mirror WITH
  Legs <- {l \in Transfers \X Wallets : Touches(l[1], l[2])},
  Cell <- [l \in Transfers \X Wallets |-> <<l[2], StreamOf(Chain[l[1]].family)>>],
  Height <- [l \in Transfers \X Wallets |-> Chain[l[1]].block],
  Rival <- Rivals,
  Late <- {l \in Transfers \X Wallets : Chain[l[1]].family = "native"},
  Cells <- Jobs,
  top <- head,
  frontier <- cursor,
  recorded <- {l \in Transfers \X Wallets : Recorded(l[1], l[2])},
  skipped <- gaps

\* The sync implements the promise: recorded legs stay, only mined ones are
\* recorded, and a frontier moves only over legs that are recorded, were skipped
\* in the gap of their stream's queries, or have a recorded rival.
ImplementsMirror == Promise!Spec
=============================================================================
