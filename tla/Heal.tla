-------------------------------- MODULE Heal --------------------------------
(***************************************************************************)
(* The gap healer (service/heal.py): the explorer's index can miss         *)
(* transfers, the sync's cursor has passed them, and heal finds them by    *)
(* bisecting archive balances against the ledger's legs, reads the block's *)
(* own logs, and books what is missing under the real log index.           *)
(*                                                                         *)
(* Healing takes no lock: a sync may be at work all the while, and books   *)
(* the same chain under indexes it invents.  Of the sync (module           *)
(* LedgerSync) this keeps one at a time, what it commits and when: legs in *)
(* parts, then fees, then the cursor.  So a first sync that has booked     *)
(* legs and set no cursor yet, at work or dead, is among the states heal   *)
(* meets.  One wallet and one stream are modelled; wallets share nothing   *)
(* but the ledger's unique key.                                            *)
(***************************************************************************)
EXTENDS Integers, FiniteSets, FiniteSetsExt

CONSTANTS
  Chain,             \* leg |-> [tx, block, token, amount, log], in chain order
  Silent,            \* legs that left no Transfer log (a rebase)
  Own,               \* the transactions the wallet sent itself
  MaxRounds,         \* MAX_GAP_ROUNDS
  MaxHead,           \* bound: the last block mined
  MaxFaults          \* bound: failed requests and crashes

Legs == DOMAIN Chain
Tokens == {Chain[l].token : l \in Legs}
Txs == {Chain[l].tx : l \in Legs}

ASSUME HealAssumption ==
  /\ Legs \subseteq Nat
  /\ \A l \in Legs : /\ Chain[l].block \in 1..MaxHead /\ Chain[l].amount \in Int \ {0}
                     /\ Chain[l].log \in Nat
  \* a transaction is in one block, and log indexes are the block's
  /\ \A l, k \in Legs : Chain[l].tx = Chain[k].tx => Chain[l].block = Chain[k].block
  /\ \A l, k \in Legs \ Silent :
       Chain[l].block = Chain[k].block /\ Chain[l].log = Chain[k].log => l = k
  /\ Silent \subseteq Legs
  /\ Own \subseteq Txs
  /\ {MaxHead, MaxFaults} \subseteq Nat
  /\ MaxRounds \in Nat \ {0}

VARIABLES
  head,     \* the latest block
  indexed,  \* the legs the explorer knows, or will know
  cursor,   \* the sync cursor; 0 when there is none
  ledger,   \* booked legs, each with its log index
  fees,     \* transactions whose gas is booked
  sync,     \* where the sync is
  fetched,  \* the legs it has to book
  mode,     \* where the healer is
  latest,   \* the head it read when it began
  todo,     \* tokens it has still to look at
  token,    \* the token it is at
  horizon,  \* the last block it may repair
  steps,    \* the legs it expects
  known,    \* a block at which chain and expectation agree
  rounds,   \* gaps healed for this token
  gap,      \* the block it found
  batch,    \* the missing legs it read there
  done,     \* per token: the horizon up to which it was left without a note
  faults,   \* failed requests and crashes so far
  early,    \* history: tokens this healer took when there was no cursor
  overtaken,\* history: those of them of which a sync has booked legs since
  orphans,  \* history: legs booked by a healer that saw no cursor
  mended,   \* history: legs booked by a healer that was not cut off from their fees
  unread    \* history: transactions whose receipt the healer did not get

worldVars == <<head, indexed, cursor>>
syncVars == <<sync, fetched>>
ghosts == <<early, overtaken, orphans, mended, unread>>
tokenVars == <<token, horizon, steps, known, rounds, gap, batch>>
healVars == <<mode, latest, todo, tokenVars, done>>
vars == <<worldVars, ledger, fees, syncVars, healVars, faults, ghosts>>

Mode == {"idle", "next", "search", "legs", "fees", "judge"}
NoToken == "none"
Unfinished == -1

Init ==
  /\ head = 0
  /\ indexed \in SUBSET (Legs \ Silent)
  /\ cursor = 0
  /\ ledger = {}
  /\ fees = {}
  /\ sync = "idle"
  /\ fetched = {}
  /\ mode = "idle"
  /\ latest = 0
  /\ todo = {}
  /\ token = NoToken
  /\ horizon = 0
  /\ steps = {}
  /\ known = 0
  /\ rounds = 0
  /\ gap = 0
  /\ batch = {}
  /\ done = [t \in Tokens |-> Unfinished]
  /\ faults = 0
  /\ early = {} /\ overtaken = {} /\ orphans = {} /\ mended = {} /\ unread = {}

-----------------------------------------------------------------------------
(* The ledger and the chain *)

Out(l) == Chain[l].amount < 0

\* UNIQUE (tx_hash, log_index, kind)
Key(e) == <<Chain[e.leg].tx, e.index, Out(e.leg)>>

\* INSERT OR IGNORE.
Put(events) == ledger \cup {e \in events : \A old \in ledger : Key(old) # Key(e)}

Upto(legs, t, b) == {l \in legs : Chain[l].token = t /\ Chain[l].block <= b}

Amount(l) == Chain[l].amount

\* raw_balance: what the chain holds at the end of a block.
Balance(t, b) == MapThenSumSet(Amount, Upto(Legs, t, b))

\* The same by booked events.
Total(events) == MapThenSumSet(LAMBDA e : Amount(e.leg), events)
Net(events, t, b) == Total({e \in events : e.leg \in Upto(Legs, t, b)})

\* A bug: receipts are asked for what came in.
FeesOfIncoming(legs) == {Chain[l].tx : l \in {m \in legs : ~Out(m)}} \cap Own

\* Fees to ask for: the outgoing transactions, of which tx_fees keeps the
\* wallet's own.
FeesOwed(legs) == {Chain[l].tx : l \in {m \in legs : Out(m)}} \cap Own

Mine ==
  /\ head < MaxHead
  /\ head' = head + 1
  /\ UNCHANGED <<indexed, cursor, ledger, fees, syncVars, healVars, faults, ghosts>>

-----------------------------------------------------------------------------
(* The sync *)

ToSync == {l \in indexed : Chain[l].block \in cursor..head}

\* The index the explorer's reader invents: a leg's place in its transaction.
Ordinal(legs, l) == Cardinality({k \in legs : k < l /\ Chain[k].tx = Chain[l].tx})

\* A leg as the sync books it.
Synced(l) == [leg |-> l, index |-> Ordinal(indexed, l)]

\* The sync reads its cursor and fetches what the explorer has from there on.
Fetch ==
  /\ sync = "idle"
  /\ ToSync # {}
  /\ sync' = "legs"
  /\ fetched' = ToSync
  /\ UNCHANGED <<worldVars, ledger, fees, healVars, faults, ghosts>>

\* A commit of its transfers: all of them, or those before a price was stored.
SyncLegs ==
  /\ sync = "legs"
  /\ \E l \in fetched :
       /\ ledger' = Put({Synced(k) : k \in {m \in fetched : m <= l}})
       /\ sync' = IF \A m \in fetched : m <= l THEN "fees" ELSE "legs"
  /\ overtaken' = overtaken \cup (early \cap {Chain[e.leg].token : e \in ledger' \ ledger})
  /\ UNCHANGED <<worldVars, fees, fetched, healVars, faults, early, orphans, mended, unread>>

\* Its fees, as many as there are receipts.
SyncFees ==
  /\ sync = "fees"
  /\ \E paid \in SUBSET FeesOwed(fetched) : fees' = fees \cup paid
  /\ sync' = "cursor"
  /\ UNCHANGED <<worldVars, ledger, fetched, healVars, faults, ghosts>>

\* Its cursor, above the highest block it booked.
SetCursor ==
  /\ sync = "cursor"
  /\ cursor' = Max({Chain[l].block : l \in fetched}) + 1
  /\ sync' = "idle"
  /\ fetched' = {}
  /\ UNCHANGED <<head, indexed, ledger, fees, healVars, faults, ghosts>>

\* It stops half way: what it committed stays.
SyncDies ==
  /\ sync # "idle"
  /\ faults < MaxFaults
  /\ faults' = faults + 1
  /\ sync' = "idle"
  /\ fetched' = {}
  /\ UNCHANGED <<worldVars, ledger, fees, healVars, ghosts>>

-----------------------------------------------------------------------------
(* The healer *)

\* _used_contracts: tokens the wallet has sent at least once.
UsedTokens == {Chain[e.leg].token : e \in {x \in ledger : Out(x.leg)}}

Begin ==
  /\ mode = "idle"
  /\ mode' = "next"
  /\ latest' = head
  /\ todo' = UsedTokens
  /\ done' = [t \in Tokens |-> Unfinished]
  /\ early' = {} /\ overtaken' = {}
  /\ UNCHANGED <<worldVars, ledger, fees, syncVars, tokenVars, faults, orphans, mended, unread>>

\* A bug: the sync cursor is no limit.
HorizonAtHead == latest

\* _sync_horizon: from the cursor on is the sync's territory; with no cursor the
\* healer takes it that no sync will ever fetch these blocks.
Horizon == IF cursor = 0 \/ cursor > latest THEN latest ELSE cursor - 1

Expected(b) == Net(steps, token, b)

\* Does the ledger, as the healer knows it, explain the chain at a block?
Agrees(b) == Balance(token, b) = Expected(b)

\* Go on to the next token; one left without a note is claimed explained.
Leave(claimed) ==
  /\ mode' = "next"
  /\ done' = [done EXCEPT ![token'] = IF claimed THEN horizon' ELSE Unfinished]

\* _heal_token up to its loop: replay the ledger's legs, and give up on a
\* balance that is older than the first of them.
TakeToken ==
  /\ mode = "next"
  /\ \E t \in todo :
       /\ todo' = todo \ {t}
       /\ token' = t
       /\ horizon' = Horizon
       /\ steps' = {e \in ledger : Chain[e.leg].token = t}
       /\ known' = Min({Chain[e.leg].block : e \in steps'}) - 1
       /\ IF Balance(t, known') # 0 /\ Balance(t, horizon') # Net(steps', t, horizon')
          THEN Leave(FALSE)
          ELSE mode' = "search" /\ UNCHANGED done
  /\ rounds' = 0
  /\ gap' = 0
  /\ batch' = {}
  /\ early' = IF cursor = 0 THEN early \cup {token'} ELSE early
  /\ UNCHANGED <<worldVars, ledger, fees, syncVars, latest, faults, overtaken, orphans, mended, unread>>

\* A stretch of blocks, from one that agrees to one that does not.
Stretch == (-1..MaxHead) \X (0..MaxHead)

\* A bug: the bisection takes the wrong half.
DivergenceSwapped ==
  LET search[w \in Stretch] ==
        LET mid == (w[1] + w[2]) \div 2
        IN  IF w[2] - w[1] <= 1 THEN w[2]
            ELSE IF Agrees(mid) THEN search[<<w[1], mid>>] ELSE search[<<mid, w[2]>>]
  IN  search[<<known, horizon>>]

\* _first_divergence: the block where the stretch that is left ends.
Divergence ==
  LET search[w \in Stretch] ==
        LET mid == (w[1] + w[2]) \div 2
        IN  IF w[2] - w[1] <= 1 THEN w[2]
            ELSE IF Agrees(mid) THEN search[<<mid, w[2]>>] ELSE search[<<w[1], mid>>]
  IN  search[<<known, horizon>>]

\* A bug: a leg is looked for by the ledger's unique key.
LedgeredByKey(l) == \E e \in ledger : Key(e) = <<Chain[l].tx, Chain[l].log, Out(l)>>

\* _already_ledgered: by content, since indexes are invented.
AlreadyLedgered(l) ==
  \E e \in ledger : /\ Chain[e.leg].tx = Chain[l].tx
                    /\ Chain[e.leg].token = Chain[l].token
                    /\ Chain[e.leg].amount = Chain[l].amount

\* The Transfer logs of a block that the ledger does not have.
MissingLegs(b) ==
  {l \in Legs \ Silent : /\ Chain[l].token = token /\ Chain[l].block = b
                         /\ ~AlreadyLedgered(l)}

Exhausted == rounds >= MaxRounds

\* The loop ends: the rounds are used up (whatever the chain says by now), or
\* everything is explained.
Stop ==
  /\ mode = "search"
  /\ Exhausted \/ Agrees(horizon)
  /\ UNCHANGED <<worldVars, ledger, fees, syncVars, latest, todo, tokenVars, faults, ghosts>>
  /\ Leave(~Exhausted)

\* Find the next gap and read its block; a block without missing logs is noted.
Locate ==
  /\ mode = "search"
  /\ ~Exhausted /\ ~Agrees(horizon)
  /\ gap' = Divergence
  /\ batch' = MissingLegs(gap')
  /\ UNCHANGED <<worldVars, ledger, fees, syncVars, latest, todo, token, horizon, steps, known, rounds>>
  /\ UNCHANGED <<faults, ghosts>>
  /\ IF batch' = {} THEN Leave(FALSE) ELSE mode' = "legs" /\ UNCHANGED done

\* A missing leg under its real index.
Healed(l) == [leg |-> l, index |-> Chain[l].log]

Book(legs) ==
  /\ ledger' = Put({Healed(l) : l \in legs})
  /\ orphans' = IF token \in early THEN orphans \cup legs ELSE orphans

\* _ingest_block_legs: book the legs, priced like any other.
BookLegs ==
  /\ mode = "legs"
  /\ Book(batch)
  /\ mended' = mended \cup batch
  /\ mode' = IF \E l \in batch : Out(l) THEN "fees" ELSE "judge"
  /\ UNCHANGED <<worldVars, fees, syncVars, latest, todo, tokenVars, done, faults>>
  /\ UNCHANGED <<early, overtaken, unread>>

\* The fees, as many as there are receipts (tx_fees passes over a missing one).
BookFees ==
  /\ mode = "fees"
  /\ \E paid \in SUBSET FeesOwed(batch) :
       /\ fees' = fees \cup paid
       /\ unread' = unread \cup (FeesOwed(batch) \ paid)
  /\ mode' = "judge"
  /\ UNCHANGED <<worldVars, ledger, syncVars, latest, todo, tokenVars, done, faults>>
  /\ UNCHANGED <<early, overtaken, orphans, mended>>

\* Does the block add up now?  If not, something moved without a log.
Judge ==
  /\ mode = "judge"
  /\ steps' = steps \cup {Healed(l) : l \in batch}
  /\ UNCHANGED <<worldVars, ledger, fees, syncVars, latest, todo, token, horizon, gap, batch>>
  /\ UNCHANGED <<faults, ghosts>>
  /\ IF Balance(token, gap) = Net(steps', token, gap)
     THEN /\ rounds' = rounds + 1
          /\ known' = gap
          /\ mode' = "search"
          /\ UNCHANGED done
     ELSE UNCHANGED <<rounds, known>> /\ Leave(FALSE)

\* A request fails (the token is left with a note) or the process dies.  A
\* stored price commits the legs before it, so part of a batch may stay.
Interrupted ==
  /\ mode \in {"search", "legs", "fees"}
  /\ faults < MaxFaults
  /\ faults' = faults + 1
  /\ \/ UNCHANGED <<ledger, orphans>>
     \/ mode = "legs" /\ \E l \in batch : Book({k \in batch : k < l})
  /\ mended' = IF mode = "fees" THEN mended \ batch ELSE mended
  /\ UNCHANGED <<worldVars, fees, syncVars, latest, tokenVars, early, overtaken, unread>>
  /\ \/ Leave(FALSE) /\ UNCHANGED todo
     \/ mode' = "idle" /\ todo' = {} /\ UNCHANGED done

Finish ==
  /\ mode = "next"
  /\ todo = {}
  /\ mode' = "idle"
  /\ UNCHANGED <<worldVars, ledger, fees, syncVars, latest, todo, tokenVars, done, faults, ghosts>>

SyncStep == Fetch \/ SyncLegs \/ SyncFees \/ SetCursor \/ SyncDies

HealStep ==
  \/ Begin \/ TakeToken \/ Stop \/ Locate \/ BookLegs \/ BookFees \/ Judge
  \/ Interrupted \/ Finish

Next == Mine \/ SyncStep \/ HealStep

Spec == Init /\ [][Next]_vars

-----------------------------------------------------------------------------

TypeOK ==
  /\ head \in 0..MaxHead
  /\ indexed \subseteq Legs
  /\ cursor \in 0..(MaxHead + 1)
  /\ ledger \subseteq [leg : Legs, index : Nat]
  /\ fees \subseteq Own
  /\ sync \in {"idle", "legs", "fees", "cursor"}
  /\ fetched \subseteq Legs /\ (sync # "idle" => fetched # {})
  /\ mode \in Mode
  /\ latest \in 0..head
  /\ todo \subseteq Tokens
  /\ token \in Tokens \cup {NoToken}
  /\ horizon \in 0..latest
  /\ steps \subseteq [leg : Legs, index : Nat]
  /\ known \in 0..MaxHead
  /\ rounds \in 0..MaxRounds
  /\ gap \in 0..MaxHead
  /\ batch \subseteq Legs
  /\ done \in [Tokens -> 0..MaxHead \cup {Unfinished}]
  /\ faults \in 0..MaxFaults
  /\ overtaken \subseteq early /\ early \subseteq Tokens
  /\ orphans \subseteq Legs /\ mended \subseteq Legs
  /\ unread \subseteq Own

\* Whatever sync and healer do in whatever order, and wherever either stops, no
\* transfer is booked twice: they own disjoint blocks (_sync_horizon), and
\* within a block legs are compared by content (_already_ledgered).  The one
\* exception are legs a healer booked when there was no cursor, before or amid
\* the first sync: that sync books them too.
NeverTwice == \A e, f \in ledger : e.leg = f.leg /\ e.leg \notin orphans => e = f

\* A leg up to block b that is not booked since its real log index is the one the
\* sync invented for another leg of the transaction.
Crowded(t, b) ==
  \E l \in Upto(Legs \ Silent, t, b) :
    (\E e \in ledger : Key(e) = Key(Healed(l))) /\ \A e \in ledger : e.leg # l

\* A token that heal leaves without a note is explained: the ledger's legs sum
\* to the chain's balance at the horizon, and keep doing so (_heal_token), unless
\* heal took it when there was no cursor and a sync has booked of it since, or a
\* leg's key was taken when heal counted it as booked.
ReportIsTrue ==
  \A t \in Tokens : done[t] # Unfinished =>
    \/ Balance(t, done[t]) = Net(ledger, t, done[t])
    \/ t \in overtaken
    \/ Crowded(t, done[t])

\* The bisection lands on a block whose own legs make the difference: chain and
\* expectation agree just before it and differ at it (_first_divergence).
BisectionIsSound ==
  mode \in {"legs", "fees", "judge"} /\ known < horizon => Agrees(gap - 1) /\ ~Agrees(gap)

\* The fees of healed legs follow them (_ingest_block_legs: "the missing tx's gas
\* is missing too"): of a healer that was not stopped in between, only a missing
\* receipt keeps one out.
FeesFollow ==
  \A l \in mended : Out(l) /\ Chain[l].tx \in Own =>
    Chain[l].tx \in fees \cup unread \/ (mode = "fees" /\ l \in batch)
=============================================================================
