------------------------------ MODULE Tagging -------------------------------
(***************************************************************************)
(* Tags and sources of ledger events (ledger/tags.py), the rules that give *)
(* them (adapters), and their backup (ledger/rules_io.py).                 *)
(*                                                                         *)
(* A retag throws every rule-given tag and every source away and derives   *)
(* them again, in one transaction: rules by priority, then what follows    *)
(* from other tags.  Between retags events come in, get prices, are tagged *)
(* by hand, and rules are found.  The events are those of one wallet,      *)
(* numbered in the order in which they are inserted.                       *)
(***************************************************************************)
EXTENDS Integers, Sequences, FiniteSets, SequencesExt

CONSTANTS
  Events,      \* number |-> [tx, kind, token, contract, counterparty, ts, nft]
  Tracked,     \* the wallets' addresses
  RuleBook,    \* rule |-> [priority, match, tags, source]
  HandTags,    \* bound: the <<event, tag>> pairs somebody may set by hand
  HandPriced,  \* bound: the events whose price comes late, if at all
  Switched,    \* bound: the rules somebody may switch off
  Adapted,     \* the rules that a sync seeds or its adapters discover
  Window       \* REINVEST_WINDOW_SECONDS

Rules == DOMAIN RuleBook
NoSource == "none"
NoSources == [e \in DOMAIN Events |-> NoSource]

ASSUME TaggingAssumption ==
  /\ Len(Events) \in Nat /\ DOMAIN Events = 1..Len(Events)
  /\ \A e \in DOMAIN Events : Events[e].kind \in {"in", "out", "gas"}
  /\ \A r \in Rules : RuleBook[r].priority \in Nat
  /\ Adapted \subseteq Rules /\ IsFiniteSet(Adapted)
  /\ Window \in Nat

VARIABLES
  count,   \* events 1..count are in the ledger
  priced,  \* those with a price
  manual,  \* <<event, tag>> with origin 'manual'
  auto,    \* <<event, tag>> with origin 'rule'
  source,  \* source of each event
  rules,   \* the rule table, by id: [rule, enabled]
  fresh    \* (history) has nothing changed since the last retag?

taggingVars == <<count, priced, manual, auto, source, rules, fresh>>

Present == 1..count

TaggingInit ==
  /\ count = 0
  /\ priced = {}
  /\ manual = {}
  /\ auto = {}
  /\ source = NoSources
  /\ rules = <<>>
  /\ fresh = FALSE

-----------------------------------------------------------------------------
(* Retagging: a pipeline over the tables of the ledger *)

\* The tables, as the connection of a retag sees them.
Ledger ==
  [count |-> count, priced |-> priced, manual |-> manual, auto |-> auto, source |-> source]

Rows(db) == 1..db.count
TransfersOf(db) == {e \in Rows(db) : Events[e].kind # "gas"}

\* A bug: sources stay as the last retag left them.
BlankTags(db) == [db EXCEPT !.auto = {}]

\* What a retag starts from: neither tag nor source.
Blank(db) == [db EXCEPT !.auto = {}, !.source = NoSources]

\* INSERT OR IGNORE: a tag set by hand stays that.
Add(db, new) == [db EXCEPT !.auto = @ \cup (new \ db.manual)]

\* UPDATE: the events found get their sources.
Give(db, found) ==
  [db EXCEPT !.source =
     [e \in DOMAIN db.source |-> IF e \in DOMAIN found THEN found[e] ELSE db.source[e]]]

\* Tag the events of a set.
Mark(es, tag) == {<<e, tag>> : e \in es}

Has(db, e, tag) == <<e, tag>> \in db.auto \cup db.manual
Open(db, e) == db.source[e] = NoSource

OwnTransfersOf(db) == {e \in Rows(db) : Events[e].counterparty \in Tracked}
OwnTagged(db) == Add(db, Mark(OwnTransfersOf(db), "own-transfer"))

Fits(match, e) == \A k \in DOMAIN match : Events[e][k] = match[k]

\* One rule: all its tags, and its source where there is none yet.
ApplyRule(db, r) ==
  LET rule == RuleBook[r]
      hit == {e \in Rows(db) : Fits(rule.match, e)}
      open == {e \in hit : Open(db, e)}
  IN  Give(Add(db, hit \X rule.tags), [e \in open |-> rule.source])

\* A bug: rules run in the order in which they were found.
AsFound(table) == table

Precedes(table, i, j) ==
  LET priority(k) == RuleBook[table[k].rule].priority
  IN  priority(i) < priority(j) \/ (priority(i) = priority(j) /\ i < j)

\* ORDER BY priority, id: the n-th rule is the one that n - 1 others precede.
ByPriority(table) ==
  [n \in DOMAIN table |->
     table[CHOOSE i \in DOMAIN table :
             Cardinality({j \in DOMAIN table : Precedes(table, j, i)}) = n - 1]]

ApplyRow(db, row) == IF row.enabled THEN ApplyRule(db, row.rule) ELSE db

ApplyRules(db, table) == FoldLeft(ApplyRow, db, ByPriority(table))

\* The sourced share legs that a routed asset leg goes with.
Shares(db, e, kind, tag) ==
  {s \in Rows(db) : /\ Events[s].tx = Events[e].tx
                    /\ Events[s].kind = kind
                    /\ ~Open(db, s)
                    /\ Has(db, s, tag)}

\* _pair_router_vault_flows, one direction.  (Which share's source is taken, if
\* several differ, the query leaves open.)
Pair(db, assetKind, shareKind, tag) ==
  LET routed == {e \in Rows(db) :
                   /\ Events[e].kind = assetKind
                   /\ \E s \in Shares(db, e, shareKind, tag) :
                        Events[s].contract # Events[e].contract}
      open == {e \in routed : Open(db, e)}
      found == [e \in open |-> db.source[CHOOSE s \in Shares(db, e, shareKind, tag) : TRUE]]
  IN  Give(Add(db, Mark(routed, tag)), found)

PairFlows(db) == Pair(Pair(db, "out", "in", "deposit"), "in", "out", "withdraw")

\* Gas goes to the source of its transaction's first sourced event.
InheritGas(db) ==
  LET Sourced(e) == {s \in Rows(db) : Events[s].tx = Events[e].tx /\ ~Open(db, s)}
      open == {e \in Rows(db) \ TransfersOf(db) : Open(db, e) /\ Sourced(e) # {}}
  IN  Give(db, [e \in open |->
                  db.source[CHOOSE s \in Sourced(e) : \A q \in Sourced(e) : s <= q]])

\* In and out of one transaction.
Swaps(db) ==
  {e \in TransfersOf(db) : \E o \in TransfersOf(db) : /\ Events[o].tx = Events[e].tx
                                                      /\ Events[o].kind # Events[e].kind}

\* Out, soon after a claim.
Reinvests(db) ==
  {e \in TransfersOf(db) :
     /\ Events[e].kind = "out"
     /\ \E c \in Rows(db) : /\ Has(db, c, "claim")
                            /\ Events[e].ts \in Events[c].ts..(Events[c].ts + Window)}

\* USDC out and AERO in, in one transaction.
Purchases(db) ==
  {e \in TransfersOf(db) :
     /\ Events[e].kind = "out" /\ Events[e].token = "USDC"
     /\ \E i \in TransfersOf(db) : /\ Events[i].tx = Events[e].tx
                                   /\ Events[i].kind = "in" /\ Events[i].token = "AERO"}

\* Transfers without a price, of a token nothing ever had a price for.
Spam(db) ==
  {e \in TransfersOf(db) \ db.priced :
     /\ ~Events[e].nft
     /\ \A o \in TransfersOf(db) \cap db.priced :
          Events[o].nft \/ Events[o].token # Events[e].token}

MarkPatterns(db) ==
  Add(db, Mark(Swaps(db), "swap") \cup Mark(Reinvests(db), "reinvest")
          \cup Mark(Purchases(db), "venft-purchase") \cup Mark(Spam(db), "spam"))

\* retag_all.
Retagged(db, table) ==
  MarkPatterns(InheritGas(PairFlows(ApplyRules(OwnTagged(Blank(db)), table))))

Retag ==
  /\ \E db \in {Retagged(Ledger, rules)} :
       auto' = db.auto /\ source' = db.source
  /\ fresh' = TRUE
  /\ UNCHANGED <<count, priced, manual, rules>>

-----------------------------------------------------------------------------
(* What happens between two retags *)

\* A bug: own transfers are left to the next retag.
IngestNoTags(e) == {}

\* An own transfer is tagged with the insert, so no report ever takes it for income.
IngestTags(e) == IF Events[e].counterparty \in Tracked THEN {<<e, "own-transfer">>} ELSE {}

\* ingest_transfers, ingest_fees: the next event, with or without a price.
Ingest ==
  /\ count < Len(Events)
  /\ count' = count + 1
  /\ auto' = auto \cup IngestTags(count')
  /\ priced' = IF count' \in HandPriced THEN priced ELSE priced \cup {count'}
  /\ fresh' = FALSE
  /\ UNCHANGED <<manual, source, rules>>

\* reprice_events finds a price.
Price(e) ==
  /\ e \in (HandPriced \cap Present) \ priced
  /\ priced' = priced \cup {e}
  /\ fresh' = FALSE
  /\ UNCHANGED <<count, manual, auto, source, rules>>

\* set_manual_tag: also turns a rule's tag into a manual one.
SetManual(e, tag) ==
  /\ e \in Present
  /\ <<e, tag>> \notin manual
  /\ manual' = manual \cup {<<e, tag>>}
  /\ auto' = auto \ {<<e, tag>>}
  /\ fresh' = FALSE
  /\ UNCHANGED <<count, priced, source, rules>>

\* ensure_rule: append, unless some rule has the same match.
Ensure(table, row) ==
  IF \E i \in DOMAIN table : RuleBook[table[i].rule].match = RuleBook[row.rule].match
  THEN table ELSE Append(table, row)

\* A rule is seeded, or found by one of the adapters.
FindRule(r) ==
  /\ rules' = Ensure(rules, [rule |-> r, enabled |-> TRUE])
  /\ rules' # rules
  /\ fresh' = FALSE
  /\ UNCHANGED <<count, priced, manual, auto, source>>

\* Somebody switches a rule off in the table.
SwitchOff(i) ==
  /\ rules[i].enabled /\ rules[i].rule \in Switched
  /\ rules' = [rules EXCEPT ![i].enabled = FALSE]
  /\ fresh' = FALSE
  /\ UNCHANGED <<count, priced, manual, auto, source>>

TaggingNext ==
  \/ Ingest \/ Retag
  \/ \E e \in Present : Price(e)
  \/ \E pair \in HandTags : SetManual(pair[1], pair[2])
  \/ \E r \in Rules : FindRule(r)
  \/ \E i \in DOMAIN rules : SwitchOff(i)

TaggingSpec == TaggingInit /\ [][TaggingNext]_taggingVars

-----------------------------------------------------------------------------
(* The backup *)

\* A bug: a restored rule is enabled, whatever it was.
ImportEnabled(table, file) ==
  FoldLeft(LAMBDA t, row : Ensure(t, [row EXCEPT !.enabled = TRUE]), table, file)

\* import_local, from export_local's ordered list (disabled rules too), rule by rule;
\* one that is there already stays as it is.
ImportRules(table, file) == FoldLeft(Ensure, table, file)

Match(table, i) == RuleBook[table[i].rule].match

\* A rule table never has two rows of one match (ensure_rule).
Apart(table) == \A i, j \in DOMAIN table : Match(table, i) = Match(table, j) => i = j

\* The rule tables that the syncs of a ledger rebuilt from the chain may leave: they
\* seed and discover rules, in an order of their own, before anything is imported.
Rebuilds ==
  {found \in SeqOf([rule : Adapted, enabled : {TRUE}], Cardinality(Adapted)) : Apart(found)}

\* Are a rebuilt table's rules all in the file, with nothing that the import cannot put
\* back?  It leaves on what the file has switched off, and rows of equal priority
\* apply in the order in which they were found, so none must come before its time.
Undisturbed(found, file) ==
  \A i \in DOMAIN found :
    \E j \in DOMAIN file :
      /\ file[j] = found[i]
      /\ \A k \in 1..(j - 1) :
           RuleBook[file[k].rule].priority = RuleBook[file[j].rule].priority =>
             \E h \in 1..(i - 1) : found[h] = file[k]

-----------------------------------------------------------------------------

Tag == (UNION {RuleBook[r].tags : r \in Rules}) \cup {pair[2] : pair \in HandTags}
       \cup {"own-transfer", "deposit", "withdraw", "swap", "reinvest", "venft-purchase", "spam"}

\* A tag is on an event once: UNIQUE (event_id, tag).
TaggingTypeOK ==
  /\ count \in 0..Len(Events)
  /\ priced \subseteq Present
  /\ manual \subseteq Present \X Tag
  /\ auto \subseteq (Present \X Tag) \ manual
  /\ source \in [DOMAIN Events -> {NoSource} \cup {RuleBook[r].source : r \in Rules}]
  /\ rules \in Seq([rule : Rules, enabled : BOOLEAN])
  /\ fresh \in BOOLEAN

\* At no moment, retagged or not, does a transfer between tracked wallets stand
\* in the ledger without its tag (ingest_transfers, retag_all).
OwnTransfersTagged == \A e \in OwnTransfersOf(Ledger) : <<e, "own-transfer">> \in auto \cup manual

\* "Editing rules never leaves stale tags behind": what a retag yields depends
\* on the events, the manual tags and the rules, not on earlier retags.
HistoryFree ==
  fresh =>
    Ledger = Retagged([Ledger EXCEPT !.auto = {}, !.source = NoSources], rules)

\* "The first matching rule (by priority) that carries a source wins".
FirstRuleWins ==
  fresh =>
    LET sourced == {i \in DOMAIN rules : /\ rules[i].enabled
                                         /\ RuleBook[rules[i].rule].source # NoSource}
    IN  \A e \in Present :
          LET matching == {i \in sourced : Fits(RuleBook[rules[i].rule].match, e)}
          IN  \A i \in matching :
                (\A j \in matching \ {i} : Precedes(rules, i, j)) =>
                  source[e] = RuleBook[rules[i].rule].source

\* A ledger rebuilt from the chain and given the backup is retagged to just what it
\* was, whatever the order in which the lost one had found its rules, and whichever
\* rules the syncs of the rebuilt one found first, unless they found one that
\* was switched off or unknown, or before another of its priority (import_local).
BackupRestores ==
  fresh =>
    LET file == ByPriority(rules)
    IN  \A found \in Rebuilds :
          Undisturbed(found, file) =>
            Ledger = Retagged([Ledger EXCEPT !.auto = {}], ImportRules(found, file))
=============================================================================
