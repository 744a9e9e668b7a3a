------------------------------ MODULE Reports -------------------------------
(***************************************************************************)
(* What the pages make of the tagged ledger (ledger/reports.py): neto per  *)
(* source, the fee summary, and the lifetime account of each strategy.     *)
(* They read the same events through different filters, at any moment      *)
(* between an ingest and the next retag.  Sums are taken as the sets of    *)
(* the events summed up.                                                   *)
(***************************************************************************)
EXTENDS Tagging

Voting == "aerodrome-voting"
Rebase == "aerodrome-rebase"

Transfers == TransfersOf(Ledger)

TagsOf(e) == {pair[2] : pair \in {on \in auto \cup manual : on[1] = e}}

-----------------------------------------------------------------------------
(* neto_by_epoch_source and fee_summary *)

NonFlowTags ==
  {"own-transfer", "swap", "lock", "unlock", "deposit", "withdraw", "venft-purchase", "spam"}

\* The events of a source that neto adds up, of one kind.
Neto(src, kind) ==
  {e \in Present : Events[e].kind = kind /\ source[e] = src /\ TagsOf(e) \cap NonFlowTags = {}}

FeeSummary == {e \in Present : Events[e].kind = "gas"}

-----------------------------------------------------------------------------
(* strategy_summary *)

\* A bug: rebases are a strategy of their own.
StrategyAsIs(e) == IF "venft-purchase" \in TagsOf(e) THEN Voting ELSE source[e]

\* Purchases and rebases belong to the voting strategy.
Strategy(e) ==
  IF "venft-purchase" \in TagsOf(e) \/ source[e] = Rebase THEN Voting ELSE source[e]

\* Does the account of some strategy look at the event at all?
Counts(e) == Strategy(e) # NoSource /\ "own-transfer" \notin TagsOf(e)

\* Money put into a strategy, and taken back out of it.
Capital(e) ==
  Events[e].kind = "out" /\ TagsOf(e) \cap {"deposit", "lock", "venft-purchase"} # {}
Principal(e) == Events[e].kind = "in" /\ TagsOf(e) \cap {"withdraw", "unlock"} # {}

\* A bug: the form of a transaction is looked at before its meaning.
SlotSwapsFirst(e) ==
  CASE ~Counts(e) \/ "swap" \in TagsOf(e) -> "none"
    [] Counts(e) /\ Events[e].kind = "gas" -> "gas"
    [] Counts(e) /\ "swap" \notin TagsOf(e) /\ Capital(e) -> "deposited"
    [] Counts(e) /\ "swap" \notin TagsOf(e) /\ Principal(e) -> "withdrawn"
    [] OTHER -> IF Events[e].kind = "out" THEN "other_out" ELSE "income"

\* The column of the strategy's row that an event counts in.  A swap leg that is
\* neither capital nor principal is the same value changing form.
Slot(e) ==
  CASE ~Counts(e) -> "none"
    [] Counts(e) /\ Events[e].kind = "gas" -> "gas"
    [] Counts(e) /\ Capital(e) -> "deposited"
    [] Counts(e) /\ Principal(e) -> "withdrawn"
    [] OTHER -> IF "swap" \in TagsOf(e) THEN "none"
                ELSE IF Events[e].kind = "out" THEN "other_out" ELSE "income"

Account(strategy, slot) == {e \in Present : Strategy(e) = strategy /\ Slot(e) = slot}

-----------------------------------------------------------------------------

\* Has the event the tag by hand, or can a rule in the table give it?
MayBear(e, tag) ==
  \/ <<e, tag>> \in manual
  \/ \E i \in DOMAIN rules : /\ tag \in RuleBook[rules[i].rule].tags
                            /\ Fits(RuleBook[rules[i].rule].match, e)

\* No tag by hand and no rule makes more of the event than it is: a fee is nothing but
\* a fee; what comes in is not locked, bought or spam; and a share that comes in was
\* minted for what left before in its transaction, and not sent as a gift.
Tidy(e) ==
  /\ Events[e].kind = "gas" =>
       Events[e].counterparty \notin Tracked /\ \A tag \in NonFlowTags : ~MayBear(e, tag)
  /\ Events[e].kind = "in" =>
       /\ \A tag \in {"lock", "venft-purchase", "spam"} : ~MayBear(e, tag)
       /\ MayBear(e, "deposit") =>
            \E o \in 1..(e - 1) : Events[o].tx = Events[e].tx /\ Events[o].kind = "out"

\* May the event be a vault's share leg, if it gets a source?
MayBeShare(e) ==
  \/ Events[e].kind = "in" /\ MayBear(e, "deposit")
  \/ Events[e].kind = "out" /\ MayBear(e, "withdraw")

\* Is the share's transaction the flow of one vault, one way, in which something of
\* another contract goes the other way, and nothing is locked or bought?
TidyVault(s) ==
  LET legs == {e \in DOMAIN Events : Events[e].tx = Events[s].tx /\ Events[e].kind # "gas"}
      others == {e \in legs : Events[e].kind # Events[s].kind}
  IN  /\ \A q \in legs \ {s} : ~MayBeShare(q)
      /\ ~(MayBear(s, "deposit") /\ MayBear(s, "withdraw"))
      /\ others # {}
      /\ \A e \in legs, tag \in {"lock", "unlock", "venft-purchase"} : ~MayBear(e, tag)
      /\ \A o, i \in legs : ~(/\ Events[o].kind = "out" /\ Events[o].token = "USDC"
                             /\ Events[i].kind = "in" /\ Events[i].token = "AERO")
      /\ \A a \in others :
           Events[a].counterparty \notin Tracked =>
             Events[a].contract # Events[s].contract /\ ~MayBear(a, "own-transfer")

\* The sources for which a rule claims the event itself, before any pairing: the
\* seeded rule does so for all AERO that comes in.
Claims(e) ==
  {RuleBook[rules[i].rule].source :
     i \in {k \in DOMAIN rules : rules[k].enabled /\ Fits(RuleBook[rules[k].rule].match, e)}}
  \ {NoSource}

Sources == {source[e] : e \in Present} \ {NoSource}

\* Are all the transfers of an event's transaction in the ledger?
Whole(e) == \A o \in DOMAIN Events : Events[o].tx = Events[e].tx => o \in Present

\* The share legs of vault flows: what a vault mints on a deposit and burns on a
\* withdrawal.
ShareLegs ==
  {s \in Transfers :
     /\ Whole(s)
     /\ source[s] # NoSource
     /\ \/ Events[s].kind = "in" /\ "deposit" \in TagsOf(s)
        \/ Events[s].kind = "out" /\ "withdraw" \in TagsOf(s)}

\* "Share mint/burn legs fall out of every bucket by direction", and the assets
\* that go the other way in their transaction are counted once, as capital of the
\* same strategy, although a router hides the vault (_pair_router_vault_flows), unless
\* a rule had given them a source of their own.
VaultFlowsOnce ==
  fresh =>
    \A s \in ShareLegs :
      LET assets == {e \in Transfers : /\ Events[e].tx = Events[s].tx
                                       /\ Events[e].kind # Events[s].kind
                                       /\ Events[e].counterparty \notin Tracked}
      IN  TidyVault(s) =>
            /\ Slot(s) = "none"
            /\ \A a \in assets :
                 /\ Slot(a) = IF Events[s].kind = "in" THEN "deposited" ELSE "withdrawn"
                 /\ Strategy(a) = Strategy(s) \/ source[a] \in Claims(a)

\* The pages agree on every tidy event, retagged or not: what neto calls a source's
\* income is its strategy's income, save for what has no price, and every fee is in
\* one neto row, in the fee summary, and in the account of its strategy.
PagesAgree ==
  LET folded(strategy) == {src \in Sources : src = strategy \/ (strategy = Voting /\ src = Rebase)}
      netoOf(strategy, kind) == UNION {Neto(src, kind) : src \in folded(strategy)}
      tidy == {e \in Present : Tidy(e)}
      fees == UNION {Neto(src, "gas") : src \in Sources \cup {NoSource}}
  IN  /\ FeeSummary \cap tidy = fees \cap tidy
      /\ \A strategy \in (Sources \cup {Voting}) \ {Rebase} :
           /\ Account(strategy, "gas") \cap tidy = netoOf(strategy, "gas") \cap tidy
           /\ fresh => Account(strategy, "income") \cap priced \cap tidy =
                         netoOf(strategy, "in") \cap priced \cap tidy
=============================================================================
