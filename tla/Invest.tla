------------------------------- MODULE Invest -------------------------------
(***************************************************************************)
(* The invest scout (service/invest_scout.py, providers/aave.py): what is  *)
(* offered for an idle balance, what of it is called safe, in which order  *)
(* it is shown, and what is named best.  Pure functions of one answer, so  *)
(* there is no state; what is said of them is proved in ScoutProofs.       *)
(* Rates and amounts are integers; utilization is in per cent; a protocol  *)
(* goes by the name the code looks for in it.  Tags that neither block nor *)
(* rank an opportunity are left out.                                       *)
(***************************************************************************)
EXTENDS Integers, Sequences

CONSTANT
  Unknown  \* a value the source does not give

Target == {"ETH", "cbBTC", "USDC"}

OrUnknown(S) == S \cup {Unknown}

Opportunity ==
  [protocol : STRING, mechanism : STRING, token : Target, apy : Int, apy30d : OrUnknown(Int),
   liquidity : OrUnknown(Nat), utilization : OrUnknown(Nat)]

-----------------------------------------------------------------------------
(* What the scanner offers *)

LendingProjects == {"aave-v3", "seamless", "morpho-blue"}

\* _classify and the filters of fetch_opportunities: a lending market, staked
\* ether, or a pair of dollar coins; and the 40acres vault, which DefiLlama does
\* not list.  Liquidity and utilization are never known.
Scanned(o) ==
  /\ o \in Opportunity
  /\ o.liquidity = Unknown /\ o.utilization = Unknown
  /\ \/ o.mechanism = "lending" /\ o.protocol \in LendingProjects
     \/ o.mechanism = "staking" /\ o.protocol = "lido" /\ o.token = "ETH"
     \/ o.mechanism = "stable-lp" /\ o.protocol = "aerodrome" /\ o.token = "USDC"
     \/ o.mechanism = "self-repaying-vault" /\ o.protocol = "40acres" /\ o.token = "USDC"

-----------------------------------------------------------------------------
(* tag_risks *)

Lending(o) == o.mechanism \in {"lending", "lending-vault"}

\* SLOW_WITHDRAWAL_TAGS
Slow(o) == o.protocol \in {"lido", "40acres"} \/ o.mechanism = "staking"

NotChecked(o) == o.protocol = "40acres" \/ (Lending(o) /\ o.utilization = Unknown)

UtilizationHigh(o) == Lending(o) /\ o.utilization # Unknown /\ o.utilization > 85

LiquidityLow(o, balance) ==
  Lending(o) /\ o.liquidity # Unknown /\ balance > 0 /\ o.liquidity < balance

WithdrawalSafe(o, balance) ==
  ~Slow(o) /\ ~NotChecked(o) /\ ~UtilizationHigh(o) /\ ~LiquidityLow(o, balance)

-----------------------------------------------------------------------------
(* rank and best_safe_by_token *)

Rate(o) == IF o.apy30d # Unknown THEN o.apy30d ELSE o.apy

\* idle: the balance by token.  An opportunity in another token has none.
Balance(idle, t) == IF t \in DOMAIN idle THEN idle[t] ELSE 0

Safe(o, idle) == WithdrawalSafe(o, Balance(idle, o.token))

\* The order of the sort key: (not safe, -rate).
NotAfter(o, p, idle) ==
  \/ Safe(o, idle) /\ ~Safe(p, idle)
  \/ (Safe(o, idle) <=> Safe(p, idle)) /\ Rate(o) >= Rate(p)

Ranked(s, idle) == \A i, j \in DOMAIN s : i < j => NotAfter(s[i], s[j], idle)

\* The place of the first safe opportunity in a token: no earlier one is safe.
IsBest(s, i, idle) ==
  /\ i \in DOMAIN s
  /\ Safe(s[i], idle)
  /\ \A j \in DOMAIN s : j < i => s[j].token # s[i].token \/ ~Safe(s[j], idle)
=============================================================================
