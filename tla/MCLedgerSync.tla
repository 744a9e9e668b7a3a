---------------------------- MODULE MCLedgerSync ----------------------------
(***************************************************************************)
(* Instances of LedgerSync: small chains, each with the transactions one   *)
(* question needs.  Address 0 is a stranger; 1 and 2 are tracked.          *)
(***************************************************************************)
EXTENDS LedgerSync, TLC

CONSTANTS p, q

OneRun == {p}
TwoRuns == {p, q}

Row(tx, block, family, from, to) ==
  [tx |-> tx, block |-> block, family |-> family, from |-> from, to |-> to]

One == {1}
Both == {1, 2}

\* A payment between the wallets, an airdrop to both (one key for two legs), a
\* swap (coin out, token in), an NFT.
SmallChain ==
  << Row("pay", 1, "native", 1, 2),
     Row("drop", 1, "token", 0, 1),
     Row("drop", 1, "token", 0, 2),
     Row("swap", 2, "native", 1, 0),
     Row("swap", 2, "token", 0, 1),
     Row("sale", 2, "nft", 2, 0) >>

SmallSender == [pay |-> 1, drop |-> 0, swap |-> 1, sale |-> 2]

\* One wallet buys a token, sells it, and is given an NFT.
TradeChain ==
  << Row("buy", 1, "token", 0, 1),
     Row("sell", 2, "token", 1, 0),
     Row("sell", 2, "native", 0, 1),
     Row("gift", 2, "nft", 0, 1) >>

TradeSender == [buy |-> 1, sell |-> 1, gift |-> 0]
=============================================================================
