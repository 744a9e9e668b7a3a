----------------------------- MODULE MCTagging ------------------------------
(***************************************************************************)
(* An instance of Tagging, with the Reports over it: a reward, vault       *)
(* shares sent as a gift, a veNFT bought for USDC, a transfer between the  *)
(* wallets, a vault deposit through a router with its gas, AERO taken out  *)
(* of a vault, and an airdrop.                                             *)
(***************************************************************************)
EXTENDS Reports

Event(tx, kind, token, counterparty, ts) ==
  [tx |-> tx, kind |-> kind, token |-> token, contract |-> token,
   counterparty |-> counterparty, ts |-> ts, nft |-> FALSE]

SomeEvents ==
  << Event("reward", "in", "AERO", "bribe", 0),
     Event("gift", "in", "share", "stranger", 0),
     Event("buy", "out", "USDC", "seller", 1),
     Event("buy", "in", "AERO", "seller", 1),
     Event("move", "out", "USDC", "wallet2", 2),
     Event("deposit", "out", "USDC", "router", 3),
     Event("deposit", "in", "share", "zero", 3),
     Event("deposit", "gas", "ETH", "nobody", 3),
     Event("redeem", "out", "share", "zero", 7),
     Event("redeem", "in", "AERO", "router", 7),
     Event("drop", "in", "junk", "stranger", 8) >>

Rule(priority, match, tags, src) ==
  [priority |-> priority, match |-> match, tags |-> tags, source |-> src]

SomeRules ==
  [ escrow |-> Rule(100, [contract |-> "AERO", kind |-> "in"], {"claim", "aero"}, Rebase),
    minted |-> Rule(55, [contract |-> "share", kind |-> "in"], {"deposit"}, "morpho"),
    burnt |-> Rule(56, [contract |-> "share", kind |-> "out"], {"withdraw"}, "morpho"),
    hand |-> Rule(55, [contract |-> "share"], {"seen"}, "misc") ]

SomeTracked == {"wallet1", "wallet2"}
SomeHandTags == {<<7, "deposit">>, <<8, "spam">>}
SomePrices == {11}
SomeSwitched == {"burnt"}
SomeAdapted == {"escrow", "minted", "burnt"}
=============================================================================
