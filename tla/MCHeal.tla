------------------------------- MODULE MCHeal -------------------------------
(***************************************************************************)
(* An instance of Heal: token A is bought, paid out in two legs, and given;*)
(* token B comes in with the payment, is sold, and rebased.  The payment's *)
(* first legs have the log indexes the explorer's reader may invent.       *)
(***************************************************************************)
EXTENDS Heal

Leg(tx, b, t, amount, log) ==
  [tx |-> tx, block |-> b, token |-> t, amount |-> amount, log |-> log]

PaymentsChain ==
  << Leg("buy", 1, "A", 9, 10),
     Leg("pay", 2, "A", -1, 0),
     Leg("pay", 2, "A", -2, 1),
     Leg("pay", 2, "B", 5, 2),
     Leg("sell", 3, "B", -2, 30),
     Leg("gift", 4, "A", 2, 40),
     Leg("rebase", 4, "B", 1, 42) >>

Rebase == {7}
Sent == {"pay", "sell"}
=============================================================================
