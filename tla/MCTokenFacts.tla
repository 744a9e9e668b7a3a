---------------------------- MODULE MCTokenFacts ----------------------------
(***************************************************************************)
(* Instance of TokenFacts: a pool of a major and a token its votes are     *)
(* bribed with, under every combination of the gates; the pair's other     *)
(* token is a major like the first, and left out.                          *)
(***************************************************************************)
EXTENDS TokenFacts, TLC

CONSTANTS a, b, usdc, bribe

TwoScanners == {a, b}
ThePair == {usdc}
TheBribes == {bribe}
SameScanners == Permutations(TwoScanners)

\* extra_major is tried with nothing and with the pair's token.
AllGates == [require_major_pair : BOOLEAN, extra_major : {{}, ThePair},
             min_token_age : 0..1, floor : BOOLEAN]
=============================================================================
