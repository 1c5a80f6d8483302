----------------------------- MODULE MCAmounts -----------------------------
(* A finite instance of Amounts for TLC: an amount, one too large for a     *)
(* tontine, and one too large for 8 bytes.                                  *)
EXTENDS Amounts

SomeAmounts ==
  {<<"5">>, [i \in 1..9 |-> "9"], [i \in 1..20 |-> "9"]}
=============================================================================
