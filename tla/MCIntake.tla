------------------------------ MODULE MCIntake ------------------------------
(* A finite instance of Intake for TLC. *)
EXTENDS Intake, TLC

Symmetry == Permutations(MessageIds) \union Permutations(Senders)
            \union Permutations(Ids)

(* The same number with and without its sign, another one, one too short. *)
SomeWaIds ==
  {<<"2", "2", "9", "9", "7", "8">>, <<"+", "2", "2", "9", "9", "7", "8">>,
   <<"2", "2", "9", "6", "1", "0">>, <<"1", "2", "3", "4", "5">>}

(* The letters of the prefix of codes and one more, where the prefix can   *)
(* hide: at the beginning of the suffix.                                   *)
SomeUpperOf == [k |-> "K", f |-> "F", t |-> "T", a |-> "A"]
SomeSuffixes == {s \in [1..LENGTH -> ALPHABET] : s[5] = "A" /\ s[6] = "A"}

(* Every number of groups, and every length of the first one. *)
SomeAmounts ==
  {<<"5">>, <<"1", "5">>, <<"5", "0", "0">>, <<"1", "2", "3", "4">>,
   <<"1", "0", "0", "0", "0">>, <<"2", "5", "0", "0", "0", "0">>,
   <<"1", "0", "0", "0", "0", "0", "0">>}
=============================================================================
