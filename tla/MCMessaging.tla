----------------------------- MODULE MCMessaging -----------------------------
(* Finite instances of Messaging for TLC. *)
EXTENDS Messaging, TLC

CONSTANTS m1, m2, st

Symmetry == Permutations(Handlers)

MCEvents == {m1, m2, st}
MCTexts == {m1, m2}

(* A message that comes after a status event and after another message. *)
TwoBatches == {<<st, m1>>, <<m2, m1>>}

(* A message that comes alone and after a status event. *)
SmallBatches == {<<m1>>, <<st, m1>>}
=============================================================================
