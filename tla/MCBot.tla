------------------------------- MODULE MCBot -------------------------------
(* Finite instances of Bot for TLC: the messages of a user who joins a     *)
(* tontine; "rejoindre" both begins and confirms.                          *)
EXTENDS Bot, TLC

CONSTANTS first, help, code, confirm

Symmetry == Permutations(Handlers)

JoinEvents == {first, code, confirm}
JoinTexts == first :> "rejoindre" @@ code :> "kft-a7p3q9" @@ confirm :> "rejoindre"
JoinBatches == {<<first>>, <<code, confirm>>}

HelpEvents == JoinEvents \union {help}
HelpTexts == confirm :> "oui" @@ help :> "aide" @@ JoinTexts
HelpBatches == {<<first, help, code, confirm>>}
=============================================================================
