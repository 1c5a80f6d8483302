--------------------------- MODULE MCConversation ---------------------------
(* Finite instances of Conversation for TLC. *)
EXTENDS Conversation, TLC

Symmetry == Permutations(Handlers)

(* A text for every branch; with "1" as the answer to several questions,   *)
(* and an amount that the step takes and the draft refuses.                *)
AllTexts == {"annuler", "liste", "creer", "rejoindre", "1", "4", "200000000",
             "kft-a7p3q9"}

(* The creation workflow alone; its name is a word that opens the menu.    *)
CreateTexts == {"annuler", "creer", "1", "4"}
=============================================================================
