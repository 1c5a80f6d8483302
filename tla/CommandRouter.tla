--------------------------- MODULE CommandRouter ---------------------------
(***************************************************************************)
(* What a message text means: the keyword tables of                        *)
(* app/modules/conversations/router.py and the answer parsers of           *)
(* app/modules/conversations/service.py.                                   *)
(*                                                                         *)
(* A text stands for its normalised form (normalize_text: lower case, no   *)
(* accents, single spaces).  Free text is represented by a few samples:    *)
(* Numerals for what _parse_amount and _parse_members accept, InviteCodes  *)
(* for what normalize_invite_code accepts.                                 *)
(***************************************************************************)
EXTENDS Naturals

GlobalKeywords ==
  [CANCEL |-> {"annuler", "annule", "cancel", "stop", "abandonner"},
   MENU   |-> {"menu", "accueil", "retour"},
   HELP   |-> {"aide", "help", "?"}]

MenuKeywords ==
  [GREETING       |-> {"bonjour", "bonsoir", "salut", "hello", "hi", "coucou"},
   CREATE_TONTINE |-> {"creer", "creer une tontine", "creer tontine",
                       "nouvelle tontine", "creation", "1"},
   MY_TONTINES    |-> {"mes tontines", "mes tontine", "ma tontine",
                       "tontines", "liste", "2"},
   JOIN_TONTINE   |-> {"rejoindre", "rejoindre une tontine",
                       "rejoindre tontine", "3"},
   HELP           |-> {"4"}]

ConfirmWords ==
  {"confirmer", "confirme", "oui", "ok", "valider", "rejoindre", "1"}

FrequencyChoices ==
  {"1", "hebdomadaire", "semaine", "2", "mensuelle", "mensuel", "mois"}

(* Samples of texts made of digits, with their value. *)
Numerals == [t \in {"0", "1", "2", "3", "4", "5000", "200000000"} |->
  CASE t = "0" -> 0 [] t = "1" -> 1 [] t = "2" -> 2 [] t = "3" -> 3
    [] t = "4" -> 4 [] t = "5000" -> 5000 [] t = "200000000" -> 200000000]

InviteCodes == {"kft-a7p3q9"}

(* The command whose keywords contain the text, "UNKNOWN" if none does. *)
Lookup(table, text) ==
  IF \E command \in DOMAIN table : text \in table[command]
  THEN CHOOSE command \in DOMAIN table : text \in table[command]
  ELSE "UNKNOWN"

GlobalCommand(text) == Lookup(GlobalKeywords, text)

MenuCommand(text) ==
  IF GlobalCommand(text) # "UNKNOWN" THEN GlobalCommand(text)
  ELSE Lookup(MenuKeywords, text)

IsConfirmation(text) == text \in ConfirmWords

MaxAmount == 100000000

(* 2 <= len(name) <= 60: among the samples, all but the single characters. *)
IsName(text) == text \notin {"0", "1", "2", "3", "4", "?"}

(* The check of the amount step, which has no upper bound ... *)
IsAmount(text) == text \in DOMAIN Numerals /\ Numerals[text] > 0

(* ... and the one of TontineDraft, which has. *)
IsDraftAmount(text) == IsAmount(text) /\ Numerals[text] <= MaxAmount

IsFrequency(text) == text \in FrequencyChoices

IsMembers(text) == text \in DOMAIN Numerals /\ Numerals[text] \in 2..100

IsInviteCode(text) == text \in InviteCodes
=============================================================================
