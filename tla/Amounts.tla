------------------------------ MODULE Amounts ------------------------------
(***************************************************************************)
(* The amount step (_parse_amount and _step_create_amount of               *)
(* app/modules/conversations/service.py) against the way an amount is      *)
(* written, format_amount of texts.py included: a user types or pastes an  *)
(* amount, in groups of three digits or not, and may add cents or a sign   *)
(* that has no place there.                                                *)
(*                                                                         *)
(* An amount is the sequence of its digits, a text a sequence of           *)
(* characters: "nbsp" and "nnbsp" are the unbreakable spaces, "sup2" the   *)
(* superscript two.  The properties are about the text as it stands.       *)
(***************************************************************************)
EXTENDS SequencesExt, Text

CONSTANTS
  Meant,  \* amounts the user may mean
  Raised  \* an exception: no answer at all

Groupers == {" ", ".", "'", "nbsp", "nnbsp"}
Signs == {"sup2", "F", "-"}
CentMarks == {",", "."}

(* Any number of 18 digits fits in the 8 bytes of MongoDB, none of 20. *)
ASSUME AmountsAssumption ==
  \A a \in Meant : a \in Seq(Digits) \ {<<>>} /\ Head(a) # "0" /\ Len(a) # 19

VARIABLES
  amount,      \* the amount meant
  amountText,  \* the text
  copied,      \* number of digits of amount typed
  extra        \* what else was typed: "nothing", the mark of cents or "sign"

amountVars == <<amount, amountText, copied, extra>>

AmountInit ==
  /\ amount \in Meant
  /\ amountText = <<>>
  /\ copied = 0
  /\ extra = "nothing"

Type(characters) == amountText' = amountText \o characters

TypeDigit ==
  /\ copied < Len(amount)
  /\ copied' = copied + 1
  /\ Type(<<amount[copied']>>)
  /\ UNCHANGED <<amount, extra>>

(* format_amount: a separator before each group of three digits.  The      *)
(* display has a space; users have their own, and type it once.            *)
GroupBreak(i) == i > 0 /\ i < Len(amount) /\ (Len(amount) - i) % 3 = 0

TypeSeparator ==
  /\ GroupBreak(copied)
  /\ Last(amountText) \in Digits
  /\ \E c \in Groupers : Type(<<c>>)
  /\ UNCHANGED <<amount, copied, extra>>

TypeCents ==
  /\ copied = Len(amount) /\ extra = "nothing"
  /\ \E c \in CentMarks :
       /\ Type(<<c, "5", "0">>)
       /\ extra' = c
  /\ UNCHANGED <<amount, copied>>

TypeSign ==
  /\ extra = "nothing"
  /\ \E c \in Signs : Type(<<c>>)
  /\ extra' = "sign"
  /\ UNCHANGED <<amount, copied>>

AmountNext == TypeDigit \/ TypeSeparator \/ TypeCents \/ TypeSign

AmountSpec == AmountInit /\ [][AmountNext]_amountVars
-----------------------------------------------------------------------------
(* Mutant of AMOUNT_SEPARATORS: without the unbreakable spaces. *)
BreakableSeparators == {" ", ".", "'"}

AMOUNT_SEPARATORS == {" ", ".", "'", "nbsp", "nnbsp"}

CompactAmount(raw) == Without(raw, AMOUNT_SEPARATORS)

(* str.isdigit, which is true of characters that int() does not read. *)
IsDigit(c) == c \in Digits \union {"sup2"}

parse_amount(raw) ==
  LET compact == CompactAmount(raw)
  IN IF compact = <<>> \/ \E i \in DOMAIN compact : ~IsDigit(compact[i])
     THEN None
     ELSE IF ToSet(compact) \subseteq Digits THEN compact ELSE Raised

(* What the text comes to: the amount stored with the draft, None if it is *)
(* refused, or an exception, of int() or of the driver that writes it.     *)
step_create_amount(raw) ==
  LET read == parse_amount(raw)
  IN IF read \in {None, Raised} THEN read
     ELSE IF ToSet(read) = {"0"} THEN None
     ELSE IF Len(read) > 18 THEN Raised ELSE read
-----------------------------------------------------------------------------
(* Properties                                                              *)

(* "un affichage formate, le notre y compris": an amount of francs is read *)
(* as the one meant, whatever separates its groups, and "refuse 100,50": a *)
(* text with a sign or a comma in it is not taken for an amount.  A point, *)
(* however, is no mark of cents to the code: fifty cents after one are two *)
(* more digits (not what the texts say: BadAmountAskedAgain).              *)
AmountReadExactly ==
  LET read == parse_amount(amountText)
  IN /\ copied = Len(amount) /\ extra = "nothing" => read = amount
     /\ extra \in {"sign", ","} => read \in {None, Raised}
     /\ extra = "." => read = amount \o <<"5", "0">>

(* What TontineDraft accepts: at most MAX_AMOUNT, 100 000 000. *)
DraftAccepts(digits) ==
  \/ Len(digits) <= 8
  \/ Len(digits) = 9 /\ Head(digits) = "1" /\ ToSet(Tail(digits)) = {"0"}

(* "test_invalid_amount_keeps_the_state": what is typed is an amount of    *)
(* francs that the draft accepts, or it is answered by the question again; *)
(* "un montant decimal est refuse", whatever marks its cents.              *)
BadAmountAskedAgain ==
  LET read == step_create_amount(amountText)
  IN read # None =>
       read # Raised /\ DraftAccepts(read) /\ extra \notin CentMarks
=============================================================================
