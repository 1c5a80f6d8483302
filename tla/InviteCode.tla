----------------------------- MODULE InviteCode -----------------------------
(***************************************************************************)
(* app/modules/tontines/invite_code.py: a code is drawn, a user copies it  *)
(* into a message, in one of the forms people use, in either case, with    *)
(* separators here and there, and the join step normalises the text.       *)
(*                                                                         *)
(* A text is a sequence of characters.  The user may send it at any        *)
(* moment: the properties are about the text as it stands in every state.  *)
(***************************************************************************)
EXTENDS SequencesExt, Text

CONSTANTS
  UpperOf,        \* the upper case of each lower-case letter
  Drawable,       \* what may be drawn: sequences of LENGTH characters
  MaxSeparators   \* bound: separators the user inserts

LENGTH == 6
ALPHABET == {UpperOf[c] : c \in DOMAIN UpperOf}
KFT == <<"K", "F", "T">>
PREFIX == KFT \o <<"-">>
Separators == {" ", "-", "_"}

ASSUME InviteCodeAssumption ==
  /\ Drawable \subseteq [1..LENGTH -> ALPHABET]
  /\ Separators \intersect (ALPHABET \union DOMAIN UpperOf) = {}
  /\ ToSet(KFT) \subseteq ALPHABET
  /\ \A c \in DOMAIN UpperOf \intersect ALPHABET : UpperOf[c] = c
  /\ MaxSeparators \in Nat

VARIABLES
  suffix,  \* the suffix drawn
  form,    \* the form of the code the user copies
  lower,   \* he types in lower case
  codeText, \* the text
  added    \* number of separators inserted

codeVars == <<suffix, form, lower, codeText, added>>

code == PREFIX \o suffix
copiedCode == Len(codeText) - added
left == SubSeq(form, copiedCode + 1, Len(form))

(* generate_invite_code. *)
CodeInit ==
  /\ suffix \in Drawable
  /\ form \in {code, KFT \o suffix, suffix}
  /\ lower \in BOOLEAN
  /\ codeText = <<>>
  /\ added = 0

Upper(c) == IF c \in DOMAIN UpperOf THEN UpperOf[c] ELSE c

Key(c) ==
  IF lower /\ c \in ALPHABET
  THEN CHOOSE k \in DOMAIN UpperOf : UpperOf[k] = c ELSE c

Copy ==
  /\ left # <<>>
  /\ codeText' = Append(codeText, Key(Head(left)))
  /\ UNCHANGED <<suffix, form, lower, added>>

Separate ==
  /\ added < MaxSeparators
  /\ added' = added + 1
  /\ \E c \in Separators : codeText' = Append(codeText, c)
  /\ UNCHANGED <<suffix, form, lower>>

CodeNext == Copy \/ Separate

CodeSpec == CodeInit /\ [][CodeNext]_codeVars
-----------------------------------------------------------------------------
(* raw.split(), upper(), replace(): case and separators are gone. *)
CompactCode(raw) ==
  Without([i \in DOMAIN raw |-> Upper(raw[i])], Separators)

(* Mutant of WithoutPrefix: lstrip("KFT"), which takes letters one by one. *)
WithoutPrefixLetters(text) ==
  LET kept == {i \in DOMAIN text : text[i] \notin ToSet(KFT)}
  IN IF kept = {} THEN <<>> ELSE SubSeq(text, Min(kept), Len(text))

WithoutPrefix(text) ==
  IF IsPrefix(KFT, text) THEN SubSeq(text, 4, Len(text)) ELSE text

normalize_invite_code(raw) ==
  LET rest == WithoutPrefix(CompactCode(raw))
  IN IF Len(rest) = LENGTH /\ ToSet(rest) \subseteq ALPHABET
     THEN PREFIX \o rest ELSE None
-----------------------------------------------------------------------------
(* Properties                                                              *)

(* A bare suffix that itself begins with KFT: its letters are taken for    *)
(* the prefix.                                                             *)
mistaken == form = suffix /\ IsPrefix(KFT, suffix)

(* A code copied to its end is read as the code meant, and a text that is  *)
(* only a part of a code is not read at all, however it is cut, cased and  *)
(* separated: no text names the code of another tontine.  "donnent tous le *)
(* meme code" is not so of the three forms: a mistaken suffix is refused.  *)
CodeOrNothing ==
  normalize_invite_code(codeText) =
    IF left = <<>> /\ ~mistaken THEN code ELSE None
=============================================================================
