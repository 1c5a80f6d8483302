-------------------------------- MODULE Text --------------------------------
(* What the modules that read texts share: a text is a sequence of          *)
(* characters, and None is Python's, for a text that is not what is wanted. *)
EXTENDS Naturals, Sequences

CONSTANT None

Digits == {"0", "1", "2", "3", "4", "5", "6", "7", "8", "9"}

(* s without the elements of T: replace(c, "") for each c of T, and the     *)
(* loops that skip None.  A function, as proofs need it, where SelectSeq    *)
(* would do for TLC.                                                        *)
Without(s, T) ==
  LET kept[n \in 0..Len(s)] ==
        IF n = 0 THEN <<>>
        ELSE IF s[n] \in T THEN kept[n - 1] ELSE Append(kept[n - 1], s[n])
  IN kept[Len(s)]
=============================================================================
