------------------------------- MODULE Intake -------------------------------
(***************************************************************************)
(* Everything that turns what arrives into what the program works on: a    *)
(* payload into events (Parser), a sender into a user (Users), a typed     *)
(* text into a code (InviteCode) or an amount (Amounts).                   *)
(*                                                                         *)
(* They share no state: a behaviour of one among any steps of the others   *)
(* is one of its own, stuttering.  So each behaviour here is about one of  *)
(* them, its subject, and the others stay as they began.                   *)
(***************************************************************************)
EXTENDS Users, InviteCode, Amounts, Parser

VARIABLE subject

intakeVars == <<subject, vars, codeVars, amountVars, payload>>

IntakeInit ==
  /\ subject \in {"payload", "sender", "code", "amount"}
  /\ Init /\ CodeInit /\ AmountInit /\ PayloadInit
  /\ subject # "code" =>
       suffix = (CHOOSE s \in Drawable : TRUE) /\ form = code /\ ~lower
  /\ subject # "amount" => amount = (CHOOSE a \in Meant : TRUE)

IntakeNext ==
  /\ UNCHANGED subject
  /\ \/ /\ subject = "payload" /\ PayloadNext
        /\ UNCHANGED <<vars, codeVars, amountVars>>
     \/ /\ subject = "sender" /\ Next
        /\ UNCHANGED <<codeVars, amountVars, payload>>
     \/ /\ subject = "code" /\ CodeNext
        /\ UNCHANGED <<vars, amountVars, payload>>
     \/ /\ subject = "amount" /\ AmountNext
        /\ UNCHANGED <<vars, codeVars, payload>>

IntakeSpec == IntakeInit /\ [][IntakeNext]_intakeVars
=============================================================================
