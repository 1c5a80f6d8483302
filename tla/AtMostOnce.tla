----------------------------- MODULE AtMostOnce -----------------------------
(***************************************************************************)
(* What a user is promised about his messages: each is taken once, acted   *)
(* on at most once, answered at most once and only after it was acted on,  *)
(* and then settled for good.  It may be left unsettled.                   *)
(*                                                                         *)
(* No webhook, no batch, no database here: Messaging implements this with  *)
(* a unique index, and Bot with the conversations behind it.               *)
(***************************************************************************)
EXTENDS Naturals

CONSTANT Events

VARIABLES
  phase,     \* phase[e]: "new", "taken" or "settled"
  acted,     \* acted[e]: how often e was acted on
  answered   \* answered[e]: how many answers its sender got

vars == <<phase, acted, answered>>

Init ==
  /\ phase = [e \in Events |-> "new"]
  /\ acted = [e \in Events |-> 0]
  /\ answered = [e \in Events |-> 0]

Take(e) ==
  /\ phase[e] = "new"
  /\ phase' = [phase EXCEPT ![e] = "taken"]
  /\ UNCHANGED <<acted, answered>>

Act(e) ==
  /\ phase[e] = "taken" /\ acted[e] = 0
  /\ acted' = [acted EXCEPT ![e] = 1]
  /\ UNCHANGED <<phase, answered>>

Answer(e) ==
  /\ phase[e] = "taken" /\ acted[e] = 1 /\ answered[e] = 0
  /\ answered' = [answered EXCEPT ![e] = 1]
  /\ UNCHANGED <<phase, acted>>

Settle(e) ==
  /\ phase[e] = "taken"
  /\ phase' = [phase EXCEPT ![e] = "settled"]
  /\ UNCHANGED <<acted, answered>>

Next == \E e \in Events : Take(e) \/ Act(e) \/ Answer(e) \/ Settle(e)

Spec == Init /\ [][Next]_vars
=============================================================================
