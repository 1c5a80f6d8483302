------------------------------ MODULE Workflow ------------------------------
(***************************************************************************)
(* What a user is promised about a conversation: two forms, filled one     *)
(* answer at a time in a fixed order, abandoned at any moment, concluded   *)
(* once complete.  One user, no concurrency, no version: Conversation      *)
(* implements it with compare-and-swap writes from concurrent handlers.    *)
(***************************************************************************)
CONSTANT None

VARIABLES
  stage,    \* the question being asked, or None
  answers,  \* the fields answered so far
  fresh     \* FALSE once the conversation has outlived its time to live

vars == <<stage, answers, fresh>>

Firsts == {"CREATE_NAME", "JOIN_CODE"}

(* The field each question asks for, and the question that follows. *)
Asks ==
  [CREATE_NAME |-> "name", CREATE_AMOUNT |-> "amount",
   CREATE_FREQUENCY |-> "frequency", CREATE_MEMBERS |-> "expected_members",
   JOIN_CODE |-> "invite_code"]
Follows ==
  [CREATE_NAME |-> "CREATE_AMOUNT", CREATE_AMOUNT |-> "CREATE_FREQUENCY",
   CREATE_FREQUENCY |-> "CREATE_MEMBERS", CREATE_MEMBERS |-> "CREATE_CONFIRM",
   JOIN_CODE |-> "JOIN_CONFIRM"]

Init == stage = None /\ answers = {} /\ fresh = TRUE

Start ==
  /\ stage = None \/ ~fresh
  /\ stage' \in Firsts
  /\ answers' = {}
  /\ fresh' = TRUE

(* Also to a form that has just outlived its time, if the answer was read  *)
(* before: see GoneStaysGone in Conversation.                              *)
Answer ==
  /\ stage \in DOMAIN Asks
  /\ stage' = Follows[stage]
  /\ answers' = answers \union {Asks[stage]}
  /\ fresh' = TRUE

(* Cancelled, concluded, or deleted once expired: the form is gone. *)
Leave ==
  /\ stage # None
  /\ stage' = None /\ answers' = {} /\ fresh' = TRUE

Lapse ==
  /\ stage # None /\ fresh
  /\ fresh' = FALSE
  /\ UNCHANGED <<stage, answers>>

Next == Start \/ Answer \/ Leave \/ Lapse

Spec == Init /\ [][Next]_vars
=============================================================================
