-------------------------- MODULE TontineRegistry --------------------------
(***************************************************************************)
(* What the tontine repository promises its callers: a register of         *)
(* tontines and of the users who belong to them, in which creating a       *)
(* tontine and taking a seat are single indivisible steps.                 *)
(*                                                                         *)
(* There is no counter, no transaction and no caller here.  TontineStore   *)
(* is the implementation, with the denormalised active_members_count and   *)
(* the MongoDB transactions, and is shown to refine this module.           *)
(***************************************************************************)
EXTENDS Naturals, FiniteSets

CONSTANTS
  Users,       \* user identifiers
  Tontines,    \* identifiers a tontine document may receive
  Codes,       \* invite codes
  Capacities,  \* the values expected_members may take
  None         \* the absence of a document

VARIABLES
  register,    \* register[t]: the tontine known under t, or None
  seats        \* pairs <<t, u>>: user u is an active member of tontine t

vars == <<register, seats>>

Entry == [invite_code : Codes, expected_members : Capacities,
          status : {"OPEN", "CLOSED"}, created_by : Users]

TypeOK ==
  /\ register \in [Tontines -> Entry \union {None}]
  /\ seats \subseteq Tontines \X Users

SeatsOf(t) == {s \in seats : s[1] = t}

Init ==
  /\ register = [t \in Tontines |-> None]
  /\ seats = {}

(* The tontine and its owner's seat appear together, under an unused code. *)
Create(t, owner, code, capacity) ==
  /\ register[t] = None
  /\ \A o \in Tontines : register[o] # None => register[o].invite_code # code
  /\ register' = [register EXCEPT ![t] =
       [invite_code |-> code, expected_members |-> capacity,
        status |-> "OPEN", created_by |-> owner]]
  /\ seats' = seats \union {<<t, owner>>}

(* A user who is not a member takes one of the seats that remain. *)
Join(t, user) ==
  /\ register[t] # None
  /\ register[t].status = "OPEN"
  /\ Cardinality(SeatsOf(t)) < register[t].expected_members
  /\ <<t, user>> \notin seats
  /\ seats' = seats \union {<<t, user>>}
  /\ UNCHANGED register

(* The tontine leaves OPEN; members keep their seats. *)
Close(t) ==
  /\ register[t] # None
  /\ register' = [register EXCEPT ![t].status = "CLOSED"]
  /\ UNCHANGED seats

Next ==
  \/ \E t \in Tontines, u \in Users, code \in Codes, n \in Capacities :
       Create(t, u, code, n)
  \/ \E t \in Tontines, u \in Users : Join(t, u)
  \/ \E t \in Tontines : Close(t)

Spec == Init /\ [][Next]_vars
=============================================================================
