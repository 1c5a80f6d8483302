-------------------------------- MODULE Users --------------------------------
(***************************************************************************)
(* UserService.get_or_create_from_whatsapp and UserRepository.get_or_create *)
(* (app/modules/users): every message of WhatsApp names its sender, and    *)
(* concurrent handlers turn the same sender into the same user.            *)
(***************************************************************************)
EXTENDS Naturals, Sequences, Text

CONSTANTS
  Calls,         \* coroutines calling get_or_create, reused
  WaIds,         \* the wa_id of messages, as sequences of characters
  Ids,           \* ObjectIds
  Names          \* profile names

(* normalize_whatsapp_phone: "+" and the digits, or None for a ValueError. *)
Phone(w) ==
  LET IsDigit(character) == character \in Digits
      digits == SelectSeq(w, IsDigit)
  IN IF Len(digits) < 6 THEN None ELSE <<"+">> \o digits

Phones == {Phone(w) : w \in WaIds} \ {None}

UserDocs == [id : Ids, phone : Phones, whatsapp_name : Names]

ASSUME UsersAssumption == None \notin UserDocs \union [phone : Phones, name : Names]

VARIABLES
  users,   \* collection users
  pc,      \* pc[c]: the operation call c is about to await
  asked,   \* asked[c]: phone and name given to the call, or None
  result   \* result[c]: the user the call returned, or None

vars == <<users, pc, asked, result>>

TypeOK ==
  /\ users \subseteq UserDocs
  /\ pc \in [Calls -> {"free", "insert", "find", "done"}]
  /\ asked \in [Calls -> [phone : Phones, name : Names] \union {None}]
  /\ \A c \in Calls : pc[c] # "free" => asked[c] # None
  /\ result \in [Calls -> UserDocs \union {None}]

Init ==
  /\ users = {}
  /\ pc = [c \in Calls |-> "free"]
  /\ asked = [c \in Calls |-> None]
  /\ result = [c \in Calls |-> None]

(* A number that cannot be normalised raises before anything is awaited. *)
Call(c) ==
  /\ pc[c] = "free"
  /\ \E w \in WaIds, n \in Names :
       /\ Phone(w) # None
       /\ asked' = [asked EXCEPT ![c] = [phone |-> Phone(w), name |-> n]]
  /\ pc' = [pc EXCEPT ![c] = "insert"]
  /\ UNCHANGED <<users, result>>

Of(phone) == {u \in users : u.phone = phone}

Return(c, user) ==
  /\ result' = [result EXCEPT ![c] = user]
  /\ pc' = [pc EXCEPT ![c] = "done"]
  /\ UNCHANGED asked

(* Mutant of Insert: uniq_user_phone is missing. *)
InsertNoIndex(c) ==
  /\ pc[c] = "insert"
  /\ \E i \in Ids :
       /\ \A u \in users : u.id # i
       /\ LET user == [id |-> i, phone |-> asked[c].phone,
                       whatsapp_name |-> asked[c].name]
          IN users' = users \union {user} /\ Return(c, user)

Insert(c) ==
  /\ pc[c] = "insert"
  /\ Of(asked[c].phone) = {}
  /\ \E i \in Ids :
       /\ \A u \in users : u.id # i
       /\ LET user == [id |-> i, phone |-> asked[c].phone,
                       whatsapp_name |-> asked[c].name]
          IN users' = users \union {user} /\ Return(c, user)

(* DuplicateKeyError on uniq_user_phone. *)
InsertDuplicate(c) ==
  /\ pc[c] = "insert"
  /\ Of(asked[c].phone) # {}
  /\ pc' = [pc EXCEPT ![c] = "find"]
  /\ UNCHANGED <<users, asked, result>>

(* Mutant of Find: the user found takes the name of the message. *)
FindRenames(c) ==
  /\ pc[c] = "find"
  /\ \E u \in Of(asked[c].phone) :
       LET renamed == [u EXCEPT !.whatsapp_name = asked[c].name]
       IN /\ users' = (users \ {u}) \union {renamed}
          /\ Return(c, renamed)

Find(c) ==
  /\ pc[c] = "find"
  /\ \E u \in Of(asked[c].phone) : Return(c, u)
  /\ UNCHANGED users

(* The call is over, successful or not: a handler asks again for the next  *)
(* message, whoever sent it.                                               *)
Over(c) ==
  /\ pc' = [pc EXCEPT ![c] = "free"]
  /\ asked' = [asked EXCEPT ![c] = None]
  /\ result' = [result EXCEPT ![c] = None]

Reuse(c) == pc[c] = "done" /\ Over(c) /\ UNCHANGED users

(* A PyMongoError; an insertion may have been applied all the same. *)
Fail(c) ==
  /\ pc[c] \in {"insert", "find"}
  /\ \/ UNCHANGED users
     \/ /\ pc[c] = "insert" /\ Of(asked[c].phone) = {}
        /\ \E i \in Ids :
             /\ \A u \in users : u.id # i
             /\ users' = users \union
                  {[id |-> i, phone |-> asked[c].phone,
                    whatsapp_name |-> asked[c].name]}
  /\ Over(c)

Step(c) == Call(c) \/ Insert(c) \/ InsertDuplicate(c) \/ Find(c)
             \/ Reuse(c) \/ Fail(c)
Next == \E c \in Calls : Step(c)

Spec == Init /\ [][Next]_vars
-----------------------------------------------------------------------------
(* Properties                                                              *)

(* "un find suivi d'un insert laisserait deux webhooks simultanes creer    *)
(* deux utilisateurs": a number has one user.                              *)
OneUserPerPhone ==
  \A u, v \in users : u.phone = v.phone => u = v

(* Concurrent messages of one sender get the very same user, which is in   *)
(* the database: what they then create or join belongs to one person.      *)
CallersAgree ==
  \A c, d \in Calls :
    pc[c] = "done" /\ pc[d] = "done" /\ asked[c].phone = asked[d].phone =>
      result[c] = result[d] /\ result[c] \in Of(asked[c].phone)

(* "incoherence de base": a collision is always with a user who can be     *)
(* read, so the call never fails for having found nobody.                  *)
CollisionIsReadable ==
  \A c \in Calls : pc[c] = "find" => Of(asked[c].phone) # {}

(* A user is never changed or removed: identifiers stored elsewhere hold. *)
UsersStay == [][users \subseteq users']_vars

(* The inductive invariant. *)
ResultsSound ==
  \A c \in Calls : pc[c] = "done" => result[c] \in Of(asked[c].phone)

IInv == TypeOK /\ OneUserPerPhone /\ ResultsSound /\ CollisionIsReadable
=============================================================================
