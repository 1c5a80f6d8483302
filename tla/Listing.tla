------------------------------- MODULE Listing -------------------------------
(***************************************************************************)
(* "Mes tontines" (list_for_user in app/modules/tontines/repository.py,    *)
(* permissions.py, tontine_list in conversations/texts.py) beside the      *)
(* calls of TontineStore: two reads outside of any transaction, first the  *)
(* memberships of the user and then their tontines, while others commit.   *)
(***************************************************************************)
EXTENDS TontineStore

CONSTANT Readers  \* listings, each asked for once

VARIABLES
  stage,  \* stage[r]: the read listing r is about to await, or how it ended
  asker,  \* asker[r]: the user who asked
  kept,   \* kept[r]: codes of the tontines he had been told he was in by then
  found,  \* found[r]: the memberships that the first read returned
  shown   \* shown[r]: the lines of the list

listings == <<stage, asker, kept, found, shown>>
allVars == <<vars, listings>>

Membership == [tontine : Tontines, role : {"OWNER", "MEMBER"}]
Line == [tontine : Tontines, seats : Nat, of : Capacities, status : Statuses,
         code : Codes \union {None}]

ListingTypeOK ==
  /\ stage \in [Readers -> {"idle", "memberships", "tontines", "done", "failed"}]
  /\ asker \in [Readers -> Users \union {None}]
  /\ kept \in [Readers -> SUBSET (Codes \union {None})]
  /\ found \in [Readers -> SUBSET Membership]
  /\ shown \in [Readers -> SUBSET Line]

ListingInit ==
  /\ Init
  /\ stage = [r \in Readers |-> "idle"]
  /\ asker = [r \in Readers |-> None]
  /\ kept = [r \in Readers |-> {}]
  /\ found = [r \in Readers |-> {}]
  /\ shown = [r \in Readers |-> {}]

(* The codes of the tontines user u was told he had joined or created. *)
ToldTo(u) ==
  {args[c].code : c \in {d \in Calls :
     args[d].user = u /\ result[d] \in {"Joined", "Created"}}}

Ask(r) ==
  /\ stage[r] = "idle"
  /\ \E u \in Users :
       /\ asker' = [asker EXCEPT ![r] = u]
       /\ kept' = [kept EXCEPT ![r] = ToldTo(u)]
  /\ stage' = [stage EXCEPT ![r] = "memberships"]
  /\ UNCHANGED <<vars, found, shown>>

(* Every membership is ACTIVE in this phase. *)
MembershipsOf(u) ==
  {[tontine |-> m.tontine_id, role |-> m.role] :
     m \in {n \in members : n.user_id = u}}

(* tontine_members.find; without a membership nothing more is read. *)
FindMemberships(r) ==
  /\ stage[r] = "memberships"
  /\ found' = [found EXCEPT ![r] = MembershipsOf(asker[r])]
  /\ stage' = [stage EXCEPT ![r] =
       IF MembershipsOf(asker[r]) = {} THEN "done" ELSE "tontines"]
  /\ UNCHANGED <<vars, asker, kept, shown>>

(* Mutant of CanViewInviteCode: every member passes the code on. *)
CanViewIfMember(role) == role \in {"OWNER", "MEMBER"}

CanViewInviteCode(role) == role = "OWNER"  \* ADMIN is given to nobody yet

(* Mutant of Stored: closed tontines are left out. *)
StoredOpen(t) == tontines[t] # None /\ tontines[t].status = "OPEN"

Stored(t) == tontines[t] # None

(* A line of the list: the tontine as it is now, the role as it was read. *)
LineOf(m) ==
  [tontine |-> m.tontine,
   seats |-> tontines[m.tontine].active_members_count,
   of |-> tontines[m.tontine].expected_members,
   status |-> tontines[m.tontine].status,
   code |-> IF CanViewInviteCode(m.role)
            THEN tontines[m.tontine].invite_code ELSE None]

(* tontines.find with $in: an identifier without its document is skipped. *)
FindTontines(r) ==
  /\ stage[r] = "tontines"
  /\ shown' = [shown EXCEPT ![r] =
       {LineOf(m) : m \in {n \in found[r] : Stored(n.tontine)}}]
  /\ stage' = [stage EXCEPT ![r] = "done"]
  /\ UNCHANGED <<vars, asker, kept, found>>

(* A PyMongoError in either read: no list. *)
ListingFails(r) ==
  /\ stage[r] \in {"memberships", "tontines"}
  /\ stage' = [stage EXCEPT ![r] = "failed"]
  /\ UNCHANGED <<vars, asker, kept, found, shown>>

Listings ==
  \E r \in Readers :
    Ask(r) \/ FindMemberships(r) \/ FindTontines(r) \/ ListingFails(r)

ListingNext == (Next /\ UNCHANGED listings) \/ Listings

ListingSpec == ListingInit /\ [][ListingNext]_allVars

(* Listings only read: the fairness is the one of the calls. *)
ListingFairSpec == ListingSpec /\ Fairness
-----------------------------------------------------------------------------
(* Properties                                                              *)

(* Nothing is shown by half: a list has one line for each membership the   *)
(* first read found, though the tontines are read later and outside of the *)
(* transaction that made both.                                             *)
ListComplete ==
  \A r \in Readers : stage[r] = "done" =>
    /\ {l.tontine : l \in shown[r]} = {m.tontine : m \in found[r]}
    /\ Cardinality(shown[r]) = Cardinality(found[r])

(* What the user was told he joined or created before he asked is listed.  *)
ReadsOwnWrites ==
  \A r \in Readers : stage[r] = "done" =>
    kept[r] \subseteq {tontines[l.tontine].invite_code : l \in shown[r]}

(* The numbers of a line are of one moment after the user's own joining:   *)
(* he is counted, with the owner, and nobody too many.                     *)
SeatsMakeSense ==
  \A r \in Readers : \A l \in shown[r] :
    /\ l.seats <= l.of
    /\ l.seats >= IF l.code = None THEN 2 ELSE 1

(* "Seule l'administration diffuse le code d'invitation": a code is shown  *)
(* to the creator of the tontine only, and it is that tontine's.           *)
CodeOnlyToOwner ==
  \A r \in Readers : \A l \in shown[r] : l.code # None =>
    /\ tontines[l.tontine].created_by = asker[r]
    /\ tontines[l.tontine].invite_code = l.code
=============================================================================
