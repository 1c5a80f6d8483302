---------------------------- MODULE TontineStore ----------------------------
(***************************************************************************)
(* TontineRepository (app/modules/tontines/repository.py): concurrent      *)
(* calls of create_with_owner and join_by_code, each running its callback  *)
(* inside a MongoDB transaction through session.with_transaction.          *)
(*                                                                         *)
(* The database side is the part of MongoDB the code relies on:            *)
(*   - a transaction reads the snapshot of its first operation and its     *)
(*     writes are staged until the commit applies them all or none;        *)
(*   - writing a document, or a unique key, that another open transaction  *)
(*     has staged is a WriteConflict, a TransientTransactionError;         *)
(*   - a transaction whose client is gone is aborted by the server, unless *)
(*     its commit was already on its way.                                  *)
(* The driver side is with_transaction: a transient error runs the         *)
(* callback again while its 120 s window is open, any other error          *)
(* propagates.                                                             *)
(***************************************************************************)
EXTENDS Naturals, FiniteSets

CONSTANTS
  Calls,                  \* calls of the repository, each made once
  Users, Tontines, Codes, Capacities, None,
  MaxGenerationAttempts   \* MAX_GENERATION_ATTEMPTS of invite_code.py

ASSUME MaxGenerationAttemptsAssumption == MaxGenerationAttempts \in Nat \ {0}

\* expected_members lies in MIN_MEMBERS .. MAX_MEMBERS (TontineDraft).
ASSUME CapacitiesAssumption == Capacities \subseteq 2..100

VARIABLES
  tontines,   \* committed collection "tontines", by _id
  members,    \* committed collection "tontine_members"
  txn,        \* txn[c]: what call c's open transaction has staged
  pc,         \* pc[c]: where call c is in its coroutine
  args,       \* args[c]: the arguments and local variables of call c
  window,     \* window[c]: with_transaction may still retry
  result      \* result[c]: what call c returned or raised

vars == <<tontines, members, txn, pc, args, window, result>>

Statuses == {"OPEN", "CLOSED"}  \* CLOSED stands for every status but OPEN

TontineDoc == [invite_code : Codes, expected_members : Capacities,
               active_members_count : Nat, status : Statuses,
               created_by : Users]

MemberDoc == [tontine_id : Tontines, user_id : Users,
              role : {"OWNER", "MEMBER"}, by : Calls]

Refusals == {"TontineNotFound", "TontineClosed", "TontineFull", "AlreadyMember"}
Outcomes == Refusals \union
  {"Joined", "Created", "InviteCodeGenerationFailed", "Error"}

(* None is not one of the values it stands for the absence of. *)
ASSUME NoneAssumption ==
  None \notin Users \union Tontines \union Codes \union Capacities
              \union TontineDoc \union MemberDoc \union Outcomes

NoTxn == [id |-> None, doc |-> None, member |-> None]

MembersOf(t) == {m \in members : m.tontine_id = t}
Staged(c) == txn[c].doc # None
Committed(code) == {t \in Tontines :
                      tontines[t] # None /\ tontines[t].invite_code = code}

TypeOK ==
  /\ tontines \in [Tontines -> TontineDoc \union {None}]
  /\ members \subseteq MemberDoc
  /\ txn \in [Calls -> [id : Tontines \union {None},
                        doc : TontineDoc \union {None},
                        member : MemberDoc \union {None}]]
  /\ pc \in [Calls -> {"idle", "reserve", "diagnose", "insertMember", "draw",
                       "insertTontine", "insertOwner", "commit", "done",
                       "failed"}]
  /\ args \in [Calls -> [user : Users \union {None},
                         code : Codes \union {None},
                         capacity : Capacities \union {None},
                         attempts : 0..MaxGenerationAttempts,
                         seen : TontineDoc \union {None}]]
  /\ window \in [Calls -> BOOLEAN]
  /\ result \in [Calls -> Outcomes \union {None}]

Init ==
  /\ tontines = [t \in Tontines |-> None]
  /\ members = {}
  /\ txn = [c \in Calls |-> NoTxn]
  /\ pc = [c \in Calls |-> "idle"]
  /\ args = [c \in Calls |-> [user |-> None, code |-> None,
                              capacity |-> None, attempts |-> 0,
                              seen |-> None]]
  /\ window = [c \in Calls |-> TRUE]
  /\ result = [c \in Calls |-> None]

Goto(c, label) == pc' = [pc EXCEPT ![c] = label]
Creating(c) == args[c].capacity # None

(* Mutant of Return: a business error leaves the session open. *)
ReturnSessionLeaked(c, r) ==
  /\ Goto(c, "done")
  /\ result' = [result EXCEPT ![c] = r]
  /\ UNCHANGED txn

(* The coroutine ends with value r; its transaction leaves no trace. *)
Return(c, r) ==
  /\ Goto(c, "done")
  /\ result' = [result EXCEPT ![c] = r]
  /\ txn' = [txn EXCEPT ![c] = NoTxn]

(* Mutant of Transient: retried however long it takes. *)
TransientUnbounded(c) ==
  /\ txn' = [txn EXCEPT ![c] = NoTxn]
  /\ Goto(c, IF Creating(c) THEN "insertTontine" ELSE "reserve")
  /\ UNCHANGED result

(* A TransientTransactionError: the server has aborted, and the callback   *)
(* is run again from its first operation unless the window has closed.     *)
Transient(c) ==
  /\ txn' = [txn EXCEPT ![c] = NoTxn]
  /\ IF window[c]
     THEN /\ Goto(c, IF Creating(c) THEN "insertTontine" ELSE "reserve")
          /\ UNCHANGED result
     ELSE /\ Goto(c, "failed")
          /\ result' = [result EXCEPT ![c] = "Error"]

-----------------------------------------------------------------------------
(* join_by_code                                                            *)

CallJoin(c) ==
  /\ pc[c] = "idle"
  /\ \E u \in Users, code \in Codes :
       args' = [args EXCEPT ![c] = [@ EXCEPT !.user = u, !.code = code]]
  /\ Goto(c, "reserve")
  /\ UNCHANGED <<tontines, members, txn, window, result>>

(* Mutants of Available: one seat too many; a tontine in any status. *)
AvailableOneMore(code) ==
  {t \in Committed(code) :
     /\ tontines[t].status = "OPEN"
     /\ tontines[t].active_members_count <= tontines[t].expected_members}
AvailableAnyStatus(code) ==
  {t \in Committed(code) :
     tontines[t].active_members_count < tontines[t].expected_members}

(* The filter of the reservation: this code, OPEN, and a seat left. *)
Available(code) ==
  {t \in Committed(code) :
     /\ tontines[t].status = "OPEN"
     /\ tontines[t].active_members_count < tontines[t].expected_members}

StagedByOther(c, t) == \E o \in Calls \ {c} : Staged(o) /\ txn[o].id = t

(* Mutant of Reserve: the $inc is forgotten. *)
ReserveUncounted(c) ==
  /\ pc[c] = "reserve"
  /\ \E t \in Available(args[c].code) :
       /\ ~StagedByOther(c, t)
       /\ txn' = [txn EXCEPT ![c] = [@ EXCEPT !.id = t, !.doc = tontines[t]]]
  /\ Goto(c, "insertMember")
  /\ UNCHANGED <<tontines, members, args, window, result>>

(* find_one_and_update: the increment is staged, not yet visible. *)
Reserve(c) ==
  /\ pc[c] = "reserve"
  /\ \E t \in Available(args[c].code) :
       /\ ~StagedByOther(c, t)
       /\ txn' = [txn EXCEPT ![c] = [@ EXCEPT !.id = t, !.doc =
            [tontines[t] EXCEPT !.active_members_count = @ + 1]]]
  /\ Goto(c, "insertMember")
  /\ UNCHANGED <<tontines, members, args, window, result>>

ReserveConflict(c) ==
  /\ pc[c] = "reserve"
  /\ \E t \in Available(args[c].code) : StagedByOther(c, t)
  /\ Transient(c)
  /\ UNCHANGED <<tontines, members, args, window>>

(* Nothing matched.  The find_one that follows reads the same snapshot, so *)
(* what it will see is fixed now.                                          *)
ReserveNothing(c) ==
  /\ pc[c] = "reserve"
  /\ Available(args[c].code) = {}
  /\ \/ \E t \in Committed(args[c].code) :
          args' = [args EXCEPT ![c].seen = tontines[t]]
     \/ /\ Committed(args[c].code) = {}
        /\ args' = [args EXCEPT ![c].seen = None]
  /\ Goto(c, "diagnose")
  /\ UNCHANGED <<tontines, members, txn, window, result>>

(* Mutant of Existing: the find_one is issued without the session. *)
ExistingOutsideSession(c) ==
  IF Committed(args[c].code) = {} THEN None
  ELSE tontines[CHOOSE t \in Committed(args[c].code) : TRUE]

(* The document that the diagnosis of call c reads. *)
Existing(c) == args[c].seen

Diagnose(c) ==
  /\ pc[c] = "diagnose"
  /\ Return(c, IF Existing(c) = None THEN "TontineNotFound"
               ELSE IF Existing(c).status # "OPEN" THEN "TontineClosed"
               ELSE "TontineFull")
  /\ UNCHANGED <<tontines, members, args, window>>

AlreadyIn(t, u) == \E m \in MembersOf(t) : m.user_id = u

(* Mutant of InsertMember: uniq_tontine_member is missing. *)
InsertMemberNoIndex(c) ==
  /\ pc[c] = "insertMember"
  /\ txn' = [txn EXCEPT ![c].member =
       [tontine_id |-> txn[c].id, user_id |-> args[c].user,
        role |-> "MEMBER", by |-> c]]
  /\ Goto(c, "commit")
  /\ UNCHANGED <<tontines, members, args, window, result>>

InsertMember(c) ==
  /\ pc[c] = "insertMember"
  /\ ~AlreadyIn(txn[c].id, args[c].user)
  /\ txn' = [txn EXCEPT ![c].member =
       [tontine_id |-> txn[c].id, user_id |-> args[c].user,
        role |-> "MEMBER", by |-> c]]
  /\ Goto(c, "commit")
  /\ UNCHANGED <<tontines, members, args, window, result>>

(* Mutant of InsertMemberDuplicate: a seat the abort already gives back is *)
(* also given back by hand.                                                *)
InsertMemberGivesBack(c) ==
  /\ pc[c] = "insertMember"
  /\ AlreadyIn(txn[c].id, args[c].user)
  /\ Return(c, "AlreadyMember")
  /\ tontines' = [tontines EXCEPT ![txn[c].id].active_members_count = @ - 1]
  /\ UNCHANGED <<members, args, window>>

(* uniq_tontine_member: the transaction, reservation included, is aborted. *)
InsertMemberDuplicate(c) ==
  /\ pc[c] = "insertMember"
  /\ AlreadyIn(txn[c].id, args[c].user)
  /\ Return(c, "AlreadyMember")
  /\ UNCHANGED <<tontines, members, args, window>>

-----------------------------------------------------------------------------
(* create_with_owner                                                       *)

CallCreate(c) ==
  /\ pc[c] = "idle"
  /\ \E u \in Users, n \in Capacities :
       args' = [args EXCEPT ![c] = [@ EXCEPT !.user = u, !.capacity = n]]
  /\ Goto(c, "draw")
  /\ UNCHANGED <<tontines, members, txn, window, result>>

(* A turn of the for loop: a new code, a new with_transaction window. *)
DrawCode(c) ==
  /\ pc[c] = "draw"
  /\ args[c].attempts < MaxGenerationAttempts
  /\ \E code \in Codes :
       args' = [args EXCEPT ![c] = [@ EXCEPT !.code = code, !.attempts = args[c].attempts + 1]]
  /\ window' = [window EXCEPT ![c] = TRUE]
  /\ Goto(c, "insertTontine")
  /\ UNCHANGED <<tontines, members, txn, result>>

DrawExhausted(c) ==
  /\ pc[c] = "draw"
  /\ args[c].attempts = MaxGenerationAttempts
  /\ Return(c, "InviteCodeGenerationFailed")
  /\ UNCHANGED <<tontines, members, args, window>>

CodeStagedByOther(c) ==
  \E o \in Calls \ {c} : Staged(o) /\ txn[o].doc.invite_code = args[c].code

NewTontine(c) == [invite_code |-> args[c].code,
                  expected_members |-> args[c].capacity,
                  active_members_count |-> 1,
                  status |-> "OPEN",
                  created_by |-> args[c].user]

(* Mutants of InsertTontine: uniq_tontine_invite_code is missing; the      *)
(* insert is issued without the session, so outside the transaction.       *)
InsertTontineNoIndex(c) ==
  /\ pc[c] = "insertTontine"
  /\ \E t \in Tontines :
       /\ tontines[t] = None
       /\ ~StagedByOther(c, t)
       /\ txn' = [txn EXCEPT ![c] = [@ EXCEPT !.id = t, !.doc = NewTontine(c)]]
  /\ Goto(c, "insertOwner")
  /\ UNCHANGED <<tontines, members, args, window, result>>
InsertTontineOutsideSession(c) ==
  /\ pc[c] = "insertTontine"
  /\ Committed(args[c].code) = {}
  /\ \E t \in Tontines :
       /\ tontines[t] = None
       /\ tontines' = [tontines EXCEPT ![t] = NewTontine(c)]
       /\ txn' = [txn EXCEPT ![c] = [@ EXCEPT !.id = t, !.doc = NewTontine(c)]]
  /\ Goto(c, "insertOwner")
  /\ UNCHANGED <<members, args, window, result>>

InsertTontine(c) ==
  /\ pc[c] = "insertTontine"
  /\ Committed(args[c].code) = {}
  /\ ~CodeStagedByOther(c)
  /\ \E t \in Tontines :
       /\ tontines[t] = None
       /\ ~StagedByOther(c, t)
       /\ txn' = [txn EXCEPT ![c] = [@ EXCEPT !.id = t, !.doc = NewTontine(c)]]
  /\ Goto(c, "insertOwner")
  /\ UNCHANGED <<tontines, members, args, window, result>>

(* uniq_tontine_invite_code, committed: a collision, next turn of the loop. *)
InsertTontineDuplicate(c) ==
  /\ pc[c] = "insertTontine"
  /\ Committed(args[c].code) # {}
  /\ Goto(c, "draw")
  /\ UNCHANGED <<tontines, members, txn, args, window, result>>

(* The same key staged by another transaction: same code, new attempt. *)
InsertTontineConflict(c) ==
  /\ pc[c] = "insertTontine"
  /\ Committed(args[c].code) = {}
  /\ CodeStagedByOther(c)
  /\ Transient(c)
  /\ UNCHANGED <<tontines, members, args, window>>

InsertOwner(c) ==
  /\ pc[c] = "insertOwner"
  /\ txn' = [txn EXCEPT ![c].member =
       [tontine_id |-> txn[c].id, user_id |-> args[c].user,
        role |-> "OWNER", by |-> c]]
  /\ Goto(c, "commit")
  /\ UNCHANGED <<tontines, members, args, window, result>>

-----------------------------------------------------------------------------
(* Commit, failures and time                                               *)

InTransaction == {"reserve", "diagnose", "insertMember", "insertTontine",
                  "insertOwner", "commit"}

(* The server applies the commit of c.  The client, which may be gone,     *)
(* learns it in CommitAcknowledged.                                        *)
ServerCommit(c) ==
  /\ pc[c] \in {"commit", "failed"}
  /\ txn[c].member # None
  /\ tontines' = [tontines EXCEPT ![txn[c].id] = txn[c].doc]
  /\ members' = members \union {txn[c].member}
  /\ txn' = [txn EXCEPT ![c] = NoTxn]
  /\ UNCHANGED <<pc, args, window, result>>

(* Mutant of CommitAcknowledged: an unknown outcome is taken for success. *)
CommitPresumed(c) ==
  /\ pc[c] = "commit"
  /\ Return(c, IF Creating(c) THEN "Created" ELSE "Joined")
  /\ UNCHANGED <<tontines, members, args, window>>

(* with_transaction repeats a commit of unknown outcome, and the server    *)
(* answers a commit it has already applied with success.                   *)
CommitAcknowledged(c) ==
  /\ pc[c] = "commit"
  /\ ~Staged(c)
  /\ Return(c, IF Creating(c) THEN "Created" ELSE "Joined")
  /\ UNCHANGED <<tontines, members, args, window>>

(* The server drops the open transaction of c (election, cache pressure).  *)
TransientFailure(c) ==
  /\ pc[c] \in InTransaction
  /\ pc[c] = "commit" => Staged(c)
  /\ Transient(c)
  /\ UNCHANGED <<tontines, members, args, window>>

(* Any other PyMongoError, a commit whose outcome is still unknown when    *)
(* the window closes, or the death of the process.  The open transaction   *)
(* stays on the server.                                                    *)
Fail(c) ==
  /\ pc[c] \in InTransaction
  /\ Goto(c, "failed")
  /\ result' = [result EXCEPT ![c] = "Error"]
  /\ UNCHANGED <<tontines, members, txn, args, window>>

(* abort_transaction, or transactionLifetimeLimitSeconds on the server. *)
ServerAbort(c) ==
  /\ pc[c] = "failed"
  /\ Staged(c)
  /\ txn' = [txn EXCEPT ![c] = NoTxn]
  /\ UNCHANGED <<tontines, members, pc, args, window, result>>

CloseWindow(c) ==
  /\ pc[c] \in InTransaction
  /\ window[c]
  /\ window' = [window EXCEPT ![c] = FALSE]
  /\ UNCHANGED <<tontines, members, txn, pc, args, result>>

(* A tontine leaves OPEN.  No code under app/ does it yet; the join path   *)
(* handles it and the integration tests do it by a direct update.          *)
CloseTontine(t) ==
  /\ tontines[t] # None
  /\ tontines[t].status = "OPEN"
  /\ \A c \in Calls : Staged(c) => txn[c].id # t
  /\ tontines' = [tontines EXCEPT ![t].status = "CLOSED"]
  /\ UNCHANGED <<members, txn, pc, args, window, result>>

-----------------------------------------------------------------------------
JoinStep(c) ==
  \/ Reserve(c) \/ ReserveConflict(c) \/ ReserveNothing(c) \/ Diagnose(c)
  \/ InsertMember(c) \/ InsertMemberDuplicate(c)

CreateStep(c) ==
  \/ DrawCode(c) \/ DrawExhausted(c)
  \/ InsertTontine(c) \/ InsertTontineDuplicate(c) \/ InsertTontineConflict(c)
  \/ InsertOwner(c)

CommitStep(c) == ServerCommit(c) \/ CommitAcknowledged(c)

Step(c) == JoinStep(c) \/ CreateStep(c) \/ CommitStep(c)

Fault(c) == TransientFailure(c) \/ Fail(c)

Next ==
  \/ \E c \in Calls : CallJoin(c) \/ CallCreate(c)
  \/ \E c \in Calls : Step(c) \/ ServerAbort(c) \/ CloseWindow(c)
  \/ \E c \in Calls : Fault(c)
  \/ \E t \in Tontines : CloseTontine(t)

Spec == Init /\ [][Next]_vars

(* The event loop runs every ready coroutine, the server expires abandoned *)
(* transactions and time passes.  Callers, faults and administrators owe   *)
(* nothing.                                                                *)
Fairness ==
  \A c \in Calls : /\ WF_vars(Step(c))
                   /\ WF_vars(ServerAbort(c))
                   /\ WF_vars(CloseWindow(c))

FairSpec == Spec /\ Fairness
-----------------------------------------------------------------------------
(* Properties                                                              *)

(* "active_members_count == count(tontine_members where ACTIVE)": whatever *)
(* aborts, retries and crashes happened, the denormalised counter agrees   *)
(* with the memberships it stands for.                                     *)
CounterMatchesMembers ==
  \A t \in Tontines :
    IF tontines[t] = None
    THEN MembersOf(t) = {}
    ELSE tontines[t].active_members_count = Cardinality(MembersOf(t))

(* A tontine never has more active members than expected_members, however  *)
(* many callers compete for the last seat.                                 *)
CapacityRespected ==
  \A t \in Tontines : tontines[t] # None =>
    Cardinality(MembersOf(t)) <= tontines[t].expected_members

(* Two tontines never share an invite code, so a join reaches one tontine. *)
InviteCodesUnique ==
  \A code \in Codes : Cardinality(Committed(code)) <= 1

(* A user is never twice a member of a tontine, the owner included.        *)
OneMembershipPerUser ==
  \A m, n \in members :
    m.tontine_id = n.tontine_id /\ m.user_id = n.user_id => m = n

(* create_with_owner makes the tontine and its OWNER membership or nothing *)
(* at all: no orphan tontine, and no other owner than its creator.         *)
CreatedWithOwner ==
  \A t \in Tontines : tontines[t] # None =>
    \E m \in MembersOf(t) :
      /\ m.user_id = tontines[t].created_by
      /\ {n \in MembersOf(t) : n.role = "OWNER"} = {m}

(* A caller turned away was turned away for a reason that still holds:     *)
(* full means full, closed means closed, and "already a member" means some *)
(* other call put this user there.  The seat staged by another call that   *)
(* may yet abort is never a reason.                                        *)
RefusalsJustified ==
  \A c \in Calls :
    LET found == Committed(args[c].code)
    IN /\ result[c] = "TontineFull" => \E t \in found :
            tontines[t].active_members_count = tontines[t].expected_members
       /\ result[c] = "TontineClosed" => \E t \in found :
            tontines[t].status # "OPEN"
       /\ result[c] = "AlreadyMember" => \E t \in found :
            AlreadyIn(t, args[c].user)

(* What the caller is told is what the database holds: a success is backed *)
(* by a membership written by this call for this user, and a refusal left  *)
(* nothing behind.  Only "Error" leaves the outcome open.                  *)
OutcomesTruthful ==
  \A c \in Calls :
    LET written == {m \in members : m.by = c}
    IN /\ result[c] \in {"Joined", "Created"} =>
            \E m \in written : /\ m.user_id = args[c].user
                               /\ (m.role = "OWNER") <=> Creating(c)
       /\ result[c] \in Refusals \union {"InviteCodeGenerationFailed"} =>
            written = {}

(* Nothing that was committed is undone: memberships stay, counters never  *)
(* go down (there is no LEFT/REMOVED in this phase) and a tontine keeps    *)
(* its code, capacity and creator.                                         *)
KeepsTontine(t) ==
  tontines[t] # None =>
    /\ tontines'[t] # None
    /\ tontines'[t].active_members_count >= tontines[t].active_members_count
    /\ tontines'[t].invite_code = tontines[t].invite_code
    /\ tontines'[t].expected_members = tontines[t].expected_members
    /\ tontines'[t].created_by = tontines[t].created_by

NothingUndone ==
  [][members \subseteq members' /\ \A t \in Tontines : KeepsTontine(t)]_vars

(* Why the safety properties hold: what a call has staged follows from     *)
(* where it is in its coroutine ...                                        *)
ControlSoundAt(c) ==
  /\ pc[c] # "idle" => args[c].user \in Users
  /\ pc[c] \in {"idle", "reserve", "diagnose", "insertMember"} => ~Creating(c)
  /\ pc[c] \in {"draw", "insertTontine", "insertOwner"} => Creating(c)
  /\ pc[c] \in InTransaction => args[c].code \in Codes
  /\ pc[c] \in {"insertMember", "insertOwner"} =>
       Staged(c) /\ txn[c].member = None
  /\ pc[c] = "commit" => (Staged(c) => txn[c].member # None)
  /\ ~Staged(c) => txn[c] = NoTxn
  /\ pc[c] \notin {"insertMember", "insertOwner", "commit", "failed"} =>
       ~Staged(c)
ControlSound == \A c \in Calls : ControlSoundAt(c)

(* ... a staged document is the committed one with one seat more, or a new *)
(* tontine under an unused code, and a staged member is not yet a member   *)
(* of it ...                                                               *)
StagedJoin(c) ==
  LET t == tontines[txn[c].id]
  IN /\ t # None
     /\ t.status = "OPEN"
     /\ t.active_members_count < t.expected_members
     /\ txn[c].doc = [t EXCEPT !.active_members_count = @ + 1]
     /\ txn[c].member # None => ~AlreadyIn(txn[c].id, args[c].user)

StagedCreation(c) ==
  /\ tontines[txn[c].id] = None
  /\ txn[c].doc = NewTontine(c)
  /\ Committed(args[c].code) = {}

StagingSoundAt(c) == Staged(c) =>
  /\ txn[c].id # None
  /\ IF Creating(c) THEN StagedCreation(c) ELSE StagedJoin(c)
  /\ txn[c].member # None => txn[c].member =
       [tontine_id |-> txn[c].id, user_id |-> args[c].user,
        role |-> IF Creating(c) THEN "OWNER" ELSE "MEMBER", by |-> c]
StagingSound == \A c \in Calls : StagingSoundAt(c)

(* ... and no two open transactions stage the same document or code.       *)
StagingExclusive ==
  \A c, d \in Calls : c # d /\ Staged(c) /\ Staged(d) =>
    /\ txn[c].id # txn[d].id
    /\ Creating(c) /\ Creating(d) => args[c].code # args[d].code

(* Committed documents: counted by their members, within their capacity    *)
(* (the counter's own bound, from which the members' bound follows), and   *)
(* told apart by their codes.                                              *)
CommittedSound ==
  /\ IsFiniteSet(members)
  /\ CounterMatchesMembers
  /\ \A t \in Tontines : tontines[t] # None =>
       tontines[t].active_members_count <= tontines[t].expected_members
  /\ \A t, o \in Tontines :
       /\ tontines[t] # None
       /\ tontines[o] # None
       /\ tontines[t].invite_code = tontines[o].invite_code
       => t = o
  /\ OneMembershipPerUser

(* The inductive invariant of the module: no open transaction of any of    *)
(* the calls can spoil what another one relies on when it commits.         *)
IInv ==
  /\ TypeOK
  /\ ControlSound
  /\ StagingSound
  /\ StagingExclusive
  /\ CommittedSound

(* Every call returns or raises: contention on a seat or a code, collisions*)
(* and transient errors cannot make a caller wait for ever.                *)
EveryCallEnds ==
  \A c \in Calls : pc[c] # "idle" ~> pc[c] \in {"done", "failed"}

(* A seat reserved by a call that then dies is given back (or committed).  *)
ReservationsResolved == \A c \in Calls : Staged(c) ~> ~Staged(c)

(* The repository implements the register of TontineRegistry, in which a   *)
(* seat is counted by the members themselves and creation is one step.     *)
Registry == INSTANCE TontineRegistry WITH
  register <- [t \in Tontines |->
    IF tontines[t] = None THEN None
    ELSE [invite_code |-> tontines[t].invite_code,
          expected_members |-> tontines[t].expected_members,
          status |-> tontines[t].status,
          created_by |-> tontines[t].created_by]],
  seats <- {<<m.tontine_id, m.user_id>> : m \in members}

RefinesRegistry == Registry!Spec

(* None is no entry of the register either. *)
ASSUME EntryAssumption == None \notin Registry!Entry
=============================================================================
