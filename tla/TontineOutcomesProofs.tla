------------------------ MODULE TontineOutcomesProofs ------------------------
(***************************************************************************)
(* Proofs about what the callers of TontineStore are told, and that it     *)
(* implements TontineRegistry, on top of the inductive invariant proved in *)
(* TontineStoreProofs.                                                     *)
(***************************************************************************)
EXTENDS TontineStoreProofs

(* What becomes of the committed tontines in a step: a commit writes one   *)
(* of them, a closing closes one, everything else leaves them alone.       *)
LEMMA ThreeKindsOfStep ==
  IInv /\ [Next]_vars =>
    \/ UNCHANGED <<tontines, members>>
    \/ \E c \in Calls : ServerCommit(c)
    \/ \E t \in Tontines : CloseTontine(t)
<1> SUFFICES ASSUME [Next]_vars
             PROVE  \/ UNCHANGED <<tontines, members>>
                    \/ \E c \in Calls : ServerCommit(c)
                    \/ \E t \in Tontines : CloseTontine(t)
  OBVIOUS
<1>1. CASE UNCHANGED vars
  BY <1>1 DEF vars
<1>2. CASE \E c \in Calls : CallStep(c)
  BY <1>2, OnlyCommitsWrite
<1>q. QED
  BY <1>1, <1>2, NextIsCallStep

(* A closing changes one field of one tontine. *)
LEMMA CloseCloses ==
  ASSUME TypeOK, NEW t \in Tontines, CloseTontine(t)
  PROVE  /\ tontines[t] \in TontineDoc
         /\ tontines' = [tontines EXCEPT ![t] = tontines'[t]]
         /\ tontines'[t] \in TontineDoc
         /\ tontines'[t].invite_code = tontines[t].invite_code
         /\ tontines'[t].expected_members = tontines[t].expected_members
         /\ tontines'[t].created_by = tontines[t].created_by
         /\ tontines'[t].active_members_count = tontines[t].active_members_count
         /\ tontines'[t].status = "CLOSED"
         /\ UNCHANGED <<members, txn, pc, args, result>>
<1>1. tontines[t] \in TontineDoc
  BY DEF CloseTontine, TypeOK
<1>2. tontines' = [tontines EXCEPT ![t] = [tontines[t] EXCEPT !.status = "CLOSED"]]
  BY DEF CloseTontine
<1>3. tontines'[t] = [tontines[t] EXCEPT !.status = "CLOSED"]
  BY <1>2 DEF TypeOK
<1>4. [tontines[t] EXCEPT !.status = "CLOSED"] \in TontineDoc
  BY <1>1 DEF TontineDoc, Statuses
<1>q. QED
  BY <1>1, <1>2, <1>3, <1>4 DEF TontineDoc, CloseTontine

-----------------------------------------------------------------------------
(* The owner of a tontine                                                  *)

OwnerOf(t) == \E m \in MembersOf(t) :
  /\ m.user_id = tontines[t].created_by
  /\ {n \in MembersOf(t) : n.role = "OWNER"} = {m}

LEMMA OwnerPreserved ==
  IInv /\ CreatedWithOwner /\ [Next]_vars => CreatedWithOwner'
<1> SUFFICES ASSUME IInv, CreatedWithOwner, [Next]_vars,
                    NEW t \in Tontines, tontines'[t] # None
             PROVE  OwnerOf(t)'
  BY DEF CreatedWithOwner, OwnerOf
<1>0. TypeOK
  BY DEF IInv
<1>1. ASSUME tontines'[t] = tontines[t], MembersOf(t)' = MembersOf(t)
      PROVE  OwnerOf(t)'
  BY <1>1 DEF CreatedWithOwner, OwnerOf
<1>2. CASE UNCHANGED <<tontines, members>>
  BY <1>1, <1>2 DEF MembersOf
<1>3. ASSUME NEW c \in Calls, ServerCommit(c) PROVE OwnerOf(t)'
  <2>1. PICK id \in Tontines, m \in MemberDoc, doc \in TontineDoc :
          /\ id = txn[c].id /\ m = txn[c].member /\ doc = txn[c].doc
    BY <1>3, CommitAdds
  <2>2. /\ m.tontine_id = id /\ m.user_id = args[c].user
        /\ tontines' = [tontines EXCEPT ![id] = doc]
        /\ members' = members \union {m}
    BY <1>3, <2>1, CommitAdds
  <2>3. CASE t # id
    BY <1>0, <1>1, <2>2, <2>3 DEF MembersOf, TypeOK
  <2>4. CASE t = id
    <3>1. MembersOf(t)' = MembersOf(t) \union {m} /\ tontines'[t] = doc
      BY <1>0, <2>2, <2>4 DEF MembersOf, TypeOK
    <3>2. CASE Creating(c)
      <4>1. MembersOf(t) = {} /\ doc = NewTontine(c) /\ m.role = "OWNER"
        BY <1>3, <2>1, <2>4, <3>2, CommitAdds
      <4>2. MembersOf(t)' = {m} /\ m.user_id = tontines'[t].created_by
        BY <2>2, <3>1, <4>1 DEF NewTontine
      <4>q. QED
        BY <4>1, <4>2 DEF OwnerOf
    <3>3. CASE ~Creating(c)
      <4>1. /\ tontines[t] \in TontineDoc /\ m.role = "MEMBER"
            /\ doc = [tontines[t] EXCEPT !.active_members_count = @ + 1]
        BY <1>3, <2>1, <2>4, <3>3, CommitAdds
      <4>2. tontines[t] # None /\ doc.created_by = tontines[t].created_by
        BY <4>1, NoneAssumption DEF TontineDoc
      <4>3. PICK n \in MembersOf(t) :
              /\ n.user_id = tontines[t].created_by
              /\ {p \in MembersOf(t) : p.role = "OWNER"} = {n}
        BY <4>2 DEF CreatedWithOwner
      <4>4. {p \in MembersOf(t)' : p.role = "OWNER"} = {n}
        BY <3>1, <4>1, <4>3
      <4>q. QED
        BY <3>1, <4>2, <4>3, <4>4 DEF OwnerOf
    <3>q. QED
      BY <3>2, <3>3
  <2>q. QED
    BY <2>3, <2>4
<1>4. ASSUME NEW o \in Tontines, CloseTontine(o) PROVE OwnerOf(t)'
  <2>1. /\ tontines'[t] = tontines[t] \/ t = o
        /\ tontines'[o].created_by = tontines[o].created_by
        /\ tontines[o] # None
        /\ members' = members
    BY <1>0, <1>4, CloseCloses, NoneAssumption DEF TypeOK
  <2>2. tontines[t] # None /\ tontines'[t].created_by = tontines[t].created_by
    BY <2>1
  <2>3. MembersOf(t)' = MembersOf(t)
    BY <2>1 DEF MembersOf
  <2>q. QED
    BY <2>2, <2>3 DEF CreatedWithOwner, OwnerOf
<1>q. QED
  BY <1>2, <1>3, <1>4, ThreeKindsOfStep

(* A tontine is never without its owner, nor with two: create_with_owner   *)
(* makes both or nothing.                                                  *)
THEOREM OwnedFromBirth == Spec => []CreatedWithOwner
<1>1. Init => CreatedWithOwner
  BY DEF Init, CreatedWithOwner
<1>q. QED
  BY <1>1, OwnerPreserved, Invariant, PTL DEF Spec
-----------------------------------------------------------------------------
(* The register                                                            *)

(* What the register says of a tontine. *)
EntryOf(t) ==
  IF tontines[t] = None THEN None
  ELSE [invite_code |-> tontines[t].invite_code,
        expected_members |-> tontines[t].expected_members,
        status |-> tontines[t].status,
        created_by |-> tontines[t].created_by]

register == [t \in Tontines |-> EntryOf(t)]
seats == {<<m.tontine_id, m.user_id>> : m \in members}

LEMMA EntryOfDocument ==
  ASSUME NEW t \in Tontines, tontines[t] \in TontineDoc
  PROVE  /\ register[t] # None
         /\ register[t].invite_code = tontines[t].invite_code
         /\ register[t].expected_members = tontines[t].expected_members
         /\ register[t].status = tontines[t].status
         /\ register[t].created_by = tontines[t].created_by
<1>1. tontines[t] # None
  BY NoneAssumption
<1>2. register[t] \in Registry!Entry
  BY <1>1 DEF register, EntryOf, Registry!Entry, TontineDoc, Statuses
<1>q. QED
  BY <1>1, <1>2, EntryAssumption DEF register, EntryOf

(* Seats are told apart as memberships are: there are no more of them. *)
LEMMA SeatsAreMembers ==
  ASSUME IInv, NEW t \in Tontines
  PROVE  LET taken == {s \in seats : s[1] = t}
         IN /\ IsFiniteSet(taken)
            /\ Cardinality(taken) <= Cardinality(MembersOf(t))
<1> DEFINE taken == {s \in seats : s[1] = t}
           f == [m \in MembersOf(t) |-> <<m.tontine_id, m.user_id>>]
<1>1. IsFiniteSet(MembersOf(t))
  <2>1. MembersOf(t) \in SUBSET members
    BY DEF MembersOf
  <2>q. QED
    BY <2>1, FS_Subset DEF IInv, CommittedSound
<1>2. f \in Surjection(MembersOf(t), taken)
  <2>1. \A m \in MembersOf(t) : f[m] \in taken
    BY DEF MembersOf, seats
  <2>2. \A s \in taken : \E m \in MembersOf(t) : f[m] = s
    BY DEF MembersOf, seats
  <2>q. QED
    BY <2>1, <2>2 DEF Surjection
<1>q. QED
  BY <1>1, <1>2, FS_Surjection

LEMMA NoSeatWithoutMember ==
  ASSUME NEW t \in Tontines, NEW u \in Users, ~AlreadyIn(t, u)
  PROVE  <<t, u>> \notin seats
BY DEF AlreadyIn, MembersOf, seats

(* TontineRegistry counts with the Cardinality it has from FiniteSets. *)
LEMMA OneCardinality ==
  ASSUME NEW S PROVE Registry!Cardinality(S) = Cardinality(S)
BY Zenon DEF Registry!Cardinality, Cardinality

LEMMA StepImplements ==
  IInv /\ [Next]_vars => [Registry!Next]_<<register, seats>>
<1> SUFFICES ASSUME IInv, [Next]_vars
             PROVE  [Registry!Next]_<<register, seats>>
  OBVIOUS
<1>0. TypeOK
  BY DEF IInv
<1>1. CASE UNCHANGED <<tontines, members>>
  BY <1>1 DEF register, EntryOf, seats
<1>2. ASSUME NEW c \in Calls, ServerCommit(c) PROVE Registry!Next
  <2>1. PICK id \in Tontines, m \in MemberDoc, doc \in TontineDoc :
          /\ id = txn[c].id /\ m = txn[c].member /\ doc = txn[c].doc
    BY <1>2, CommitAdds
  <2>2. /\ m.tontine_id = id /\ m.user_id = args[c].user
        /\ ~AlreadyIn(id, m.user_id)
        /\ tontines' = [tontines EXCEPT ![id] = doc]
        /\ members' = members \union {m}
    BY <1>2, <2>1, CommitAdds
  <2>3. m.user_id \in Users
    BY DEF MemberDoc
  <2>4. seats' = seats \union {<<id, m.user_id>>}
    BY <2>2 DEF seats
  <2>5. tontines'[id] = doc /\ \A t \in Tontines : t # id => tontines'[t] = tontines[t]
    BY <1>0, <2>2 DEF TypeOK
  <2>6. \A t \in Tontines : t # id => register'[t] = register[t]
    BY <2>5 DEF register, EntryOf
  <2>7. CASE Creating(c)
    <3>1. /\ tontines[id] = None /\ doc = NewTontine(c)
          /\ Committed(doc.invite_code) = {}
      BY <1>2, <2>1, <2>7, CommitAdds
    <3>2. register[id] = None
      BY <3>1 DEF register, EntryOf
    <3>3. ASSUME NEW o \in Tontines, register[o] # None
          PROVE  register[o].invite_code # doc.invite_code
      BY <3>1, <3>3 DEF register, EntryOf, Committed
    <3>4. register' = [register EXCEPT ![id] =
            [invite_code |-> doc.invite_code,
             expected_members |-> doc.expected_members,
             status |-> "OPEN", created_by |-> m.user_id]]
      <4>1. doc # None /\ doc.status = "OPEN" /\ doc.created_by = m.user_id
        BY <2>2, <3>1, NoneAssumption DEF NewTontine
      <4>2. register'[id] = [invite_code |-> doc.invite_code,
              expected_members |-> doc.expected_members,
              status |-> "OPEN", created_by |-> m.user_id]
        BY <2>5, <4>1 DEF register, EntryOf
      <4>q. QED
        BY <2>6, <4>2 DEF register
    <3>5. doc.invite_code \in Codes /\ doc.expected_members \in Capacities
      BY DEF TontineDoc
    <3>6. Registry!Create(id, m.user_id, doc.invite_code, doc.expected_members)
      BY <2>4, <3>2, <3>3, <3>4 DEF Registry!Create, register, EntryOf, seats
    <3>q. QED
      BY <2>3, <3>5, <3>6 DEF Registry!Next
  <2>8. CASE ~Creating(c)
    <3>1. /\ tontines[id] \in TontineDoc
          /\ tontines[id].active_members_count < tontines[id].expected_members
          /\ doc = [tontines[id] EXCEPT !.active_members_count = @ + 1]
          /\ tontines[id].status = "OPEN"
      <4>1. StagingSoundAt(c) /\ Staged(c)
        BY <1>2, <2>1, NoneAssumption DEF IInv, StagingSound, Staged
      <4>q. QED
        BY <1>2, <2>1, <2>8, <4>1, CommitAdds DEF StagingSoundAt, StagedJoin
    <3>2. register' = register
      <4>1. EntryOf(id)' = EntryOf(id)
        <5>1. /\ doc # None /\ tontines[id] # None
              /\ doc.invite_code = tontines[id].invite_code
              /\ doc.expected_members = tontines[id].expected_members
              /\ doc.status = tontines[id].status
              /\ doc.created_by = tontines[id].created_by
          BY <3>1, NoneAssumption DEF TontineDoc
        <5>q. QED
          BY <2>5, <5>1 DEF EntryOf
      <4>q. QED
        BY <2>6, <4>1 DEF register
    <3>3. /\ register[id] # None
          /\ register[id].status = "OPEN"
          /\ register[id].expected_members = tontines[id].expected_members
      BY <3>1, EntryOfDocument
    <3>4. Cardinality({s \in seats : s[1] = id}) < register[id].expected_members
      <4>1. tontines[id].active_members_count = Cardinality(MembersOf(id))
        BY <3>1, NoneAssumption DEF IInv, CommittedSound, CounterMatchesMembers
      <4>2. /\ tontines[id].expected_members \in Nat
            /\ tontines[id].active_members_count \in Nat
        BY <3>1, CapacitiesAssumption DEF TontineDoc
      <4>3. LET taken == {s \in seats : s[1] = id}
            IN  Cardinality(taken) \in Nat
                  /\ Cardinality(taken) <= Cardinality(MembersOf(id))
        BY SeatsAreMembers, FS_CardinalityType
      <4>q. QED
        BY <3>1, <3>3, <4>1, <4>2, <4>3
    <3>5. <<id, m.user_id>> \notin seats
      BY <2>2, <2>3, NoSeatWithoutMember
    <3>6. Registry!Join(id, m.user_id)
      <4>1. Registry!Cardinality(Registry!SeatsOf(id))
              < register[id].expected_members
        BY <3>4, OneCardinality DEF Registry!SeatsOf, seats
      <4>q. QED
        BY <2>4, <3>2, <3>3, <3>5, <4>1
           DEF Registry!Join, register, EntryOf, seats
    <3>q. QED
      BY <2>3, <3>6 DEF Registry!Next
  <2>q. QED
    BY <2>7, <2>8
<1>3. ASSUME NEW t \in Tontines, CloseTontine(t) PROVE Registry!Next
  <2>1. /\ tontines[t] \in TontineDoc /\ tontines'[t] \in TontineDoc
        /\ tontines' = [tontines EXCEPT ![t] = tontines'[t]]
        /\ tontines'[t].invite_code = tontines[t].invite_code
        /\ tontines'[t].expected_members = tontines[t].expected_members
        /\ tontines'[t].created_by = tontines[t].created_by
        /\ tontines'[t].status = "CLOSED"
        /\ members' = members
    BY <1>0, <1>3, CloseCloses
  <2>2. tontines[t] # None /\ tontines'[t] # None
    BY <2>1, NoneAssumption
  <2>3. register[t] # None
    BY <2>1, EntryOfDocument
  <2>4. register' = [register EXCEPT ![t].status = "CLOSED"]
    <3>1. EntryOf(t)' = [EntryOf(t) EXCEPT !.status = "CLOSED"]
      BY <2>1, <2>2 DEF EntryOf
    <3>2. \A o \in Tontines : o # t => EntryOf(o)' = EntryOf(o)
      <4>1. \A o \in Tontines : o # t => tontines'[o] = tontines[o]
        BY <1>0, <2>1 DEF TypeOK
      <4>q. QED
        BY <4>1 DEF EntryOf
    <3>q. QED
      BY <3>1, <3>2 DEF register
  <2>5. seats' = seats
    BY <2>1 DEF seats
  <2>6. Registry!Close(t)
    BY <2>3, <2>4, <2>5 DEF Registry!Close, register, EntryOf, seats
  <2>q. QED
    BY <2>6 DEF Registry!Next
<1>q. QED
  BY <1>1, <1>2, <1>3, ThreeKindsOfStep

(* The repository, with its counter, its transactions and its retries, is  *)
(* a register in which creating and joining are indivisible.               *)
THEOREM ImplementsRegistry == Spec => RefinesRegistry
<1>1. Init => Registry!Init
  BY DEF Init, Registry!Init
<1>2. IInv /\ [Next]_vars => [Registry!Next]_(Registry!vars)
  BY StepImplements DEF Registry!vars, register, EntryOf, seats
<1>q. QED
  BY <1>1, <1>2, Invariant, PTL DEF Spec, RefinesRegistry, Registry!Spec
-----------------------------------------------------------------------------
(* What the callers are told                                               *)

Written(c) == {m \in members : m.by = c}

Backed(c) ==
  \E m \in Written(c) : /\ m.user_id = args[c].user
                        /\ (m.role = "OWNER") <=> Creating(c)

(* Until its commit is applied a call has written nothing; from then on    *)
(* what it has written is what it will report, and it cannot fail to.      *)
OutcomeSoundAt(c) ==
  /\ pc[c] \notin {"done", "failed"} => result[c] = None
  /\ pc[c] = "failed" => result[c] = "Error"
  /\ pc[c] \notin {"commit", "failed", "done"} \/ Staged(c) => Written(c) = {}
  /\ pc[c] = "commit" /\ ~Staged(c) => Backed(c)
  /\ result[c] \in {"Joined", "Created"} => Backed(c)
  /\ result[c] \in Refusals \union {"InviteCodeGenerationFailed"} =>
       Written(c) = {}

(* What a call is refused for is seen in a snapshot, and still stands: a   *)
(* seat reserved is one of the tontine asked for.                          *)
Full(c) == \E t \in Committed(args[c].code) :
  tontines[t].active_members_count = tontines[t].expected_members
Closed(c) == \E t \in Committed(args[c].code) : tontines[t].status # "OPEN"
Inside(c) == \E t \in Committed(args[c].code) : AlreadyIn(t, args[c].user)

RefusalSoundAt(c) ==
  /\ Staged(c) /\ ~Creating(c) => txn[c].id \in Committed(args[c].code)
  /\ pc[c] = "diagnose" /\ Existing(c) # None =>
       IF Existing(c).status # "OPEN" THEN Closed(c) ELSE Full(c)
  /\ result[c] = "TontineFull" => Full(c)
  /\ result[c] = "TontineClosed" => Closed(c)
  /\ result[c] = "AlreadyMember" => Inside(c)

ResultElsewhere(c) == \A d \in Calls \ {c} : result'[d] = result[d]

LEMMA ResultsAreLocal ==
  ASSUME TypeOK, NEW c \in Calls, CallStep(c)
  PROVE  ResultElsewhere(c)
<1>1. CASE CallJoin(c) \/ CallCreate(c) \/ ServerAbort(c) \/ CloseWindow(c)
           \/ Reserve(c) \/ InsertMember(c) \/ ReserveNothing(c)
           \/ DrawCode(c) \/ InsertTontine(c) \/ InsertOwner(c)
           \/ InsertTontineDuplicate(c) \/ ServerCommit(c)
  BY <1>1 DEF CallJoin, CallCreate, ServerAbort, CloseWindow, Reserve,
     InsertMember, ReserveNothing, DrawCode, InsertTontine, InsertOwner,
     InsertTontineDuplicate, ServerCommit, ResultElsewhere
<1>2. CASE TransientFailure(c) \/ ReserveConflict(c) \/ InsertTontineConflict(c)
  BY <1>2 DEF TransientFailure, ReserveConflict, InsertTontineConflict,
     Transient, TypeOK, ResultElsewhere
<1>3. CASE Fail(c) \/ Diagnose(c) \/ InsertMemberDuplicate(c)
           \/ DrawExhausted(c) \/ CommitAcknowledged(c)
  BY <1>3 DEF Fail, Diagnose, InsertMemberDuplicate, DrawExhausted,
     CommitAcknowledged, Return, TypeOK, ResultElsewhere
<1>q. QED
  BY <1>1, <1>2, <1>3
     DEF CallStep, Step, JoinStep, CreateStep, CommitStep, Fault

(* A commit adds to what its own call has written, and to nothing else.    *)
LEMMA WritesAreOwn ==
  ASSUME IInv, NEW c \in Calls, CallStep(c), NEW d \in Calls, d # c
  PROVE  Written(d)' = Written(d)
<1>1. CASE ServerCommit(c)
  <2>1. PICK m : m.by = c /\ members' = members \union {m}
    BY <1>1, CommitAdds
  <2>q. QED
    BY <2>1 DEF Written
<1>2. CASE ~ServerCommit(c)
  BY <1>2, OnlyCommitsWrite DEF Written
<1>q. QED
  BY <1>1, <1>2

(* The steps of a call, by what they do to its outcome. *)
LEMMA OutcomeOfOwnStep ==
  ASSUME IInv, NEW c \in Calls, CallStep(c), OutcomeSoundAt(c)
  PROVE  OutcomeSoundAt(c)'
<1>0. TypeOK /\ ControlSoundAt(c)
  BY DEF IInv, ControlSound
<1>1. ASSUME members' = members, args'[c] = args[c]
      PROVE  Written(c)' = Written(c) /\ (Backed(c)' <=> Backed(c))
  BY <1>1 DEF Written, Backed, Creating
<1>2. None \notin Outcomes
  BY NoneAssumption
<1>3. CASE CallJoin(c) \/ CallCreate(c) \/ DrawCode(c) \/ ReserveNothing(c)
  <2>1. /\ result' = result /\ members' = members /\ txn' = txn
        /\ pc[c] \in {"idle", "draw", "reserve"}
        /\ pc'[c] \in {"reserve", "draw", "insertTontine", "diagnose"}
    BY <1>0, <1>3 DEF CallJoin, CallCreate, DrawCode, ReserveNothing, Goto, TypeOK
  <2>2. Written(c)' = Written(c)
    BY <2>1 DEF Written
  <2>3. result[c] = None /\ Written(c) = {}
    BY <2>1 DEF OutcomeSoundAt
  <2>q. QED
    BY <1>2, <2>1, <2>2, <2>3 DEF OutcomeSoundAt, Outcomes
<1>4. CASE Reserve(c) \/ InsertTontine(c) \/ InsertTontineDuplicate(c)
  <2>1. /\ result' = result /\ members' = members /\ args' = args
        /\ pc[c] \in {"reserve", "insertTontine"}
        /\ pc'[c] \in {"insertMember", "insertOwner", "draw"}
    BY <1>0, <1>4 DEF Reserve, InsertTontine, InsertTontineDuplicate, Goto, TypeOK
  <2>2. result[c] = None /\ Written(c) = {}
    BY <2>1 DEF OutcomeSoundAt
  <2>q. QED
    BY <1>1, <1>2, <2>1, <2>2 DEF OutcomeSoundAt, Outcomes
<1>5. CASE InsertMember(c) \/ InsertOwner(c)
  <2>1. /\ result' = result /\ members' = members /\ args' = args
        /\ pc[c] \in {"insertMember", "insertOwner"} /\ pc'[c] = "commit"
        /\ txn'[c].doc = txn[c].doc
    BY <1>0, <1>5 DEF InsertMember, InsertOwner, Goto, TypeOK
  <2>2. Staged(c)'
    BY <1>0, <2>1 DEF ControlSoundAt, Staged
  <2>3. result[c] = None /\ Written(c) = {}
    BY <2>1 DEF OutcomeSoundAt
  <2>q. QED
    BY <1>1, <1>2, <2>1, <2>2, <2>3 DEF OutcomeSoundAt, Outcomes
<1>6. CASE CloseWindow(c)
  BY <1>1, <1>6 DEF CloseWindow, OutcomeSoundAt, Staged
<1>7. CASE TransientFailure(c) \/ ReserveConflict(c) \/ InsertTontineConflict(c)
  <2>1. /\ members' = members /\ args' = args /\ txn'[c] = NoTxn
        /\ pc[c] \in InTransaction /\ (pc[c] = "commit" => Staged(c))
        /\ \/ pc'[c] \in {"insertTontine", "reserve"} /\ result' = result
           \/ pc'[c] = "failed" /\ result'[c] = "Error"
    BY <1>0, <1>7 DEF TransientFailure, ReserveConflict, InsertTontineConflict,
       Transient, Goto, TypeOK, InTransaction
  <2>2. result[c] = None /\ Written(c) = {}
    BY <2>1 DEF OutcomeSoundAt, InTransaction
  <2>q. QED
    BY <1>1, <1>2, <2>1, <2>2 DEF OutcomeSoundAt, Outcomes, Refusals
<1>8. CASE Fail(c)
  <2>1. /\ members' = members /\ args' = args /\ txn' = txn
        /\ pc[c] \in InTransaction /\ pc'[c] = "failed" /\ result'[c] = "Error"
    BY <1>0, <1>8 DEF Fail, Goto, TypeOK
  <2>2. Staged(c)' = Staged(c)
    BY <2>1 DEF Staged
  <2>q. QED
    BY <1>1, <2>1, <2>2 DEF OutcomeSoundAt, InTransaction, Refusals
<1>9. CASE ServerAbort(c)
  <2>1. /\ members' = members /\ args' = args /\ pc' = pc /\ result' = result
        /\ pc[c] = "failed" /\ txn'[c] = NoTxn
    BY <1>0, <1>9 DEF ServerAbort, TypeOK
  <2>q. QED
    BY <1>1, <2>1 DEF OutcomeSoundAt, Staged, NoTxn
<1>10. CASE Diagnose(c) \/ InsertMemberDuplicate(c) \/ DrawExhausted(c)
  <2>1. /\ members' = members /\ args' = args /\ txn'[c] = NoTxn
        /\ pc[c] \in {"diagnose", "insertMember", "draw"} /\ pc'[c] = "done"
        /\ result'[c] \in Refusals \union {"InviteCodeGenerationFailed"}
    BY <1>0, <1>10 DEF Diagnose, InsertMemberDuplicate, DrawExhausted, Return,
       Goto, TypeOK, Refusals
  <2>2. Written(c) = {}
    BY <2>1 DEF OutcomeSoundAt
  <2>q. QED
    BY <1>1, <2>1, <2>2 DEF OutcomeSoundAt, Refusals
<1>11. CASE CommitAcknowledged(c)
  <2>1. /\ members' = members /\ args' = args /\ txn'[c] = NoTxn
        /\ pc[c] = "commit" /\ ~Staged(c) /\ pc'[c] = "done"
        /\ result'[c] \in {"Joined", "Created"}
    BY <1>0, <1>11 DEF CommitAcknowledged, Return, Goto, TypeOK
  <2>2. Backed(c) /\ ~Staged(c)'
    BY <2>1 DEF OutcomeSoundAt, Staged, NoTxn
  <2>q. QED
    BY <1>1, <2>1, <2>2 DEF OutcomeSoundAt, Refusals
<1>12. CASE ServerCommit(c)
  <2>1. /\ pc' = pc /\ result' = result /\ args' = args /\ txn'[c] = NoTxn
        /\ pc[c] \in {"commit", "failed"}
    BY <1>0, <1>12 DEF ServerCommit, TypeOK
  <2>2. PICK m \in MemberDoc : /\ m = txn[c].member
                               /\ m.by = c /\ m.user_id = args[c].user
                               /\ members' = members \union {m}
                               /\ (m.role = "OWNER") <=> Creating(c)
    BY <1>12, CommitAdds
  <2>3. m \in Written(c)'
    BY <2>2 DEF Written
  <2>4. Backed(c)'
    BY <2>1, <2>2, <2>3 DEF Backed, Creating
  <2>5. result[c] \in {None, "Error"}
    BY <2>1 DEF OutcomeSoundAt
  <2>6. ~Staged(c)'
    BY <2>1 DEF Staged, NoTxn
  <2>q. QED
    BY <1>2, <2>1, <2>4, <2>5, <2>6 DEF OutcomeSoundAt, Outcomes, Refusals
<1>q. QED
  BY <1>3, <1>4, <1>5, <1>6, <1>7, <1>8, <1>9, <1>10, <1>11, <1>12
     DEF CallStep, Step, JoinStep, CreateStep, CommitStep, Fault

OutcomesSound == \A c \in Calls : OutcomeSoundAt(c)

LEMMA OutcomesPreserved ==
  IInv /\ OutcomesSound /\ [Next]_vars => OutcomesSound'
<1> SUFFICES ASSUME IInv, OutcomesSound, [Next]_vars, NEW d \in Calls
             PROVE  OutcomeSoundAt(d)'
  BY DEF OutcomesSound
<1>0. TypeOK /\ OutcomeSoundAt(d)
  BY DEF IInv, OutcomesSound
<1>1. ASSUME Written(d)' = Written(d), pc'[d] = pc[d], args'[d] = args[d],
             txn'[d] = txn[d], result'[d] = result[d]
      PROVE  OutcomeSoundAt(d)'
  BY <1>0, <1>1 DEF OutcomeSoundAt, Staged, Backed, Creating
<1>2. CASE UNCHANGED vars
  BY <1>1, <1>2 DEF vars, Written
<1>3. CASE \E t \in Tontines : CloseTontine(t)
  BY <1>1, <1>3 DEF CloseTontine, Written
<1>4. ASSUME NEW c \in Calls, CallStep(c) PROVE OutcomeSoundAt(d)'
  <2>1. CASE c = d
    BY <1>0, <1>4, <2>1, OutcomeOfOwnStep
  <2>2. CASE c # d
    <3>1. Elsewhere(c) /\ ResultElsewhere(c) /\ Written(d)' = Written(d)
      BY <1>0, <1>4, <2>2, StepsAreLocal, ResultsAreLocal, WritesAreOwn
    <3>q. QED
      BY <1>1, <2>2, <3>1 DEF Elsewhere, ResultElsewhere
  <2>q. QED
    BY <2>1, <2>2
<1>q. QED
  BY <1>2, <1>3, <1>4, NextIsCallStep

LEMMA InitOutcomes == Init => OutcomesSound
BY NoneAssumption DEF Init, OutcomesSound, OutcomeSoundAt, Written, Staged,
   NoTxn, Outcomes

(* Whatever is retried or lost, a caller is told "joined" or "created" only*)
(* of a membership he has, and refused only if the call has left nothing.  *)
THEOREM AnswersAreTrue == Spec => []OutcomesTruthful
<1>1. OutcomesSound => OutcomesTruthful
  BY DEF OutcomesSound, OutcomeSoundAt, OutcomesTruthful, Backed, Written
<1>q. QED
  BY <1>1, InitOutcomes, OutcomesPreserved, Invariant, PTL DEF Spec
-----------------------------------------------------------------------------
(* Why a caller is turned away                                             *)

(* A reason, once there is one, does not go away: counters grow up to the  *)
(* capacity and no further, nothing is opened again, nobody leaves.        *)
LEMMA ReasonsRemain ==
  ASSUME IInv, [Next]_vars, NEW c \in Calls,
         args'[c].code = args[c].code, args'[c].user = args[c].user
  PROVE  /\ Committed(args[c].code) \subseteq Committed(args[c].code)'
         /\ Full(c) => Full(c)'
         /\ Closed(c) => Closed(c)'
         /\ Inside(c) => Inside(c)'
<1>0. TypeOK /\ TypeOK' /\ CommittedSound /\ CommittedSound'
  BY IInvInductive DEF IInv
<1>1. \A t \in Committed(args[c].code) :
        t \in Tontines /\ t \in Committed(args[c].code)'
  <2> SUFFICES ASSUME NEW t \in Committed(args[c].code)
               PROVE  t \in Tontines /\ t \in Committed(args[c].code)'
    OBVIOUS
  <2>1. t \in Tontines /\ tontines[t] # None
        /\ tontines[t].invite_code = args[c].code
    BY DEF Committed
  <2>2. KeepsTontine(t)
    BY <2>1, StepKeeps
  <2>q. QED
    BY <2>1, <2>2 DEF Committed, KeepsTontine
<1>2. ASSUME NEW t \in Committed(args[c].code),
             tontines[t].active_members_count = tontines[t].expected_members
      PROVE  tontines'[t].active_members_count = tontines'[t].expected_members
  <2>1. t \in Tontines /\ tontines[t] # None
    BY DEF Committed
  <2>2. KeepsTontine(t)
    BY <2>1, StepKeeps
  <2>3. tontines'[t] # None
    BY <2>1, <2>2 DEF KeepsTontine
  <2>4. tontines'[t].active_members_count <= tontines'[t].expected_members
    BY <1>0, <2>1, <2>3 DEF CommittedSound
  <2>5. tontines[t] \in TontineDoc /\ tontines'[t] \in TontineDoc
    BY <1>0, <2>1, <2>3 DEF TypeOK
  <2>6. /\ tontines'[t].active_members_count \in Nat
        /\ tontines[t].active_members_count \in Nat
    BY <2>5 DEF TontineDoc
  <2>q. QED
    BY <1>2, <2>1, <2>2, <2>4, <2>6 DEF KeepsTontine
<1>3. ASSUME NEW t \in Committed(args[c].code), tontines[t].status # "OPEN"
      PROVE  tontines'[t].status # "OPEN"
  <2>1. t \in Tontines /\ tontines[t] # None
    BY DEF Committed
  <2>2. CASE UNCHANGED <<tontines, members>>
    BY <1>3, <2>2
  <2>3. ASSUME NEW d \in Calls, ServerCommit(d)
        PROVE  tontines'[t].status # "OPEN"
    <3>1. StagingSoundAt(d) /\ Staged(d)
      <4>1. StagingSoundAt(d)
        BY DEF IInv, StagingSound
      <4>2. txn[d].doc \in TontineDoc
        BY <2>3, CommitAdds
      <4>q. QED
        BY <4>1, <4>2, NoneAssumption DEF Staged
    <3>2. txn[d].id # t
      BY <1>3, <2>1, <3>1 DEF StagingSoundAt, StagedJoin, StagedCreation
    <3>q. QED
      BY <1>0, <1>3, <2>1, <2>3, <3>2 DEF ServerCommit, TypeOK
  <2>4. ASSUME NEW o \in Tontines, CloseTontine(o)
        PROVE  tontines'[t].status # "OPEN"
    <3>1. tontines'[o].status = "CLOSED"
      BY <1>0, <2>4, CloseCloses
    <3>2. t # o => tontines'[t] = tontines[t]
      BY <1>0, <2>1, <2>4 DEF CloseTontine, TypeOK
    <3>q. QED
      BY <1>3, <3>1, <3>2
  <2>q. QED
    BY <2>2, <2>3, <2>4, ThreeKindsOfStep
<1>4. ASSUME NEW t \in Committed(args[c].code), AlreadyIn(t, args[c].user)
      PROVE  AlreadyIn(t, args[c].user)'
  <2>1. members \subseteq members'
    BY StepKeeps DEF Committed
  <2>q. QED
    BY <1>4, <2>1 DEF AlreadyIn, MembersOf
<1>q. QED
  BY <1>1, <1>2, <1>3, <1>4 DEF Full, Closed, Inside

(* The steps of a call that set its arguments come before any result. *)
LEMMA ArgumentsSetEarly ==
  ASSUME IInv, NEW c \in Calls, CallStep(c)
  PROVE  \/ args' = args
         \/ /\ pc[c] \in {"idle", "draw", "reserve"}
            /\ result' = result /\ ~Staged(c)'
            /\ pc'[c] = "diagnose" => ReserveNothing(c)
<1>0. TypeOK /\ ControlSoundAt(c)
  BY DEF IInv, ControlSound
<1>1. CASE CallJoin(c) \/ CallCreate(c) \/ DrawCode(c) \/ ReserveNothing(c)
  <2>1. /\ pc[c] \in {"idle", "draw", "reserve"}
        /\ result' = result /\ txn' = txn
        /\ pc'[c] = "diagnose" => ReserveNothing(c)
    BY <1>0, <1>1 DEF CallJoin, CallCreate, DrawCode, ReserveNothing, Goto, TypeOK
  <2>q. QED
    BY <1>0, <2>1 DEF ControlSoundAt, Staged
<1>2. CASE ~CallJoin(c) /\ ~CallCreate(c) /\ ~DrawCode(c) /\ ~ReserveNothing(c)
  BY <1>2 DEF CallStep, Step, JoinStep, CreateStep, CommitStep, Fault,
     ServerAbort, CloseWindow, TransientFailure, Fail, Reserve,
     ReserveConflict, Diagnose, InsertMember, InsertMemberDuplicate,
     DrawExhausted, InsertTontine, InsertTontineDuplicate,
     InsertTontineConflict, InsertOwner, ServerCommit, CommitAcknowledged
<1>q. QED
  BY <1>1, <1>2

(* A call that finds no seat sees, in its snapshot, why. *)
LEMMA NothingForAReason ==
  ASSUME IInv, NEW c \in Calls, ReserveNothing(c), args'[c].seen # None
  PROVE  IF args'[c].seen.status # "OPEN" THEN Closed(c)' ELSE Full(c)'
<1>0. TypeOK /\ CommittedSound
  BY DEF IInv
<1>1. PICK t \in Committed(args[c].code) :
        args' = [args EXCEPT ![c].seen = tontines[t]]
  BY <1>0 DEF ReserveNothing, TypeOK
<1>2. /\ args'[c].seen = tontines[t] /\ args'[c].code = args[c].code
      /\ tontines' = tontines
  BY <1>0, <1>1 DEF TypeOK, ReserveNothing
<1>3. /\ t \in Tontines /\ tontines[t] \in TontineDoc
      /\ tontines[t].active_members_count <= tontines[t].expected_members
  BY <1>0 DEF Committed, CommittedSound, TypeOK
<1>4. t \in Committed(args[c].code)'
  BY <1>2 DEF Committed
<1>5. tontines[t].status = "OPEN" =>
        tontines[t].active_members_count = tontines[t].expected_members
  <2>1. /\ tontines[t].active_members_count \in Nat
        /\ tontines[t].expected_members \in Nat
    <3>1. /\ tontines[t].active_members_count \in Nat
          /\ tontines[t].expected_members \in Capacities
      BY <1>3 DEF TontineDoc
    <3>q. QED
      BY <3>1, CapacityRange
  <2>2. tontines[t].status = "OPEN" =>
          ~(tontines[t].active_members_count < tontines[t].expected_members)
    BY DEF ReserveNothing, Available
  <2>q. QED
    BY <1>3, <2>1, <2>2
<1>q. QED
  BY <1>2, <1>4, <1>5 DEF Closed, Full

RefusalsSound == \A c \in Calls : RefusalSoundAt(c)

LEMMA RefusalsPreserved ==
  IInv /\ OutcomesSound /\ RefusalsSound /\ [Next]_vars => RefusalsSound'
<1> SUFFICES ASSUME IInv, OutcomesSound, RefusalsSound, [Next]_vars,
                    NEW c \in Calls
             PROVE  RefusalSoundAt(c)'
  BY DEF RefusalsSound
<1>0. TypeOK /\ ControlSoundAt(c) /\ OutcomeSoundAt(c) /\ RefusalSoundAt(c)
  BY DEF IInv, ControlSound, OutcomesSound, RefusalsSound
<1> DEFINE Remain == /\ Committed(args[c].code) \subseteq Committed(args[c].code)'
                     /\ Full(c) => Full(c)'
                     /\ Closed(c) => Closed(c)'
                     /\ Inside(c) => Inside(c)'
<1>1. args'[c] = args[c] => Remain
  BY ReasonsRemain
<1>2. ASSUME args'[c] = args[c], pc'[c] = pc[c], result'[c] = result[c],
             txn'[c] = txn[c]
      PROVE  RefusalSoundAt(c)'
  BY <1>0, <1>1, <1>2 DEF RefusalSoundAt, Staged, Creating, Existing
<1>3. CASE UNCHANGED vars
  BY <1>2, <1>3 DEF vars
<1>4. CASE \E t \in Tontines : CloseTontine(t)
  BY <1>2, <1>4 DEF CloseTontine
<1>5. ASSUME NEW d \in Calls, d # c, CallStep(d) PROVE RefusalSoundAt(c)'
  BY <1>0, <1>2, <1>5, StepsAreLocal, ResultsAreLocal
     DEF Elsewhere, ResultElsewhere
<1>6. ASSUME CallStep(c) PROVE RefusalSoundAt(c)'
  <2>1. CASE args' # args
    <3>1. /\ result'[c] = None /\ ~Staged(c)'
          /\ pc'[c] = "diagnose" => ReserveNothing(c)
      BY <1>0, <1>6, <2>1, ArgumentsSetEarly DEF OutcomeSoundAt
    <3>2. result'[c] \notin Refusals
      BY <3>1, NoneAssumption DEF Outcomes
    <3>q. QED
      BY <3>1, <3>2, NothingForAReason DEF RefusalSoundAt, Refusals, Existing
  <2>2. CASE args' = args
    <3>1. Remain
      BY <1>1, <2>2
    <3>2. Staged(c)' /\ ~Creating(c)' => txn'[c].id \in Committed(args[c].code)'
      <4>1. CASE Reserve(c)
        <5>1. txn'[c].id \in Available(args[c].code)
          BY <4>1, ReserveStages
        <5>q. QED
          BY <3>1, <5>1 DEF Available
      <4>2. CASE InsertTontine(c)
        BY <4>2, InsertTontineStages DEF Creating
      <4>3. CASE ~Reserve(c) /\ ~InsertTontine(c)
        BY <1>0, <1>6, <3>1, <4>3, OnlyTwoStepsStage
           DEF StagingKept, RefusalSoundAt, Creating
      <4>q. QED
        BY <4>1, <4>2, <4>3
    <3>3. CASE Diagnose(c)
      <4>1. /\ pc[c] = "diagnose" /\ pc'[c] = "done"
            /\ result'[c] = IF Existing(c) = None THEN "TontineNotFound"
                            ELSE IF Existing(c).status # "OPEN"
                            THEN "TontineClosed" ELSE "TontineFull"
        BY <1>0, <3>3 DEF Diagnose, Return, Goto, TypeOK
      <4>q. QED
        BY <1>0, <3>1, <3>2, <4>1 DEF RefusalSoundAt
    <3>4. CASE InsertMemberDuplicate(c)
      <4>1. /\ pc[c] = "insertMember" /\ pc'[c] = "done"
            /\ result'[c] = "AlreadyMember"
            /\ AlreadyIn(txn[c].id, args[c].user)
        BY <1>0, <3>4 DEF InsertMemberDuplicate, Return, Goto, TypeOK
      <4>2. txn[c].id \in Committed(args[c].code)
        BY <1>0, <4>1 DEF ControlSoundAt, RefusalSoundAt
      <4>3. Inside(c)
        BY <4>1, <4>2 DEF Inside
      <4>q. QED
        BY <3>1, <3>2, <4>1, <4>3 DEF RefusalSoundAt
    <3>5. CASE ~Diagnose(c) /\ ~InsertMemberDuplicate(c) /\ ~ReserveNothing(c)
      <4>1. /\ \/ result'[c] = result[c]
               \/ result'[c] \in {"Joined", "Created", "Error",
                                  "InviteCodeGenerationFailed"}
            /\ pc'[c] = "diagnose" => pc[c] = "diagnose"
        <5>1. CASE Reserve(c) \/ InsertMember(c) \/ InsertTontine(c)
                   \/ InsertTontineDuplicate(c) \/ InsertOwner(c)
                   \/ CallJoin(c) \/ CallCreate(c) \/ DrawCode(c)
          BY <1>0, <5>1 DEF Reserve, InsertMember, InsertTontine,
             InsertTontineDuplicate, InsertOwner, CallJoin, CallCreate,
             DrawCode, Goto, TypeOK
        <5>2. CASE TransientFailure(c) \/ ReserveConflict(c)
                   \/ InsertTontineConflict(c) \/ Fail(c)
          BY <1>0, <5>2 DEF TransientFailure, ReserveConflict,
             InsertTontineConflict, Transient, Fail, Goto, TypeOK
        <5>3. CASE DrawExhausted(c) \/ CommitAcknowledged(c)
          BY <1>0, <5>3 DEF DrawExhausted, CommitAcknowledged, Return, Goto,
             TypeOK
        <5>4. CASE ServerCommit(c) \/ ServerAbort(c) \/ CloseWindow(c)
          BY <5>4 DEF ServerCommit, ServerAbort, CloseWindow
        <5>q. QED
          BY <1>6, <3>5, <5>1, <5>2, <5>3, <5>4
             DEF CallStep, Step, JoinStep, CreateStep, CommitStep, Fault
      <4>q. QED
        BY <1>0, <2>2, <3>1, <3>2, <4>1 DEF RefusalSoundAt, Existing
    <3>6. CASE ReserveNothing(c)
      <4>1. pc'[c] = "diagnose" /\ result' = result
        BY <1>0, <3>6 DEF ReserveNothing, Goto, TypeOK
      <4>q. QED
        BY <1>0, <3>1, <3>2, <3>6, <4>1, NothingForAReason
           DEF RefusalSoundAt, Existing
    <3>q. QED
      BY <3>3, <3>4, <3>5, <3>6
  <2>q. QED
    BY <2>1, <2>2
<1>q. QED
  BY <1>3, <1>4, <1>5, <1>6, NextIsCallStep

LEMMA InitRefusals == Init => RefusalsSound
BY NoneAssumption DEF Init, RefusalsSound, RefusalSoundAt, Staged, NoTxn,
   Outcomes, Refusals

(* Whoever is told full, closed or already a member is told what is so,    *)
(* and still is: never what another call had staged and then dropped.      *)
THEOREM RefusedForAReason == Spec => []RefusalsJustified
<1>1. RefusalsSound => RefusalsJustified
  BY DEF RefusalsSound, RefusalSoundAt, RefusalsJustified, Full, Closed, Inside
<1>q. QED
  BY <1>1, InitOutcomes, OutcomesPreserved, InitRefusals, RefusalsPreserved,
     Invariant, PTL DEF Spec
=============================================================================
