------------------------ MODULE TontineStoreProofs ------------------------
(***************************************************************************)
(* Proofs about TontineStore, for any number of calls, users, tontines and *)
(* codes: IInv is inductive, and the safety properties follow from it.     *)
(***************************************************************************)
EXTENDS TontineStore, FiniteSetTheorems, TLAPS

(* A new tontine is a document, and no document is None. *)
LEMMA NewTontineType ==
  ASSUME NEW c \in Calls,
         args[c].code \in Codes, args[c].user \in Users,
         args[c].capacity \in Capacities
  PROVE  NewTontine(c) \in TontineDoc /\ NewTontine(c) # None
BY NoneAssumption DEF NewTontine, TontineDoc, Statuses

(* One seat more is still a document. *)
LEMMA OneSeatMoreType ==
  ASSUME NEW d \in TontineDoc
  PROVE  LET e == [d EXCEPT !.active_members_count = @ + 1]
         IN  e \in TontineDoc /\ e # None
BY NoneAssumption DEF TontineDoc

(* A capacity leaves room for a second member. *)
LEMMA CapacityRange ==
  ASSUME NEW n \in Capacities
  PROVE  n \in Nat /\ n >= 2
<1>1. n \in 2..100
  BY CapacitiesAssumption
<1>q. QED
  BY <1>1

-----------------------------------------------------------------------------
LEMMA InitIInv == Init => IInv
<1> SUFFICES ASSUME Init PROVE IInv
  OBVIOUS
<1>1. TypeOK
  BY MaxGenerationAttemptsAssumption DEF Init, TypeOK, NoTxn
<1>2. ControlSound
  BY DEF Init, ControlSound, ControlSoundAt, Staged, Creating, InTransaction, NoTxn
<1>3. StagingSound /\ StagingExclusive
  BY DEF Init, StagingSound, StagingSoundAt, StagingExclusive,
     Staged, NoTxn
<1>4. CommittedSound
  <2>1. \A t \in Tontines : MembersOf(t) = {} /\ tontines[t] = None
    BY DEF Init, MembersOf
  <2>q. QED
    BY <2>1, FS_EmptySet DEF Init, CommittedSound, CounterMatchesMembers,
       OneMembershipPerUser
<1>q. QED
  BY <1>1, <1>2, <1>3, <1>4 DEF IInv

-----------------------------------------------------------------------------
TxnType == [id : Tontines \union {None}, doc : TontineDoc \union {None},
            member : MemberDoc \union {None}]

ArgsType == [user : Users \union {None}, code : Codes \union {None},
             capacity : Capacities \union {None},
             attempts : 0..MaxGenerationAttempts,
             seen : TontineDoc \union {None}]

(* A function changed at one argument, to a value of the right type. *)
LEMMA UpdateType ==
  ASSUME NEW S, NEW T, NEW f \in [S -> T], NEW c \in S, NEW v \in T
  PROVE  [f EXCEPT ![c] = v] \in [S -> T]
OBVIOUS

LEMMA CallTypes ==
  ASSUME TypeOK
  PROVE  args \in [Calls -> ArgsType] /\ txn \in [Calls -> TxnType]
BY DEF TypeOK, ArgsType, TxnType

LEMMA TransientType ==
  ASSUME TypeOK, NEW c \in Calls, Transient(c)
  PROVE  /\ txn' \in [Calls -> [id : Tontines \union {None},
                        doc : TontineDoc \union {None},
                        member : MemberDoc \union {None}]]
         /\ pc' \in [Calls -> {"idle", "reserve", "diagnose", "insertMember",
                       "draw", "insertTontine", "insertOwner", "commit",
                       "done", "failed"}]
         /\ result' \in [Calls -> Outcomes \union {None}]
BY DEF TypeOK, Transient, Goto, NoTxn, Outcomes

LEMMA ReturnType ==
  ASSUME TypeOK, NEW c \in Calls,
         NEW r \in Outcomes,
         Return(c, r)
  PROVE  /\ txn' \in [Calls -> [id : Tontines \union {None},
                        doc : TontineDoc \union {None},
                        member : MemberDoc \union {None}]]
         /\ pc' \in [Calls -> {"idle", "reserve", "diagnose", "insertMember",
                       "draw", "insertTontine", "insertOwner", "commit",
                       "done", "failed"}]
         /\ result' \in [Calls -> Outcomes \union {None}]
BY DEF TypeOK, Return, Goto, NoTxn

LEMMA TypePreserved == IInv /\ [Next]_vars => TypeOK'
<1> SUFFICES ASSUME IInv, [Next]_vars PROVE TypeOK'
  OBVIOUS
<1> USE DEF IInv
<1>1. ASSUME NEW c \in Calls, CallJoin(c) PROVE TypeOK'
  <2>1. PICK u \in Users, code \in Codes :
          args' = [args EXCEPT ![c] = [@ EXCEPT !.user = u, !.code = code]]
    BY <1>1 DEF CallJoin
  <2>2. args' \in [Calls -> ArgsType]
    <3>1. [args[c] EXCEPT !.user = u, !.code = code] \in ArgsType
      BY CallTypes DEF ArgsType
    <3>2. args' = [args EXCEPT ![c] = [args[c] EXCEPT !.user = u, !.code = code]]
      BY <2>1
    <3>q. QED
      BY <3>1, <3>2, CallTypes, UpdateType
  <2>q. QED
    BY <1>1, <2>2 DEF TypeOK, ArgsType, CallJoin, Goto
<1>2. ASSUME NEW c \in Calls, CallCreate(c) PROVE TypeOK'
  <2>1. PICK u \in Users, n \in Capacities :
          args' = [args EXCEPT ![c] = [@ EXCEPT !.user = u, !.capacity = n]]
    BY <1>2 DEF CallCreate
  <2>2. args' \in [Calls -> ArgsType]
    <3>1. [args[c] EXCEPT !.user = u, !.capacity = n] \in ArgsType
      BY CallTypes DEF ArgsType
    <3>2. args' = [args EXCEPT ![c] = [args[c] EXCEPT !.user = u, !.capacity = n]]
      BY <2>1
    <3>q. QED
      BY <3>1, <3>2, CallTypes, UpdateType
  <2>q. QED
    BY <1>2, <2>2 DEF TypeOK, ArgsType, CallCreate, Goto
<1>3. ASSUME NEW c \in Calls, Reserve(c) PROVE TypeOK'
  <2>1. PICK t \in Available(args[c].code) :
          txn' = [txn EXCEPT ![c] = [@ EXCEPT !.id = t, !.doc =
                   [tontines[t] EXCEPT !.active_members_count = @ + 1]]]
    BY <1>3 DEF Reserve
  <2>2. t \in Tontines /\ tontines[t] \in TontineDoc
    BY DEF Available, Committed, TypeOK
  <2>3. [tontines[t] EXCEPT !.active_members_count = @ + 1] \in TontineDoc
    BY <2>2, OneSeatMoreType
  <2>q. QED
    <3>1. txn' \in [Calls -> TxnType]
      <4> DEFINE d == [tontines[t] EXCEPT !.active_members_count = @ + 1]
      <4>1. txn' = [txn EXCEPT ![c] = [txn[c] EXCEPT !.id = t, !.doc = d]]
        BY <2>1
      <4>2. d \in TontineDoc
        BY <2>3
      <4> HIDE DEF d
      <4>3. [txn[c] EXCEPT !.id = t, !.doc = d] \in TxnType
        BY <2>2, <4>2, CallTypes DEF TxnType
      <4>q. QED
        BY <4>1, <4>3, CallTypes, UpdateType
    <3>q. QED
      BY <1>3, <3>1 DEF TypeOK, TxnType, Reserve, Goto
<1>4. ASSUME NEW c \in Calls, ReserveConflict(c) PROVE TypeOK'
  BY <1>4, TransientType DEF TypeOK, ReserveConflict
<1>5. ASSUME NEW c \in Calls, ReserveNothing(c) PROVE TypeOK'
  <2>1. \A t \in Committed(args[c].code) : tontines[t] \in TontineDoc
    BY DEF Committed, TypeOK
  <2>q. QED
    <3>1. PICK e \in TontineDoc \union {None} :
            args' = [args EXCEPT ![c].seen = e]
      BY <1>5, <2>1 DEF ReserveNothing
    <3>2. args' \in [Calls -> ArgsType]
      <4>1. [args[c] EXCEPT !.seen = e] \in ArgsType
        BY <3>1, CallTypes DEF ArgsType
      <4>2. args' = [args EXCEPT ![c] = [args[c] EXCEPT !.seen = e]]
        BY <3>1
      <4>q. QED
        BY <4>1, <4>2, CallTypes, UpdateType
    <3>q. QED
      BY <1>5, <3>2 DEF TypeOK, ArgsType, ReserveNothing, Goto
<1>6. ASSUME NEW c \in Calls, Diagnose(c) PROVE TypeOK'
  BY <1>6, ReturnType DEF TypeOK, Diagnose, Outcomes, Refusals
<1>7. ASSUME NEW c \in Calls, InsertMember(c) PROVE TypeOK'
  <2>1. txn[c].id \in Tontines
    BY <1>7 DEF InsertMember, ControlSound, ControlSoundAt,
       StagingSound, StagingSoundAt, TypeOK
  <2>2. args[c].user \in Users
    BY <1>7 DEF InsertMember, ControlSound, ControlSoundAt
  <2> DEFINE m == [tontine_id |-> txn[c].id, user_id |-> args[c].user,
                  role |-> "MEMBER", by |-> c]
  <2>3. m \in MemberDoc
    BY <2>1, <2>2 DEF MemberDoc
  <2>4. txn' = [txn EXCEPT ![c].member = m]
    BY <1>7 DEF InsertMember
  <2> HIDE DEF m
  <2>5. txn' \in [Calls -> TxnType]
    <3>1. [txn[c] EXCEPT !.member = m] \in TxnType
      BY <2>3, CallTypes DEF TxnType
    <3>2. txn' = [txn EXCEPT ![c] = [txn[c] EXCEPT !.member = m]]
      BY <2>4
    <3>q. QED
      BY <3>1, <3>2, CallTypes, UpdateType
  <2>q. QED
    BY <1>7, <2>5 DEF TypeOK, TxnType, InsertMember, Goto
<1>8. ASSUME NEW c \in Calls, InsertMemberDuplicate(c) PROVE TypeOK'
  BY <1>8, ReturnType DEF TypeOK, InsertMemberDuplicate, Outcomes, Refusals
<1>9. ASSUME NEW c \in Calls, DrawCode(c) PROVE TypeOK'
  <2>1. PICK code \in Codes :
          args' = [args EXCEPT ![c] = [@ EXCEPT !.code = code,
                                                !.attempts = args[c].attempts + 1]]
    BY <1>9 DEF DrawCode
  <2>2. args[c] \in ArgsType
    BY DEF TypeOK, ArgsType
  <2>3. args[c].attempts + 1 \in 0..MaxGenerationAttempts
    BY <1>9, <2>2, MaxGenerationAttemptsAssumption DEF DrawCode, ArgsType
  <2> DEFINE drawn == [args[c] EXCEPT !.code = code, !.attempts = args[c].attempts + 1]
  <2>4. drawn \in ArgsType
    BY <2>2, <2>3 DEF ArgsType
  <2>5. args' = [args EXCEPT ![c] = drawn]
    BY <2>1
  <2> HIDE DEF drawn
  <2>6. args' \in [Calls -> ArgsType]
    BY <2>4, <2>5, CallTypes, UpdateType
  <2>q. QED
    BY <1>9, <2>6 DEF TypeOK, ArgsType, DrawCode, Goto
<1>10. ASSUME NEW c \in Calls, DrawExhausted(c) PROVE TypeOK'
  BY <1>10, ReturnType DEF TypeOK, DrawExhausted, Outcomes
<1>11. ASSUME NEW c \in Calls, InsertTontine(c) PROVE TypeOK'
  <2>1. NewTontine(c) \in TontineDoc
    BY <1>11, NewTontineType DEF InsertTontine, ControlSound, ControlSoundAt,
       InTransaction, Creating, TypeOK
  <2>q. QED
    <3>1. PICK t \in Tontines :
            txn' = [txn EXCEPT ![c] = [@ EXCEPT !.id = t, !.doc = NewTontine(c)]]
      BY <1>11 DEF InsertTontine
    <3>2. txn' \in [Calls -> TxnType]
      <4> DEFINE d == NewTontine(c)
      <4>1. d \in TontineDoc
        BY <2>1
      <4>2. txn' = [txn EXCEPT ![c] = [txn[c] EXCEPT !.id = t, !.doc = d]]
        BY <3>1
      <4> HIDE DEF d
      <4>3. [txn[c] EXCEPT !.id = t, !.doc = d] \in TxnType
        BY <3>1, <4>1, CallTypes DEF TxnType
      <4>q. QED
        BY <4>2, <4>3, CallTypes, UpdateType
    <3>q. QED
      BY <1>11, <3>2 DEF TypeOK, TxnType, InsertTontine, Goto
<1>12. ASSUME NEW c \in Calls, InsertTontineDuplicate(c) PROVE TypeOK'
  BY <1>12 DEF TypeOK, InsertTontineDuplicate, Goto
<1>13. ASSUME NEW c \in Calls, InsertTontineConflict(c) PROVE TypeOK'
  BY <1>13, TransientType DEF TypeOK, InsertTontineConflict
<1>14. ASSUME NEW c \in Calls, InsertOwner(c) PROVE TypeOK'
  <2>1. txn[c].id \in Tontines
    BY <1>14 DEF InsertOwner, ControlSound, ControlSoundAt,
       StagingSound, StagingSoundAt, TypeOK
  <2>2. args[c].user \in Users
    BY <1>14 DEF InsertOwner, ControlSound, ControlSoundAt
  <2> DEFINE m == [tontine_id |-> txn[c].id, user_id |-> args[c].user,
                  role |-> "OWNER", by |-> c]
  <2>3. m \in MemberDoc
    BY <2>1, <2>2 DEF MemberDoc
  <2>4. txn' = [txn EXCEPT ![c].member = m]
    BY <1>14 DEF InsertOwner
  <2> HIDE DEF m
  <2>5. txn' \in [Calls -> TxnType]
    <3>1. [txn[c] EXCEPT !.member = m] \in TxnType
      BY <2>3, CallTypes DEF TxnType
    <3>2. txn' = [txn EXCEPT ![c] = [txn[c] EXCEPT !.member = m]]
      BY <2>4
    <3>q. QED
      BY <3>1, <3>2, CallTypes, UpdateType
  <2>q. QED
    BY <1>14, <2>5 DEF TypeOK, TxnType, InsertOwner, Goto
<1>15. ASSUME NEW c \in Calls, ServerCommit(c) PROVE TypeOK'
  <2>1. txn[c].doc \in TontineDoc /\ txn[c].member \in MemberDoc
    <3>0. NoTxn.member = None
      BY DEF NoTxn
    <3>1. txn[c] # NoTxn /\ txn[c].member # None
      BY <1>15, <3>0 DEF ServerCommit
    <3>2. Staged(c)
      BY <3>1 DEF ControlSound, ControlSoundAt
    <3>3. txn[c].doc \in TontineDoc
      BY <3>2 DEF TypeOK, Staged
    <3>q. QED
      BY <3>1, <3>3 DEF TypeOK
  <2>q. QED
    BY <1>15, <2>1 DEF TypeOK, ServerCommit, NoTxn
<1>16. ASSUME NEW c \in Calls, CommitAcknowledged(c) PROVE TypeOK'
  BY <1>16, ReturnType DEF TypeOK, CommitAcknowledged, Outcomes
<1>17. ASSUME NEW c \in Calls, TransientFailure(c) PROVE TypeOK'
  BY <1>17, TransientType DEF TypeOK, TransientFailure
<1>18. ASSUME NEW c \in Calls, Fail(c) PROVE TypeOK'
  BY <1>18 DEF TypeOK, Fail, Goto, Outcomes
<1>19. ASSUME NEW c \in Calls, ServerAbort(c) PROVE TypeOK'
  BY <1>19 DEF TypeOK, ServerAbort, NoTxn
<1>20. ASSUME NEW c \in Calls, CloseWindow(c) PROVE TypeOK'
  BY <1>20 DEF TypeOK, CloseWindow
<1>21. ASSUME NEW t \in Tontines, CloseTontine(t) PROVE TypeOK'
  <2>1. tontines[t] \in TontineDoc
    BY <1>21 DEF CloseTontine, TypeOK
  <2>2. [tontines[t] EXCEPT !.status = "CLOSED"] \in TontineDoc
    BY <2>1 DEF TontineDoc, Statuses
  <2>q. QED
    BY <1>21, <2>2 DEF TypeOK, CloseTontine
<1>22. CASE UNCHANGED vars
  BY <1>22 DEF TypeOK, vars
<1>q. QED
  BY <1>1, <1>2, <1>3, <1>4, <1>5, <1>6, <1>7, <1>8, <1>9, <1>10, <1>11,
     <1>12, <1>13, <1>14, <1>15, <1>16, <1>17, <1>18, <1>19, <1>20, <1>21,
     <1>22
     DEF Next, Step, JoinStep, CreateStep, CommitStep, Fault
-----------------------------------------------------------------------------
(* A step of call c leaves every other call where it was. *)
CallStep(c) ==
  \/ CallJoin(c) \/ CallCreate(c) \/ Step(c)
  \/ ServerAbort(c) \/ CloseWindow(c) \/ Fault(c)

Elsewhere(c) == \A d \in Calls \ {c} :
  pc'[d] = pc[d] /\ args'[d] = args[d] /\ txn'[d] = txn[d]

LEMMA StepsAreLocal ==
  ASSUME TypeOK, NEW c \in Calls, CallStep(c)
  PROVE  Elsewhere(c)
<1>1. CASE CallJoin(c) \/ CallCreate(c) \/ ServerAbort(c) \/ CloseWindow(c)
  BY <1>1 DEF CallJoin, CallCreate, ServerAbort, CloseWindow, Goto,
     TypeOK, Elsewhere
<1>2. CASE Fault(c)
  BY <1>2 DEF Fault, TransientFailure, Fail, Transient, Goto, TypeOK, Elsewhere
<1>3. CASE Reserve(c) \/ InsertMember(c) \/ ReserveNothing(c)
  BY <1>3 DEF Reserve, InsertMember, ReserveNothing, Goto, TypeOK, Elsewhere
<1>4. CASE ReserveConflict(c) \/ Diagnose(c) \/ InsertMemberDuplicate(c)
  BY <1>4 DEF ReserveConflict, Diagnose, InsertMemberDuplicate, Return,
     Transient, Goto, TypeOK, Elsewhere
<1>5. CASE DrawCode(c) \/ InsertTontine(c) \/ InsertOwner(c)
           \/ InsertTontineDuplicate(c)
  BY <1>5 DEF DrawCode, InsertTontine, InsertOwner, InsertTontineDuplicate,
     Goto, TypeOK, Elsewhere
<1>6. CASE DrawExhausted(c) \/ InsertTontineConflict(c)
  BY <1>6 DEF DrawExhausted, InsertTontineConflict, Return, Transient, Goto,
     TypeOK, Elsewhere
<1>7. CASE CommitStep(c)
  BY <1>7 DEF CommitStep, ServerCommit, CommitAcknowledged, Return, Goto,
     TypeOK, Elsewhere
<1>q. QED
  BY <1>1, <1>2, <1>3, <1>4, <1>5, <1>6, <1>7
     DEF CallStep, Step, JoinStep, CreateStep

LEMMA NextIsCallStep ==
  Next => \/ \E c \in Calls : CallStep(c)
          \/ \E t \in Tontines : CloseTontine(t)
BY DEF Next, CallStep

LEMMA ControlPreserved == IInv /\ [Next]_vars => ControlSound'
<1> SUFFICES ASSUME IInv, [Next]_vars PROVE ControlSound'
  OBVIOUS
<1>0. TypeOK /\ ControlSound
  BY DEF IInv
<1>1. ASSUME NEW c \in Calls, CallStep(c), NEW d \in Calls, d # c
      PROVE  ControlSoundAt(d)'
  <2>1. pc'[d] = pc[d] /\ args'[d] = args[d] /\ txn'[d] = txn[d]
    BY <1>0, <1>1, StepsAreLocal DEF Elsewhere
  <2>q. QED
    BY <1>0, <2>1 DEF ControlSound, ControlSoundAt, Staged, Creating
<1>2. ASSUME NEW c \in Calls, CallStep(c) PROVE ControlSoundAt(c)'
  <2> USE <1>0 DEF ControlSoundAt, Staged, Creating, Goto, InTransaction
  <2>0. ControlSoundAt(c)
    BY DEF ControlSound
  <2>1. CASE CallJoin(c)
    <3>1. PICK u \in Users, code \in Codes :
            args' = [args EXCEPT ![c] = [@ EXCEPT !.user = u, !.code = code]]
      BY <2>1 DEF CallJoin
    <3>2. /\ args'[c].user = u /\ args'[c].code = code
          /\ args'[c].capacity = args[c].capacity
      BY <3>1 DEF TypeOK
    <3>3. pc'[c] = "reserve" /\ txn'[c] = txn[c] /\ pc[c] = "idle"
      BY <2>1 DEF CallJoin, TypeOK
    <3>q. QED
      BY <2>0, <3>2, <3>3
  <2>2. CASE CallCreate(c)
    <3>1. PICK u \in Users, n \in Capacities :
            args' = [args EXCEPT ![c] = [@ EXCEPT !.user = u, !.capacity = n]]
      BY <2>2 DEF CallCreate
    <3>2. args'[c].user = u /\ args'[c].capacity = n /\ n # None
      BY <3>1, NoneAssumption DEF TypeOK
    <3>3. pc'[c] = "draw" /\ txn'[c] = txn[c] /\ pc[c] = "idle"
      BY <2>2 DEF CallCreate, TypeOK
    <3>q. QED
      BY <2>0, <3>2, <3>3
  <2>3. CASE ServerAbort(c) \/ CloseWindow(c)
    BY <2>0, <2>3 DEF ServerAbort, CloseWindow, TypeOK, NoTxn
  <2>4. CASE Fail(c)
    BY <2>0, <2>4 DEF Fail, TypeOK
  <2>5. CASE TransientFailure(c) \/ ReserveConflict(c)
             \/ InsertTontineConflict(c)
    <3>1. /\ txn'[c] = NoTxn /\ args'[c] = args[c] /\ pc[c] \in InTransaction
          /\ pc'[c] \in {"failed", IF Creating(c) THEN "insertTontine"
                                   ELSE "reserve"}
      BY <2>5 DEF TransientFailure, ReserveConflict, InsertTontineConflict,
         Transient, TypeOK
    <3>q. QED
      BY <2>0, <3>1 DEF NoTxn
  <2>6. CASE Reserve(c)
    <3>1. PICK t \in Available(args[c].code) :
            txn' = [txn EXCEPT ![c] = [@ EXCEPT !.id = t, !.doc =
                     [tontines[t] EXCEPT !.active_members_count = @ + 1]]]
      BY <2>6 DEF Reserve
    <3>2. tontines[t] \in TontineDoc
      BY DEF Available, Committed, TypeOK
    <3>3. txn'[c].member = txn[c].member /\ txn'[c].doc # None
      BY <3>1, <3>2, OneSeatMoreType DEF TypeOK
    <3>4. /\ pc'[c] = "insertMember" /\ args'[c] = args[c] /\ pc[c] = "reserve"
          /\ txn[c].member = None
      BY <2>0, <2>6 DEF Reserve, TypeOK, NoTxn
    <3>q. QED
      BY <2>0, <3>3, <3>4
  <2>7. CASE ReserveNothing(c)
    <3>1. PICK e \in TontineDoc \union {None} :
            args' = [args EXCEPT ![c].seen = e]
      BY <2>7 DEF ReserveNothing, Committed, TypeOK
    <3>2. /\ args'[c].user = args[c].user /\ args'[c].code = args[c].code
          /\ args'[c].capacity = args[c].capacity
      BY <3>1 DEF TypeOK
    <3>3. pc'[c] = "diagnose" /\ txn'[c] = txn[c] /\ pc[c] = "reserve"
      BY <2>7 DEF ReserveNothing, TypeOK
    <3>q. QED
      BY <2>0, <3>2, <3>3
  <2>8. CASE Diagnose(c) \/ InsertMemberDuplicate(c) \/ DrawExhausted(c)
             \/ CommitAcknowledged(c)
    <3>1. /\ txn'[c] = NoTxn /\ args'[c] = args[c] /\ pc'[c] = "done"
          /\ pc[c] # "idle"
      BY <2>8 DEF Diagnose, InsertMemberDuplicate, DrawExhausted,
         CommitAcknowledged, Return, TypeOK
    <3>q. QED
      BY <2>0, <3>1 DEF NoTxn
  <2>9. CASE InsertMember(c) \/ InsertOwner(c)
    <3>1. PICK m \in MemberDoc : txn' = [txn EXCEPT ![c].member = m]
      <4>1. txn[c].id \in Tontines /\ args[c].user \in Users
        BY <2>0, <2>9 DEF IInv, InsertMember, InsertOwner, StagingSound,
           StagingSoundAt, TypeOK
      <4>q. QED
        BY <2>9, <4>1 DEF InsertMember, InsertOwner, MemberDoc
    <3>2. txn'[c].member = m /\ txn'[c].doc = txn[c].doc /\ m # None
      BY <3>1, NoneAssumption DEF TypeOK
    <3>3. /\ pc'[c] = "commit" /\ args'[c] = args[c]
          /\ pc[c] \in {"insertMember", "insertOwner"}
      BY <2>9 DEF InsertMember, InsertOwner, TypeOK
    <3>q. QED
      BY <2>0, <3>2, <3>3
  <2>10. CASE DrawCode(c)
    <3>1. PICK code \in Codes :
            args' = [args EXCEPT ![c] = [@ EXCEPT !.code = code,
                                                  !.attempts = args[c].attempts + 1]]
      BY <2>10 DEF DrawCode
    <3>2. /\ args'[c].user = args[c].user /\ args'[c].code = code
          /\ args'[c].capacity = args[c].capacity
      BY <3>1 DEF TypeOK
    <3>3. pc'[c] = "insertTontine" /\ txn'[c] = txn[c] /\ pc[c] = "draw"
      BY <2>10 DEF DrawCode, TypeOK
    <3>q. QED
      BY <2>0, <3>2, <3>3
  <2>11. CASE InsertTontine(c)
    <3>1. PICK t \in Tontines :
            txn' = [txn EXCEPT ![c] = [@ EXCEPT !.id = t, !.doc = NewTontine(c)]]
      BY <2>11 DEF InsertTontine
    <3>2. NewTontine(c) # None
      BY <2>0, <2>11, NewTontineType DEF InsertTontine, TypeOK
    <3>3. txn'[c].member = txn[c].member /\ txn'[c].doc # None
      BY <3>1, <3>2 DEF TypeOK
    <3>4. /\ pc'[c] = "insertOwner" /\ args'[c] = args[c]
          /\ pc[c] = "insertTontine" /\ txn[c].member = None
      BY <2>0, <2>11 DEF InsertTontine, TypeOK, NoTxn
    <3>q. QED
      BY <2>0, <3>3, <3>4
  <2>12. CASE InsertTontineDuplicate(c)
    BY <2>0, <2>12 DEF InsertTontineDuplicate, TypeOK
  <2>13. CASE ServerCommit(c)
    BY <2>0, <2>13 DEF ServerCommit, TypeOK, NoTxn
  <2>q. QED
    BY <1>2, <2>1, <2>2, <2>3, <2>4, <2>5, <2>6, <2>7, <2>8, <2>9, <2>10,
       <2>11, <2>12, <2>13
       DEF CallStep, Step, JoinStep, CreateStep, CommitStep, Fault
<1>3. CASE \E t \in Tontines : CloseTontine(t)
  BY <1>0, <1>3 DEF CloseTontine, ControlSound, ControlSoundAt, Staged, Creating
<1>4. CASE UNCHANGED vars
  BY <1>0, <1>4 DEF vars, ControlSound, ControlSoundAt, Staged, Creating
<1>q. QED
  BY <1>1, <1>2, <1>3, <1>4, NextIsCallStep DEF ControlSound

-----------------------------------------------------------------------------
(* Only Reserve and InsertTontine stage a document; every other step keeps *)
(* what is staged or drops it.                                             *)
StagingKept(x) == Staged(x)' =>
  /\ Staged(x)
  /\ txn'[x].id = txn[x].id
  /\ txn'[x].doc = txn[x].doc
  /\ args'[x] = args[x]

LEMMA OnlyTwoStepsStage ==
  ASSUME IInv, NEW c \in Calls, CallStep(c), ~Reserve(c), ~InsertTontine(c),
         NEW x \in Calls
  PROVE  /\ StagingKept(x)
         /\ ~InsertMember(c) /\ ~InsertOwner(c) /\ Staged(x)' =>
              txn'[x] = txn[x]
<1>0. TypeOK /\ ControlSoundAt(c)
  BY DEF IInv, ControlSound
<1>1. CASE x # c
  BY <1>0, <1>1, StepsAreLocal DEF Elsewhere, StagingKept, Staged
<1>2. CASE x = c
  <2> USE <1>0 DEF StagingKept, Staged, ControlSoundAt, Goto
  <2>1. CASE CallJoin(c) \/ CallCreate(c) \/ DrawCode(c) \/ ReserveNothing(c)
    <3>1. txn' = txn /\ txn[c].doc = None
      BY <2>1 DEF CallJoin, CallCreate, DrawCode, ReserveNothing
    <3>q. QED
      BY <1>2, <3>1
  <2>2. CASE ServerAbort(c) \/ CloseWindow(c) \/ Fail(c)
    BY <1>2, <2>2 DEF ServerAbort, CloseWindow, Fail, TypeOK, NoTxn
  <2>3. CASE TransientFailure(c) \/ ReserveConflict(c)
             \/ InsertTontineConflict(c)
    BY <1>2, <2>3 DEF TransientFailure, ReserveConflict,
       InsertTontineConflict, Transient, TypeOK, NoTxn
  <2>4. CASE Diagnose(c) \/ InsertMemberDuplicate(c) \/ DrawExhausted(c)
             \/ CommitAcknowledged(c) \/ ServerCommit(c)
    BY <1>2, <2>4 DEF Diagnose, InsertMemberDuplicate, DrawExhausted,
       CommitAcknowledged, ServerCommit, Return, TypeOK, NoTxn
  <2>5. CASE InsertMember(c) \/ InsertOwner(c)
    BY <1>2, <2>5 DEF InsertMember, InsertOwner, TypeOK
  <2>6. CASE InsertTontineDuplicate(c)
    BY <1>2, <2>6 DEF InsertTontineDuplicate
  <2>q. QED
    BY <2>1, <2>2, <2>3, <2>4, <2>5, <2>6
       DEF CallStep, Step, JoinStep, CreateStep, CommitStep, Fault
<1>q. QED
  BY <1>1, <1>2

(* What the two of them stage. *)
LEMMA ReserveStages ==
  ASSUME IInv, NEW c \in Calls, Reserve(c)
  PROVE  \E t \in Available(args[c].code) :
           /\ ~StagedByOther(c, t)
           /\ tontines[t] \in TontineDoc
           /\ txn'[c].id = t
           /\ txn'[c].doc = [tontines[t] EXCEPT !.active_members_count = @ + 1]
           /\ txn'[c].doc # None
           /\ txn'[c].member = None
           /\ args'[c] = args[c] /\ ~Creating(c)
<1>1. TypeOK /\ ControlSoundAt(c)
  BY DEF IInv, ControlSound
<1>2. PICK t \in Available(args[c].code) :
        /\ ~StagedByOther(c, t)
        /\ txn' = [txn EXCEPT ![c] = [@ EXCEPT !.id = t, !.doc =
                     [tontines[t] EXCEPT !.active_members_count = @ + 1]]]
  BY DEF Reserve
<1>3. tontines[t] \in TontineDoc
  BY <1>1 DEF Available, Committed, TypeOK
<1>4. /\ txn'[c].id = t
      /\ txn'[c].doc = [tontines[t] EXCEPT !.active_members_count = @ + 1]
      /\ txn'[c].member = txn[c].member
  BY <1>1, <1>2 DEF TypeOK
<1>5. txn'[c].doc # None
  BY <1>3, <1>4, OneSeatMoreType
<1>6. txn[c].member = None /\ args' = args /\ ~Creating(c)
  BY <1>1 DEF Reserve, ControlSoundAt, NoTxn
<1>q. QED
  BY <1>2, <1>3, <1>4, <1>5, <1>6

LEMMA InsertTontineStages ==
  ASSUME IInv, NEW c \in Calls, InsertTontine(c)
  PROVE  /\ tontines[txn'[c].id] = None
         /\ txn'[c].id \in Tontines
         /\ ~StagedByOther(c, txn'[c].id)
         /\ txn'[c].doc = NewTontine(c)
         /\ txn'[c].doc # None
         /\ txn'[c].member = None
         /\ args'[c] = args[c] /\ Creating(c)
<1>1. TypeOK /\ ControlSoundAt(c)
  BY DEF IInv, ControlSound
<1>2. PICK t \in Tontines :
        /\ tontines[t] = None
        /\ ~StagedByOther(c, t)
        /\ txn' = [txn EXCEPT ![c] = [@ EXCEPT !.id = t, !.doc = NewTontine(c)]]
  BY DEF InsertTontine
<1>3. NewTontine(c) # None
  BY <1>1, NewTontineType DEF InsertTontine, ControlSoundAt, InTransaction,
     Creating, TypeOK
<1>4. /\ txn'[c].id = t /\ txn'[c].doc = NewTontine(c)
      /\ txn'[c].member = txn[c].member
  BY <1>1, <1>2 DEF TypeOK
<1>5. txn[c].member = None /\ args' = args /\ Creating(c)
  BY <1>1 DEF InsertTontine, ControlSoundAt, NoTxn
<1>q. QED
  BY <1>2, <1>3, <1>4, <1>5

LEMMA ExclusivePreserved == IInv /\ [Next]_vars => StagingExclusive'
<1> SUFFICES ASSUME IInv, [Next]_vars,
                    NEW c \in Calls, NEW d \in Calls, c # d,
                    Staged(c)', Staged(d)'
             PROVE  /\ txn'[c].id # txn'[d].id
                    /\ Creating(c)' /\ Creating(d)' =>
                         args'[c].code # args'[d].code
  BY DEF StagingExclusive
<1>0. TypeOK /\ StagingExclusive /\ StagingSound
  BY DEF IInv
<1>1. ASSUME NEW e \in Calls, CallStep(e), ~Reserve(e), ~InsertTontine(e)
      PROVE  StagingKept(c) /\ StagingKept(d)
  BY <1>1, OnlyTwoStepsStage
<1>2. ASSUME StagingKept(c), StagingKept(d)
      PROVE  /\ txn'[c].id # txn'[d].id
             /\ Creating(c)' /\ Creating(d)' => args'[c].code # args'[d].code
  BY <1>0, <1>2 DEF StagingKept, StagingExclusive, Creating
<1>3. ASSUME NEW x \in Calls, NEW y \in Calls, x # y,
             Staged(x)', Staged(y)', Reserve(x)
      PROVE  txn'[x].id # txn'[y].id /\ ~Creating(x)'
  <2>1. txn'[y] = txn[y]
    BY <1>0, <1>3, StepsAreLocal
       DEF Elsewhere, CallStep, Step, JoinStep
  <2>2. Staged(y) /\ txn'[y].id = txn[y].id
    BY <1>3, <2>1 DEF Staged
  <2>3. txn'[x].id # txn'[y].id
    <3>1. PICK t \in Available(args[x].code) :
            ~StagedByOther(x, t) /\ txn'[x].id = t
      BY <1>3, ReserveStages
    <3>q. QED
      BY <1>3, <2>2, <3>1 DEF StagedByOther
  <2>4. args'[x] = args[x] /\ ~Creating(x)
    BY <1>3, ReserveStages
  <2>q. QED
    BY <2>3, <2>4 DEF Creating
<1>4. ASSUME NEW x \in Calls, NEW y \in Calls, x # y,
             Staged(x)', Staged(y)', InsertTontine(x)
      PROVE  /\ txn'[x].id # txn'[y].id
             /\ Creating(y)' => args'[x].code # args'[y].code
  <2>1. txn'[y] = txn[y] /\ args'[y] = args[y]
    BY <1>0, <1>4, StepsAreLocal
       DEF Elsewhere, CallStep, Step, CreateStep
  <2>2. Staged(y)
    BY <1>4, <2>1 DEF Staged
  <2>3. txn'[x].id # txn'[y].id
    BY <1>4, <2>1, <2>2, InsertTontineStages DEF StagedByOther
  <2>4. ASSUME Creating(y)' PROVE args'[x].code # args'[y].code
    <3>1. txn[y].doc = NewTontine(y)
      BY <1>0, <2>1, <2>2, <2>4
         DEF StagingSound, StagingSoundAt, StagedCreation, Creating
    <3>2. txn[y].doc.invite_code = args[y].code
      BY <3>1 DEF NewTontine
    <3>3. txn[y].doc.invite_code # args[x].code
      BY <1>4, <2>2 DEF InsertTontine, CodeStagedByOther
    <3>q. QED
      BY <1>4, <2>1, <3>2, <3>3, InsertTontineStages
  <2>q. QED
    BY <2>3, <2>4
<1>5. ASSUME NEW e \in Calls, CallStep(e), Reserve(e) \/ InsertTontine(e),
             e # c, e # d
      PROVE  StagingKept(c) /\ StagingKept(d)
  BY <1>0, <1>5, StepsAreLocal DEF Elsewhere, StagingKept, Staged
<1>6. CASE \E t \in Tontines : CloseTontine(t)
  BY <1>2, <1>6 DEF CloseTontine, StagingKept, Staged
<1>7. CASE UNCHANGED vars
  BY <1>2, <1>7 DEF vars, StagingKept, Staged
<1>8. ASSUME NEW e \in Calls, CallStep(e)
      PROVE  /\ txn'[c].id # txn'[d].id
             /\ Creating(c)' /\ Creating(d)' => args'[c].code # args'[d].code
  BY <1>1, <1>2, <1>3, <1>4, <1>5, <1>8
<1>q. QED
  BY <1>6, <1>7, <1>8, NextIsCallStep

-----------------------------------------------------------------------------
(* The committed collections change when a transaction commits. *)
LEMMA OnlyCommitsWrite ==
  ASSUME NEW e \in Calls, CallStep(e), ~ServerCommit(e)
  PROVE  UNCHANGED <<tontines, members>>
BY DEF CallStep, CallJoin, CallCreate, ServerAbort, CloseWindow, Fault,
   TransientFailure, Fail, Step, JoinStep, CreateStep, CommitStep, Reserve,
   ReserveConflict, ReserveNothing, Diagnose, InsertMember,
   InsertMemberDuplicate, DrawCode, DrawExhausted, InsertTontine,
   InsertTontineDuplicate, InsertTontineConflict, InsertOwner,
   CommitAcknowledged

LEMMA StagingPreserved == IInv /\ [Next]_vars => StagingSound'
<1> SUFFICES ASSUME IInv, [Next]_vars, NEW x \in Calls, Staged(x)'
             PROVE  StagingSoundAt(x)'
  BY DEF StagingSound, StagingSoundAt
<1>0. TypeOK /\ StagingExclusive /\ StagingSound /\ ControlSound
  BY DEF IInv
<1>1. ASSUME Staged(x), txn'[x] = txn[x], args'[x] = args[x],
             UNCHANGED <<tontines, members>>
      PROVE  StagingSoundAt(x)'
  <2>1. StagingSoundAt(x)
    BY <1>0 DEF StagingSound
  <2>q. QED
    BY <1>1, <2>1 DEF StagingSoundAt, Staged, StagedCreation, StagedJoin,
       Creating, NewTontine, Committed, AlreadyIn, MembersOf
<1>2. ASSUME Reserve(x) PROVE StagingSoundAt(x)'
  <2>1. PICK t \in Available(args[x].code) :
          /\ txn'[x].id = t
          /\ txn'[x].doc = [tontines[t] EXCEPT !.active_members_count = @ + 1]
          /\ txn'[x].member = None
          /\ args'[x] = args[x] /\ ~Creating(x)
    BY <1>2, ReserveStages
  <2>2. /\ t \in Tontines /\ t # None
        /\ tontines[t] # None /\ tontines[t].status = "OPEN"
        /\ tontines[t].active_members_count < tontines[t].expected_members
    BY NoneAssumption DEF Available, Committed
  <2>3. tontines' = tontines
    BY <1>2 DEF Reserve
  <2>q. QED
    BY <2>1, <2>2, <2>3 DEF StagingSoundAt, StagedJoin, Creating
<1>3. ASSUME InsertTontine(x) PROVE StagingSoundAt(x)'
  <2>1. /\ tontines[txn'[x].id] = None
        /\ txn'[x].id \in Tontines
        /\ txn'[x].doc = NewTontine(x)
        /\ txn'[x].member = None
        /\ args'[x] = args[x] /\ Creating(x)
    BY <1>3, InsertTontineStages
  <2>2. tontines' = tontines /\ Committed(args[x].code) = {}
    BY <1>3 DEF InsertTontine
  <2>q. QED
    BY <2>1, <2>2, NoneAssumption
       DEF StagingSoundAt, StagedCreation, Creating, NewTontine, Committed
<1>4. ASSUME InsertMember(x) \/ InsertOwner(x) PROVE StagingSoundAt(x)'
  <2>1. ControlSoundAt(x) /\ StagingSoundAt(x)
    BY <1>0 DEF ControlSound, StagingSound
  <2>2. /\ Staged(x) /\ pc[x] \in {"insertMember", "insertOwner"}
        /\ pc[x] = "insertOwner" <=> Creating(x)
    BY <1>4, <2>1 DEF ControlSoundAt, InsertMember, InsertOwner
  <2>3. /\ txn'[x].id = txn[x].id /\ txn'[x].doc = txn[x].doc
        /\ txn'[x].member =
             [tontine_id |-> txn[x].id, user_id |-> args[x].user,
              role |-> IF Creating(x) THEN "OWNER" ELSE "MEMBER", by |-> x]
    BY <1>0, <1>4, <2>2 DEF InsertMember, InsertOwner, TypeOK
  <2>4. UNCHANGED <<tontines, members, args>>
    BY <1>4 DEF InsertMember, InsertOwner
  <2>5. ~Creating(x) => ~AlreadyIn(txn[x].id, args[x].user)
    BY <1>4, <2>2 DEF InsertMember, InsertOwner
  <2>q. QED
    BY <2>1, <2>2, <2>3, <2>4, <2>5
       DEF StagingSoundAt, Staged, StagedCreation, StagedJoin, Creating,
           NewTontine, Committed, AlreadyIn, MembersOf
<1>5. ASSUME NEW e \in Calls, ServerCommit(e) PROVE StagingSoundAt(x)'
  <2>1. x # e
    BY <1>0, <1>5 DEF ServerCommit, Staged, NoTxn, TypeOK
  <2>2. txn'[x] = txn[x] /\ args'[x] = args[x] /\ Staged(x)
    BY <1>0, <1>5, <2>1 DEF ServerCommit, Staged, TypeOK
  <2>3. Staged(e) /\ StagingSoundAt(e) /\ StagingSoundAt(x)
    BY <1>0, <1>5
       DEF ServerCommit, ControlSound, ControlSoundAt, NoTxn, StagingSound
  <2>4. /\ txn[x].id # txn[e].id
        /\ Creating(x) /\ Creating(e) => args[x].code # args[e].code
    BY <1>0, <2>1, <2>2, <2>3 DEF StagingExclusive
  <2>5. /\ txn[e].id \in Tontines /\ txn[x].id \in Tontines
        /\ txn[e].member.tontine_id = txn[e].id
    BY <1>0, <1>5, <2>2, <2>3 DEF TypeOK, StagingSoundAt, ServerCommit
  <2>6. /\ tontines' = [tontines EXCEPT ![txn[e].id] = txn[e].doc]
        /\ members' = members \union {txn[e].member}
    BY <1>5 DEF ServerCommit
  <2>7. tontines'[txn[x].id] = tontines[txn[x].id]
    BY <1>0, <2>4, <2>5, <2>6 DEF TypeOK
  <2>8. CASE Creating(x)
    <3>1. Committed(args[x].code) = {}
      BY <2>2, <2>3, <2>8 DEF StagingSoundAt, StagedCreation
    <3>2. txn[e].doc.invite_code # args[x].code
      <4>1. CASE Creating(e)
        BY <2>3, <2>4, <2>8, <4>1 DEF StagingSoundAt, StagedCreation, NewTontine
      <4>2. CASE ~Creating(e)
        <5>1. /\ tontines[txn[e].id] # None
              /\ txn[e].doc = [tontines[txn[e].id] EXCEPT
                                 !.active_members_count = @ + 1]
          BY <2>3, <4>2 DEF StagingSoundAt, StagedJoin
        <5>2. tontines[txn[e].id] \in TontineDoc
          BY <1>0, <2>5, <5>1 DEF TypeOK
        <5>3. txn[e].doc.invite_code = tontines[txn[e].id].invite_code
          BY <5>1, <5>2 DEF TontineDoc
        <5>q. QED
          BY <2>5, <3>1, <5>1, <5>3 DEF Committed
      <4>q. QED
        BY <4>1, <4>2
    <3>3. Committed(args[x].code)' = {}
      BY <1>0, <2>2, <2>5, <2>6, <3>1, <3>2 DEF Committed, TypeOK
    <3>q. QED
      BY <2>2, <2>3, <2>7, <2>8, <3>3
         DEF StagingSoundAt, StagedCreation, Creating, NewTontine
  <2>9. CASE ~Creating(x)
    <3>1. AlreadyIn(txn[x].id, args[x].user)' =>
            AlreadyIn(txn[x].id, args[x].user)
      BY <2>2, <2>4, <2>5, <2>6 DEF AlreadyIn, MembersOf
    <3>q. QED
      BY <2>2, <2>3, <2>7, <2>9, <3>1 DEF StagingSoundAt, StagedJoin, Creating
  <2>q. QED
    BY <2>8, <2>9
<1>6. ASSUME NEW t \in Tontines, CloseTontine(t) PROVE StagingSoundAt(x)'
  <2>1. txn' = txn /\ args' = args /\ members' = members /\ Staged(x)
    BY <1>6 DEF CloseTontine, Staged
  <2>2. /\ txn[x].id # t
        /\ tontines' = [tontines EXCEPT ![t].status = "CLOSED"]
        /\ tontines[t] # None
    BY <1>6, <2>1 DEF CloseTontine
  <2>3. StagingSoundAt(x) /\ txn[x].id \in Tontines
    BY <1>0, <2>1 DEF StagingSound, StagingSoundAt, TypeOK
  <2>4. tontines'[txn[x].id] = tontines[txn[x].id]
    BY <1>0, <2>2, <2>3 DEF TypeOK
  <2>5. tontines[t] \in TontineDoc
    BY <1>0, <2>2 DEF TypeOK
  <2>6. tontines'[t].invite_code = tontines[t].invite_code
    BY <1>0, <2>2, <2>5 DEF TypeOK, TontineDoc
  <2>7. \A o \in Tontines : o # t => tontines'[o] = tontines[o]
    BY <1>0, <2>2 DEF TypeOK
  <2>8. Committed(args[x].code)' \subseteq Committed(args[x].code)
    BY <2>1, <2>2, <2>6, <2>7 DEF Committed
  <2>q. QED
    BY <2>1, <2>3, <2>4, <2>8
       DEF StagingSoundAt, Staged, StagedCreation, StagedJoin, Creating,
           NewTontine, AlreadyIn, MembersOf
<1>7. CASE UNCHANGED vars
  BY <1>1, <1>7 DEF vars, Staged
<1>9. ASSUME NEW e \in Calls, CallStep(e), e # x, ~ServerCommit(e)
      PROVE  StagingSoundAt(x)'
  <2>1. txn'[x] = txn[x] /\ args'[x] = args[x] /\ Staged(x)
    BY <1>0, <1>9, StepsAreLocal DEF Elsewhere, Staged
  <2>q. QED
    BY <1>1, <1>9, <2>1, OnlyCommitsWrite
<1>10. ASSUME CallStep(x), ~ServerCommit(x), ~Reserve(x), ~InsertTontine(x),
              ~InsertMember(x), ~InsertOwner(x)
       PROVE  StagingSoundAt(x)'
  <2>1. txn'[x] = txn[x] /\ args'[x] = args[x] /\ Staged(x)
    BY <1>10, OnlyTwoStepsStage DEF StagingKept
  <2>q. QED
    BY <1>1, <1>10, <2>1, OnlyCommitsWrite
<1>q. QED
  BY <1>2, <1>3, <1>4, <1>5, <1>6, <1>7, <1>9, <1>10, NextIsCallStep

-----------------------------------------------------------------------------
(* What a commit makes visible: one new member of one tontine, whose       *)
(* document counts it.                                                     *)
LEMMA CommitAdds ==
  ASSUME IInv, NEW c \in Calls, ServerCommit(c)
  PROVE  LET id == txn[c].id
             m == txn[c].member
             doc == txn[c].doc
         IN /\ id \in Tontines /\ m \in MemberDoc /\ doc \in TontineDoc
            /\ m.tontine_id = id /\ m.user_id = args[c].user /\ m.by = c
            /\ m \notin members
            /\ ~AlreadyIn(id, m.user_id)
            /\ tontines' = [tontines EXCEPT ![id] = doc]
            /\ members' = members \union {m}
            /\ \/ /\ Creating(c)
                  /\ tontines[id] = None
                  /\ MembersOf(id) = {}
                  /\ doc = NewTontine(c)
                  /\ Committed(doc.invite_code) = {}
                  /\ m.role = "OWNER"
               \/ /\ ~Creating(c)
                  /\ tontines[id] \in TontineDoc
                  /\ tontines[id].active_members_count
                       < tontines[id].expected_members
                  /\ doc = [tontines[id] EXCEPT !.active_members_count = @ + 1]
                  /\ m.role = "MEMBER"
<1>0. TypeOK /\ ControlSoundAt(c) /\ StagingSoundAt(c) /\ CommittedSound
  BY DEF IInv, ControlSound, StagingSound
<1> DEFINE id == txn[c].id
           m == txn[c].member
           doc == txn[c].doc
<1>1. Staged(c) /\ m # None
  BY <1>0 DEF ServerCommit, ControlSoundAt, NoTxn
<1>2. id \in Tontines /\ m \in MemberDoc /\ doc \in TontineDoc
  BY <1>0, <1>1 DEF TypeOK, StagingSoundAt, Staged
<1>3. m = [tontine_id |-> id, user_id |-> args[c].user,
           role |-> IF Creating(c) THEN "OWNER" ELSE "MEMBER", by |-> c]
  BY <1>0, <1>1 DEF StagingSoundAt
<1>4. tontines' = [tontines EXCEPT ![id] = doc] /\ members' = members \union {m}
  BY DEF ServerCommit
<1>5. CASE Creating(c)
  <2>1. /\ tontines[id] = None /\ doc = NewTontine(c)
        /\ Committed(args[c].code) = {}
    BY <1>0, <1>1, <1>5 DEF StagingSoundAt, StagedCreation
  <2>2. MembersOf(id) = {}
    BY <1>0, <1>2, <2>1 DEF CommittedSound, CounterMatchesMembers
  <2>3. ~AlreadyIn(id, m.user_id)
    BY <2>2 DEF AlreadyIn
  <2>4. doc.invite_code = args[c].code
    BY <2>1 DEF NewTontine
  <2>5. m \notin members
    BY <1>3, <2>2 DEF MembersOf
  <2>q. QED
    BY <1>2, <1>3, <1>4, <1>5, <2>1, <2>2, <2>3, <2>4, <2>5
<1>6. CASE ~Creating(c)
  <2>1. /\ tontines[id] # None
        /\ tontines[id].active_members_count < tontines[id].expected_members
        /\ doc = [tontines[id] EXCEPT !.active_members_count = @ + 1]
        /\ ~AlreadyIn(id, args[c].user)
    BY <1>0, <1>1, <1>6 DEF StagingSoundAt, StagedJoin
  <2>2. tontines[id] \in TontineDoc
    BY <1>0, <1>2, <2>1 DEF TypeOK
  <2>3. m \notin members
    BY <1>3, <2>1 DEF AlreadyIn, MembersOf
  <2>q. QED
    BY <1>2, <1>3, <1>4, <1>6, <2>1, <2>2, <2>3
<1>q. QED
  BY <1>5, <1>6

LEMMA CommittedPreserved == IInv /\ [Next]_vars => CommittedSound'
<1> SUFFICES ASSUME IInv, [Next]_vars PROVE CommittedSound'
  OBVIOUS
<1>0. TypeOK /\ CommittedSound
  BY DEF IInv
<1>1. ASSUME UNCHANGED <<tontines, members>> PROVE CommittedSound'
  BY <1>0, <1>1 DEF CommittedSound, CounterMatchesMembers, MembersOf,
     OneMembershipPerUser
<1>2. ASSUME NEW t \in Tontines, CloseTontine(t) PROVE CommittedSound'
  <2>1. tontines[t] \in TontineDoc /\ members' = members
    BY <1>0, <1>2 DEF CloseTontine, TypeOK
  <2>2. tontines' = [tontines EXCEPT ![t].status = "CLOSED"]
    BY <1>2 DEF CloseTontine
  <2>3. \A o \in Tontines :
          /\ tontines'[o] = None <=> tontines[o] = None
          /\ tontines[o] # None =>
               /\ tontines'[o].active_members_count
                    = tontines[o].active_members_count
               /\ tontines'[o].expected_members = tontines[o].expected_members
               /\ tontines'[o].invite_code = tontines[o].invite_code
    <3>1. [tontines[t] EXCEPT !.status = "CLOSED"] \in TontineDoc
      BY <2>1 DEF TontineDoc, Statuses
    <3>2. \A o \in Tontines : o # t => tontines'[o] = tontines[o]
      BY <1>0, <2>2 DEF TypeOK
    <3>3. tontines'[t] = [tontines[t] EXCEPT !.status = "CLOSED"]
      BY <1>0, <2>2 DEF TypeOK
    <3>4. tontines'[t] # None /\ tontines[t] # None
      BY <2>1, <3>1, <3>3, NoneAssumption
    <3>q. QED
      BY <2>1, <3>2, <3>3, <3>4 DEF TontineDoc
  <2>4. \A o \in Tontines : MembersOf(o)' = MembersOf(o)
    BY <2>1 DEF MembersOf
  <2>5. CounterMatchesMembers'
    BY <1>0, <2>3, <2>4 DEF CommittedSound, CounterMatchesMembers
  <2>6. \A o \in Tontines : tontines'[o] # None =>
          tontines'[o].active_members_count <= tontines'[o].expected_members
    BY <1>0, <2>3 DEF CommittedSound
  <2>7. \A o, p \in Tontines :
          tontines'[o] # None /\ tontines'[p] # None
            /\ tontines'[o].invite_code = tontines'[p].invite_code => o = p
    BY <1>0, <2>3 DEF CommittedSound
  <2>8. OneMembershipPerUser' /\ IsFiniteSet(members)'
    BY <1>0, <2>1 DEF CommittedSound, OneMembershipPerUser
  <2>q. QED
    BY <2>5, <2>6, <2>7, <2>8 DEF CommittedSound
<1>3. ASSUME NEW c \in Calls, ServerCommit(c) PROVE CommittedSound'
  <2>a. PICK id \in Tontines, m \in MemberDoc, doc \in TontineDoc :
          /\ id = txn[c].id /\ m = txn[c].member /\ doc = txn[c].doc
    BY <1>3, CommitAdds
  <2>1. /\ m.tontine_id = id /\ m \notin members
        /\ ~AlreadyIn(id, m.user_id)
        /\ tontines' = [tontines EXCEPT ![id] = doc]
        /\ members' = members \union {m}
    BY <1>3, <2>a, CommitAdds
  <2>2. \/ /\ Creating(c)
           /\ tontines[id] = None
           /\ MembersOf(id) = {}
           /\ doc = NewTontine(c)
           /\ Committed(doc.invite_code) = {}
        \/ /\ tontines[id] \in TontineDoc
           /\ tontines[id].active_members_count < tontines[id].expected_members
           /\ doc = [tontines[id] EXCEPT !.active_members_count = @ + 1]
    BY <1>3, <2>a, CommitAdds
  <2>3. /\ tontines'[id] = doc
        /\ \A t \in Tontines : t # id => tontines'[t] = tontines[t]
        /\ doc # None
    BY <1>0, <2>1, NoneAssumption DEF TypeOK
  <2>4. IsFiniteSet(members)'
    BY <1>0, <2>1, FS_AddElement DEF CommittedSound
  <2>5. /\ MembersOf(id)' = MembersOf(id) \union {m}
        /\ \A t \in Tontines : t # id => MembersOf(t)' = MembersOf(t)
        /\ m \notin MembersOf(id)
    BY <2>1 DEF MembersOf
  <2>6. /\ doc.active_members_count = Cardinality(MembersOf(id) \union {m})
        /\ doc.active_members_count <= doc.expected_members
    <3>1. IsFiniteSet(MembersOf(id))
      <4>1. MembersOf(id) \in SUBSET members
        BY DEF MembersOf
      <4>q. QED
        BY <1>0, <4>1, FS_Subset DEF CommittedSound
    <3>2. CASE Creating(c) /\ tontines[id] = None /\ MembersOf(id) = {}
               /\ doc = NewTontine(c)
      <4>1. doc.active_members_count = 1 /\ doc.expected_members >= 2
        <5>1. doc.active_members_count = 1
          BY <3>2 DEF NewTontine
        <5>2. doc.expected_members \in Capacities
          BY DEF TontineDoc
        <5>q. QED
          BY <5>1, <5>2, CapacityRange
      <4>2. MembersOf(id) \union {m} = {m} /\ Cardinality({m}) = 1
        BY <3>2, FS_Singleton
      <4>q. QED
        <5>1. doc.expected_members \in Capacities
          BY DEF TontineDoc
        <5>2. doc.expected_members \in Nat
          BY <5>1, CapacityRange
        <5>q. QED
          BY <4>1, <4>2, <5>2
    <3>3. CASE /\ tontines[id] \in TontineDoc
               /\ tontines[id].active_members_count
                    < tontines[id].expected_members
               /\ doc = [tontines[id] EXCEPT !.active_members_count = @ + 1]
      <4>1. tontines[id] # None
        BY <3>3, NoneAssumption
      <4>2. tontines[id].active_members_count = Cardinality(MembersOf(id))
        BY <1>0, <2>1, <4>1 DEF CommittedSound, CounterMatchesMembers
      <4>3. Cardinality(MembersOf(id) \union {m}) = Cardinality(MembersOf(id)) + 1
        BY <2>5, <3>1, FS_AddElement
      <4>4. /\ doc.active_members_count = tontines[id].active_members_count + 1
            /\ doc.expected_members = tontines[id].expected_members
        BY <3>3 DEF TontineDoc
      <4>5. /\ tontines[id].active_members_count \in Nat
            /\ tontines[id].expected_members \in Nat
        BY <3>3, CapacitiesAssumption DEF TontineDoc
      <4>q. QED
        BY <3>3, <4>2, <4>3, <4>4, <4>5
    <3>q. QED
      BY <2>2, <3>2, <3>3
  <2>7. CounterMatchesMembers'
    <3> SUFFICES ASSUME NEW t \in Tontines
                 PROVE  IF tontines'[t] = None THEN MembersOf(t)' = {}
                        ELSE tontines'[t].active_members_count
                               = Cardinality(MembersOf(t)')
      BY DEF CounterMatchesMembers
    <3>1. CASE t = id
      BY <2>3, <2>5, <2>6, <3>1
    <3>2. CASE t # id
      BY <1>0, <2>3, <2>5, <3>2 DEF CommittedSound, CounterMatchesMembers
    <3>q. QED
      BY <3>1, <3>2
  <2>8. \A t \in Tontines : tontines'[t] # None =>
          tontines'[t].active_members_count <= tontines'[t].expected_members
    BY <1>0, <2>3, <2>6 DEF CommittedSound
  <2>9. \A t, o \in Tontines :
          tontines'[t] # None /\ tontines'[o] # None
            /\ tontines'[t].invite_code = tontines'[o].invite_code => t = o
    <3>1. \A o \in Tontines : tontines[o] # None /\ o # id =>
            tontines[o].invite_code # doc.invite_code
      <4>1. CASE Committed(doc.invite_code) = {}
        BY <4>1 DEF Committed
      <4>2. CASE /\ tontines[id] \in TontineDoc
                 /\ doc = [tontines[id] EXCEPT !.active_members_count = @ + 1]
        <5>1. tontines[id] # None /\ doc.invite_code = tontines[id].invite_code
          BY <4>2, NoneAssumption DEF TontineDoc
        <5>q. QED
          BY <1>0, <2>1, <5>1 DEF CommittedSound
      <4>q. QED
        BY <2>2, <4>1, <4>2
    <3>q. QED
      BY <1>0, <2>3, <3>1 DEF CommittedSound
  <2>10. OneMembershipPerUser'
    BY <1>0, <2>1 DEF CommittedSound, OneMembershipPerUser, AlreadyIn, MembersOf
  <2>q. QED
    BY <2>4, <2>7, <2>8, <2>9, <2>10 DEF CommittedSound
<1>4. CASE UNCHANGED vars
  BY <1>1, <1>4 DEF vars
<1>5. ASSUME NEW c \in Calls, CallStep(c) PROVE CommittedSound'
  BY <1>1, <1>3, <1>5, OnlyCommitsWrite
<1>q. QED
  BY <1>2, <1>4, <1>5, NextIsCallStep
-----------------------------------------------------------------------------
LEMMA IInvInductive == IInv /\ [Next]_vars => IInv'
BY TypePreserved, ControlPreserved, StagingPreserved, ExclusivePreserved,
   CommittedPreserved DEF IInv

(* IInv holds in every reachable state of the repository. *)
THEOREM Invariant == Spec => []IInv
BY InitIInv, IInvInductive, PTL DEF Spec

(* Every document and every call's state has its type. *)
THEOREM TypeCorrect == Spec => []TypeOK
<1>1. IInv => TypeOK
  BY DEF IInv
<1>q. QED
  BY <1>1, Invariant, PTL

(* active_members_count is the number of active memberships, always. *)
THEOREM CounterCorrect == Spec => []CounterMatchesMembers
<1>1. IInv => CounterMatchesMembers
  BY DEF IInv, CommittedSound
<1>q. QED
  BY <1>1, Invariant, PTL

(* No tontine ever has more members than expected_members. *)
THEOREM CapacityHolds == Spec => []CapacityRespected
<1>1. IInv => CapacityRespected
  BY DEF IInv, CommittedSound, CounterMatchesMembers, CapacityRespected
<1>q. QED
  BY <1>1, Invariant, PTL

(* An invite code names at most one tontine. *)
THEOREM CodesUnique == Spec => []InviteCodesUnique
<1>1. IInv => InviteCodesUnique
  <2> SUFFICES ASSUME IInv, NEW code \in Codes
               PROVE  Cardinality(Committed(code)) <= 1
    BY DEF InviteCodesUnique
  <2>1. CASE Committed(code) = {}
    BY <2>1, FS_EmptySet
  <2>2. ASSUME NEW t \in Committed(code) PROVE Cardinality(Committed(code)) <= 1
    <3>1. Committed(code) = {t}
      BY <2>2 DEF IInv, CommittedSound, Committed
    <3>2. Cardinality({t}) = 1
      BY FS_Singleton
    <3>q. QED
      BY <3>1, <3>2
  <2>q. QED
    BY <2>1, <2>2
<1>q. QED
  BY <1>1, Invariant, PTL

(* No user holds two seats of one tontine. *)
THEOREM OneMembership == Spec => []OneMembershipPerUser
<1>1. IInv => OneMembershipPerUser
  BY DEF IInv, CommittedSound
<1>q. QED
  BY <1>1, Invariant, PTL

-----------------------------------------------------------------------------
(* What a step does to one tontine. *)
LEMMA StepKeeps ==
  ASSUME IInv, [Next]_vars, NEW t \in Tontines
  PROVE  members \subseteq members' /\ KeepsTontine(t)
<1>0. TypeOK
  BY DEF IInv
<1>1. CASE UNCHANGED <<tontines, members>>
  <2>1. tontines[t] # None => tontines[t].active_members_count \in Nat
    BY <1>0 DEF TypeOK, TontineDoc
  <2>q. QED
    BY <1>1, <2>1 DEF KeepsTontine
<1>2. CASE \E c \in Calls : ServerCommit(c)
  <2> PICK c \in Calls : ServerCommit(c)
    BY <1>2
  <2> DEFINE id == txn[c].id
             doc == txn[c].doc
  <2>1. /\ id \in Tontines /\ doc \in TontineDoc
        /\ tontines' = [tontines EXCEPT ![id] = doc]
        /\ members \subseteq members'
        /\ \/ tontines[id] = None
           \/ /\ tontines[id] \in TontineDoc
              /\ doc = [tontines[id] EXCEPT !.active_members_count = @ + 1]
    BY CommitAdds
  <2>2. CASE t # id
    <3>1. tontines'[t] = tontines[t]
      BY <1>0, <2>1, <2>2 DEF TypeOK
    <3>2. tontines[t] # None => tontines[t].active_members_count \in Nat
      BY <1>0 DEF TypeOK, TontineDoc
    <3>q. QED
      BY <2>1, <3>1, <3>2 DEF KeepsTontine
  <2>3. CASE t = id
    <3>1. tontines'[t] = doc /\ doc # None
      BY <1>0, <2>1, <2>3, NoneAssumption DEF TypeOK
    <3>2. CASE tontines[t] = None
      BY <2>1, <3>2 DEF KeepsTontine
    <3>3. CASE tontines[t] # None
      <4>1. /\ tontines[t] \in TontineDoc
            /\ doc = [tontines[t] EXCEPT !.active_members_count = @ + 1]
        BY <2>1, <2>3, <3>3
      <4>2. /\ doc.active_members_count = tontines[t].active_members_count + 1
            /\ doc.invite_code = tontines[t].invite_code
            /\ doc.expected_members = tontines[t].expected_members
            /\ doc.created_by = tontines[t].created_by
            /\ tontines[t].active_members_count \in Nat
        BY <4>1 DEF TontineDoc
      <4>q. QED
        BY <2>1, <3>1, <4>2 DEF KeepsTontine
    <3>q. QED
      BY <3>2, <3>3
  <2>q. QED
    BY <2>2, <2>3
<1>3. CASE \E o \in Tontines : CloseTontine(o)
  <2> PICK o \in Tontines : CloseTontine(o)
    BY <1>3
  <2>1. /\ tontines[o] \in TontineDoc /\ members' = members
        /\ tontines' = [tontines EXCEPT ![o] = [tontines[o] EXCEPT !.status = "CLOSED"]]
    BY <1>0 DEF CloseTontine, TypeOK
  <2>2. [tontines[o] EXCEPT !.status = "CLOSED"] \in TontineDoc
    BY <2>1 DEF TontineDoc, Statuses
  <2>3. \A d \in TontineDoc : d # None /\ d.active_members_count \in Nat
    BY NoneAssumption DEF TontineDoc
  <2>4. CASE t = o
    <3>1. tontines'[t] = [tontines[o] EXCEPT !.status = "CLOSED"]
      BY <1>0, <2>1, <2>4 DEF TypeOK
    <3>2. /\ tontines'[t].active_members_count = tontines[t].active_members_count
          /\ tontines'[t].invite_code = tontines[t].invite_code
          /\ tontines'[t].expected_members = tontines[t].expected_members
          /\ tontines'[t].created_by = tontines[t].created_by
      BY <2>1, <2>4, <3>1 DEF TontineDoc
    <3>q. QED
      BY <2>1, <2>2, <2>3, <2>4, <3>1, <3>2 DEF KeepsTontine
  <2>5. CASE t # o
    <3>1. tontines'[t] = tontines[t]
      BY <1>0, <2>1, <2>5 DEF TypeOK
    <3>2. tontines[t] # None => tontines[t].active_members_count \in Nat
      BY <1>0, <2>3 DEF TypeOK
    <3>q. QED
      BY <2>1, <3>1, <3>2 DEF KeepsTontine
  <2>q. QED
    BY <2>4, <2>5
<1>4. CASE UNCHANGED vars
  BY <1>1, <1>4 DEF vars
<1>5. CASE \E c \in Calls : CallStep(c)
  BY <1>1, <1>2, <1>5, OnlyCommitsWrite
<1>q. QED
  BY <1>3, <1>4, <1>5, NextIsCallStep

(* Memberships, counters and what a tontine is are never taken back, by    *)
(* whatever commit, abort, retry or crash.                                 *)
THEOREM NeverUndone == Spec => NothingUndone
<1>1. IInv /\ [Next]_vars =>
        [members \subseteq members' /\ \A t \in Tontines : KeepsTontine(t)]_vars
  <2> SUFFICES ASSUME IInv, [Next]_vars
               PROVE  [members \subseteq members'
                         /\ \A t \in Tontines : KeepsTontine(t)]_vars
    OBVIOUS
  <2>1. CASE Tontines = {}
    <3>1. \A c \in Calls : CallStep(c) => members \subseteq members'
      BY OnlyCommitsWrite DEF ServerCommit
    <3>q. QED
      BY <2>1, <3>1, NextIsCallStep DEF vars
  <2>2. CASE Tontines # {}
    BY <2>2, StepKeeps
  <2>q. QED
    BY <2>1, <2>2
<1>q. QED
  BY Invariant, <1>1, PTL DEF Spec, NothingUndone
=============================================================================
