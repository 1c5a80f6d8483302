---------------------------- MODULE ListingProofs ----------------------------
(***************************************************************************)
(* Proofs about Listing: whatever commits between the two reads of a list, *)
(* it is whole, its numbers are of one moment and its codes go to owners.  *)
(* They rest on what TontineStoreProofs and TontineOutcomesProofs show of  *)
(* the calls, which the reads do not disturb.                              *)
(***************************************************************************)
EXTENDS Listing, TontineOutcomesProofs

(* Tontine t is stored, under code k. *)
Names(t, k) ==
  t \in Tontines /\ tontines[t] # None /\ tontines[t].invite_code = k

(* A membership is of the tontine that the call that wrote it asked for. *)
WrittenUnderCode == \A m \in members : Names(m.tontine_id, args[m.by].code)

StoreInv ==
  /\ IInv
  /\ CreatedWithOwner
  /\ OutcomesSound
  /\ RefusalsSound
  /\ WrittenUnderCode

(* What the first read found is still so when the second one is made.      *)
FoundSound(r) ==
  /\ IsFiniteSet(found[r])
  /\ stage[r] \in {"idle", "memberships"} => found[r] = {}
  /\ \A m \in found[r] : \E n \in members :
       /\ n.user_id = asker[r]
       /\ n.tontine_id = m.tontine
       /\ n.role = m.role

(* What the user had been told is where the listing will look for it next. *)
KeptSound(r) ==
  /\ stage[r] = "memberships" => \A k \in kept[r] : \E n \in members :
       n.user_id = asker[r] /\ Names(n.tontine_id, k)
  /\ stage[r] = "tontines" => \A k \in kept[r] : \E m \in found[r] :
       Names(m.tontine, k)
  /\ stage[r] = "done" => \A k \in kept[r] : \E l \in shown[r] :
       Names(l.tontine, k)

SeatsOf(l) == l.seats <= l.of /\ l.seats >= IF l.code = None THEN 2 ELSE 1

LineSound(r, l) ==
  /\ SeatsOf(l)
  /\ l.code # None =>
       /\ Names(l.tontine, l.code)
       /\ tontines[l.tontine].created_by = asker[r]

Whole(r) ==
  /\ {l.tontine : l \in shown[r]} = {m.tontine : m \in found[r]}
  /\ Cardinality(shown[r]) = Cardinality(found[r])

ShownSound(r) ==
  /\ stage[r] # "done" => shown[r] = {}
  /\ stage[r] = "done" => Whole(r)
  /\ \A l \in shown[r] : LineSound(r, l)

ReaderSound(r) == FoundSound(r) /\ KeptSound(r) /\ ShownSound(r)

(* The inductive invariant. *)
ListingInv ==
  /\ StoreInv
  /\ ListingTypeOK
  /\ \A r \in Readers : ReaderSound(r)
-----------------------------------------------------------------------------
(* The calls                                                               *)

LEMMA MembersStay == IInv /\ [Next]_vars => members \subseteq members'
<1>1. CASE UNCHANGED <<tontines, members>>
  BY <1>1
<1>2. ASSUME NEW c \in Calls, ServerCommit(c) PROVE members \subseteq members'
  BY <1>2 DEF ServerCommit
<1>3. ASSUME NEW t \in Tontines, CloseTontine(t) PROVE members \subseteq members'
  BY <1>3 DEF CloseTontine
<1>q. QED
  BY <1>1, <1>2, <1>3, ThreeKindsOfStep

LEMMA NameStays ==
  ASSUME IInv, [Next]_vars, NEW t, NEW k, Names(t, k)
  PROVE  Names(t, k)'
<1>1. KeepsTontine(t)
  BY StepKeeps DEF Names
<1>q. QED
  BY <1>1 DEF Names, KeepsTontine

(* A commit writes under the code of its call. *)
LEMMA CommitUnderCode ==
  ASSUME StoreInv, NEW c \in Calls, ServerCommit(c), NEW m \in members',
         m \notin members
  PROVE  m.by = c /\ Names(m.tontine_id, args[c].code)'
<1>0. /\ IInv /\ TypeOK /\ ControlSoundAt(c) /\ RefusalSoundAt(c)
      /\ args' = args
  BY DEF StoreInv, IInv, ControlSound, RefusalsSound, ServerCommit
<1>1. Staged(c)
  BY <1>0 DEF ServerCommit, ControlSoundAt, NoTxn
<1>2. /\ m = txn[c].member /\ m.by = c /\ m.tontine_id = txn[c].id
      /\ txn[c].id \in Tontines /\ txn[c].doc \in TontineDoc
      /\ tontines' = [tontines EXCEPT ![txn[c].id] = txn[c].doc]
  <2>1. IInv
    BY DEF StoreInv
  <2>2. m = txn[c].member
    BY DEF ServerCommit
  <2>q. QED
    BY <2>1, <2>2, CommitAdds
<1>3. tontines'[m.tontine_id] = txn[c].doc /\ txn[c].doc # None
  BY <1>0, <1>2, NoneAssumption DEF TypeOK
<1>4. txn[c].doc.invite_code = args[c].code
  <2>1. CASE Creating(c)
    <3>1. txn[c].doc = NewTontine(c)
      BY <2>1, CommitAdds DEF StoreInv
    <3>q. QED
      BY <3>1 DEF NewTontine
  <2>2. CASE ~Creating(c)
    <3>1. /\ tontines[txn[c].id] \in TontineDoc
          /\ txn[c].doc = [tontines[txn[c].id] EXCEPT !.active_members_count = @ + 1]
      BY <2>2, CommitAdds DEF StoreInv
    <3>2. tontines[txn[c].id].invite_code = args[c].code
      BY <1>0, <1>1, <2>2 DEF RefusalSoundAt, Committed
    <3>q. QED
      BY <3>1, <3>2 DEF TontineDoc
  <2>q. QED
    BY <2>1, <2>2
<1>q. QED
  BY <1>0, <1>2, <1>3, <1>4 DEF Names

(* Once it has written, a call keeps the code it was asked for. *)
LEMMA CodeStays ==
  ASSUME StoreInv, [Next]_vars, NEW m \in members
  PROVE  args'[m.by].code = args[m.by].code
<1>0. TypeOK /\ m.by \in Calls
  BY DEF StoreInv, IInv, TypeOK, MemberDoc
<1>1. CASE UNCHANGED vars
  BY <1>1 DEF vars
<1>2. CASE \E t \in Tontines : CloseTontine(t)
  BY <1>2 DEF CloseTontine
<1>3. ASSUME NEW c \in Calls, CallStep(c)
      PROVE  args'[m.by].code = args[m.by].code
  <2>1. CASE m.by # c
    BY <1>0, <1>3, <2>1, StepsAreLocal DEF Elsewhere
  <2>2. CASE m.by = c
    <3>1. OutcomeSoundAt(c) /\ IInv
      BY DEF StoreInv, OutcomesSound
    <3>2. m \in Written(c)
      BY <2>2 DEF Written
    <3>3. pc[c] \notin {"idle", "draw", "reserve"}
      BY <3>1, <3>2 DEF OutcomeSoundAt
    <3>q. QED
      BY <1>3, <3>1, <3>3, ArgumentsSetEarly
  <2>q. QED
    BY <2>1, <2>2
<1>q. QED
  BY <1>1, <1>2, <1>3, NextIsCallStep

LEMMA StoreInvPreserved == StoreInv /\ [Next]_vars => StoreInv'
<1> SUFFICES ASSUME StoreInv, [Next]_vars PROVE StoreInv'
  OBVIOUS
<1>1. (IInv /\ CreatedWithOwner /\ OutcomesSound /\ RefusalsSound)'
  BY IInvInductive, OwnerPreserved, OutcomesPreserved, RefusalsPreserved
     DEF StoreInv
<1>2. ASSUME NEW m \in members' PROVE Names(m.tontine_id, args[m.by].code)'
  <2>1. CASE m \in members
    <3>1. Names(m.tontine_id, args[m.by].code)
      BY <2>1 DEF StoreInv, WrittenUnderCode
    <3>2. args'[m.by].code = args[m.by].code
      BY <2>1, CodeStays
    <3>q. QED
      BY <3>1, <3>2, NameStays DEF StoreInv, Names
  <2>2. CASE m \notin members
    <3>1. \E c \in Calls : ServerCommit(c)
      BY <2>2, ThreeKindsOfStep DEF StoreInv, CloseTontine
    <3>q. QED
      BY <2>2, <3>1, CommitUnderCode
  <2>q. QED
    BY <2>1, <2>2
<1>q. QED
  BY <1>1, <1>2 DEF StoreInv, WrittenUnderCode

LEMMA InitStoreInv == Init => StoreInv
BY InitIInv, InitOutcomes, InitRefusals
   DEF Init, StoreInv, CreatedWithOwner, WrittenUnderCode
-----------------------------------------------------------------------------
(* The readers                                                             *)

(* Steps of others, and of the calls, leave a reader what it relies on: no *)
(* membership and no name of a tontine goes away.                          *)
LEMMA ReaderUndisturbed ==
  ASSUME StoreInv, ListingTypeOK, [Next]_vars, NEW r \in Readers,
         ReaderSound(r),
         stage'[r] = stage[r], asker'[r] = asker[r], kept'[r] = kept[r],
         found'[r] = found[r], shown'[r] = shown[r]
  PROVE  ReaderSound(r)'
<1>0. IInv /\ members \subseteq members'
  BY MembersStay DEF StoreInv
<1>1. FoundSound(r)'
  BY <1>0 DEF ReaderSound, FoundSound
<1>2. KeptSound(r)'
  <2>1. ASSUME stage[r] = "memberships", NEW k \in kept[r]
        PROVE  \E n \in members' : n.user_id = asker[r] /\ Names(n.tontine_id, k)'
    BY <1>0, <2>1, NameStays DEF ReaderSound, KeptSound
  <2>2. ASSUME stage[r] = "tontines", NEW k \in kept[r]
        PROVE  \E m \in found[r] : Names(m.tontine, k)'
    BY <1>0, <2>2, NameStays DEF ReaderSound, KeptSound
  <2>3. ASSUME stage[r] = "done", NEW k \in kept[r]
        PROVE  \E l \in shown[r] : Names(l.tontine, k)'
    BY <1>0, <2>3, NameStays DEF ReaderSound, KeptSound
  <2>q. QED
    BY <2>1, <2>2, <2>3 DEF KeptSound
<1>3. ShownSound(r)'
  <2>1. ASSUME NEW l \in shown[r] PROVE LineSound(r, l)'
    <3>1. LineSound(r, l)
      BY DEF ReaderSound, ShownSound
    <3>2. CASE l.code = None
      BY <3>1, <3>2 DEF LineSound, SeatsOf
    <3>3. CASE l.code # None
      <4>1. Names(l.tontine, l.code) /\ tontines[l.tontine].created_by = asker[r]
        BY <3>1, <3>3 DEF LineSound
      <4>2. Names(l.tontine, l.code)'
        BY <1>0, <4>1, NameStays
      <4>3. KeepsTontine(l.tontine)
        BY <1>0, <4>1, StepKeeps DEF Names
      <4>q. QED
        BY <3>1, <4>1, <4>2, <4>3 DEF LineSound, SeatsOf, Names, KeepsTontine
    <3>q. QED
      BY <3>2, <3>3
  <2>2. Whole(r)' <=> Whole(r)
    BY DEF Whole
  <2>q. QED
    BY <2>1, <2>2 DEF ReaderSound, ShownSound
<1>q. QED
  BY <1>1, <1>2, <1>3 DEF ReaderSound

(* What a user was told of is among his memberships. *)
LEMMA ToldIsWritten ==
  ASSUME StoreInv, NEW u \in Users, NEW k \in ToldTo(u)
  PROVE  \E n \in members : n.user_id = u /\ Names(n.tontine_id, k)
<1>1. PICK c \in Calls : /\ args[c].user = u /\ k = args[c].code
                         /\ result[c] \in {"Joined", "Created"}
  BY DEF ToldTo
<1>2. Backed(c)
  BY <1>1 DEF StoreInv, OutcomesSound, OutcomeSoundAt
<1>3. PICK n \in members : n.by = c /\ n.user_id = args[c].user
  BY <1>2 DEF Backed, Written
<1>q. QED
  BY <1>1, <1>3 DEF StoreInv, WrittenUnderCode

LEMMA AskSound ==
  ASSUME ListingInv, NEW r \in Readers, Ask(r)
  PROVE  ReaderSound(r)' /\ ListingTypeOK'
<1>0. StoreInv /\ ListingTypeOK /\ ReaderSound(r)
  BY DEF ListingInv
<1>1. PICK u \in Users : /\ asker' = [asker EXCEPT ![r] = u]
                         /\ kept' = [kept EXCEPT ![r] = ToldTo(u)]
  BY DEF Ask
<1>2. /\ stage[r] = "idle" /\ stage'[r] = "memberships"
      /\ asker'[r] = u /\ kept'[r] = ToldTo(u)
      /\ found' = found /\ shown' = shown
      /\ members' = members /\ tontines' = tontines
  BY <1>0, <1>1 DEF Ask, ListingTypeOK, vars
<1>3. found[r] = {} /\ shown[r] = {}
  BY <1>0, <1>2 DEF ReaderSound, FoundSound, ShownSound
<1>4. KeptSound(r)'
  BY <1>0, <1>2, ToldIsWritten DEF KeptSound, Names
<1>5. FoundSound(r)' /\ ShownSound(r)'
  BY <1>2, <1>3, FS_EmptySet DEF FoundSound, ShownSound
<1>6. ListingTypeOK'
  <2>1. ToldTo(u) \in SUBSET (Codes \union {None})
    BY <1>0 DEF ToldTo, StoreInv, IInv, TypeOK
  <2>q. QED
    BY <1>0, <1>1, <2>1 DEF Ask, ListingTypeOK
<1>q. QED
  BY <1>4, <1>5, <1>6 DEF ReaderSound

LEMMA FindMembershipsSound ==
  ASSUME ListingInv, NEW r \in Readers, FindMemberships(r)
  PROVE  ReaderSound(r)' /\ ListingTypeOK'
<1>0. StoreInv /\ ListingTypeOK /\ ReaderSound(r) /\ TypeOK
  BY DEF ListingInv, StoreInv, IInv
<1> DEFINE F == MembershipsOf(asker[r])
           mine == {n \in members : n.user_id = asker[r]}
           f == [n \in mine |-> [tontine |-> n.tontine_id, role |-> n.role]]
<1>2. /\ stage[r] = "memberships"
      /\ stage'[r] = IF F = {} THEN "done" ELSE "tontines"
      /\ asker' = asker /\ kept' = kept
      /\ found' = [found EXCEPT ![r] = F] /\ found'[r] = F
      /\ shown' = shown
      /\ members' = members /\ tontines' = tontines
  BY <1>0 DEF FindMemberships, ListingTypeOK, vars
<1>3. shown[r] = {}
  BY <1>0, <1>2 DEF ReaderSound, ShownSound
<1>4. F \in SUBSET Membership
  BY <1>0 DEF MembershipsOf, Membership, TypeOK, MemberDoc
<1>5. IsFiniteSet(F)
  <2>1. IsFiniteSet(mine)
    <3>1. mine \in SUBSET members
      OBVIOUS
    <3>q. QED
      BY <1>0, <3>1, FS_Subset DEF StoreInv, IInv, CommittedSound
  <2>2. f \in Surjection(mine, F)
    BY DEF Surjection, MembershipsOf
  <2>q. QED
    BY <2>1, <2>2, FS_Surjection
<1>6. \A m \in F : \E n \in members :
        n.user_id = asker[r] /\ n.tontine_id = m.tontine /\ n.role = m.role
  BY DEF MembershipsOf
<1>7. \A k \in kept[r] : \E m \in F : Names(m.tontine, k)
  <2> SUFFICES ASSUME NEW k \in kept[r] PROVE \E m \in F : Names(m.tontine, k)
    OBVIOUS
  <2>1. PICK n \in members : n.user_id = asker[r] /\ Names(n.tontine_id, k)
    BY <1>0, <1>2 DEF ReaderSound, KeptSound
  <2>2. f[n] \in F /\ f[n].tontine = n.tontine_id
    BY <2>1 DEF MembershipsOf
  <2>q. QED
    BY <2>1, <2>2
<1>8. FoundSound(r)'
  BY <1>2, <1>5, <1>6 DEF FoundSound
<1>9. KeptSound(r)'
  BY <1>2, <1>7 DEF KeptSound, Names
<1>10. ShownSound(r)'
  <2>1. F = {} => Whole(r)'
    BY <1>2, <1>3 DEF Whole
  <2>q. QED
    BY <1>2, <1>3, <2>1 DEF ShownSound
<1>11. ListingTypeOK'
  BY <1>0, <1>2, <1>4 DEF FindMemberships, ListingTypeOK
<1>q. QED
  BY <1>8, <1>9, <1>10, <1>11 DEF ReaderSound

(* Two different members are at least two. *)
LEMMA TwoMembers ==
  ASSUME NEW S, IsFiniteSet(S), NEW a \in S, NEW b \in S, a # b
  PROVE  Cardinality(S) >= 2
<1>1. {a, b} \in SUBSET S
  OBVIOUS
<1>2. Cardinality({a}) = 1 /\ IsFiniteSet({a})
  BY FS_Singleton
<1>3. Cardinality({a} \union {b}) = 2
  BY <1>2, FS_AddElement
<1>4. {a} \union {b} = {a, b}
  OBVIOUS
<1>5. Cardinality({a, b}) <= Cardinality(S) /\ Cardinality(S) \in Nat
  BY <1>1, FS_Subset, FS_CardinalityType
<1>q. QED
  BY <1>3, <1>4, <1>5

(* The numbers of a line: the reader and, if he is another, the owner are  *)
(* counted, and the count is within the capacity.                          *)
LEMMA LineIsSound ==
  ASSUME ListingInv, NEW r \in Readers, NEW m \in found[r]
  PROVE  /\ LineOf(m) \in Line
         /\ Stored(m.tontine) /\ m.tontine \in Tontines
         /\ LineSound(r, LineOf(m))
<1>0. /\ TypeOK /\ ListingTypeOK /\ FoundSound(r)
      /\ CreatedWithOwner /\ CommittedSound
  BY DEF ListingInv, StoreInv, IInv, ReaderSound
<1> DEFINE t == m.tontine
<1>1. m \in Membership /\ t \in Tontines
  BY <1>0 DEF ListingTypeOK, Membership
<1>2. PICK n \in members :
        n.user_id = asker[r] /\ n.tontine_id = t /\ n.role = m.role
  BY <1>0 DEF FoundSound
<1>3. n \in MembersOf(t)
  BY <1>2 DEF MembersOf
<1>4. /\ tontines[t] # None /\ tontines[t] \in TontineDoc
      /\ tontines[t].active_members_count = Cardinality(MembersOf(t))
      /\ tontines[t].active_members_count <= tontines[t].expected_members
  BY <1>0, <1>1, <1>3 DEF CommittedSound, CounterMatchesMembers, TypeOK
<1>5. PICK o \in MembersOf(t) :
        /\ o.user_id = tontines[t].created_by
        /\ {p \in MembersOf(t) : p.role = "OWNER"} = {o}
  BY <1>0, <1>1, <1>4 DEF CreatedWithOwner
<1>6. o.role = "OWNER"
  BY <1>5
<1>7. IsFiniteSet(MembersOf(t))
  <2>1. MembersOf(t) \in SUBSET members
    BY DEF MembersOf
  <2>q. QED
    BY <1>0, <2>1, FS_Subset DEF CommittedSound
<1>8. tontines[t].active_members_count >= 1
  <2>1. MembersOf(t) # {}
    BY <1>3
  <2>q. QED
    BY <1>4, <1>7, <2>1, FS_EmptySet, FS_CardinalityType
<1>9. CASE m.role = "OWNER"
  <2>1. n = o
    BY <1>2, <1>3, <1>5, <1>9
  <2>2. /\ LineOf(m).code = tontines[t].invite_code
        /\ LineOf(m).tontine = t
        /\ LineOf(m).seats = tontines[t].active_members_count
        /\ LineOf(m).of = tontines[t].expected_members
    BY <1>9 DEF LineOf, CanViewInviteCode
  <2>3. tontines[t].invite_code # None
    BY <1>4, NoneAssumption DEF TontineDoc
  <2>4. LineOf(m) \in Line
    BY <1>1, <1>4 DEF LineOf, Line, TontineDoc
  <2>q. QED
    BY <1>1, <1>2, <1>4, <1>5, <1>8, <2>1, <2>2, <2>3, <2>4
       DEF LineSound, SeatsOf, Names, Stored
<1>10. CASE m.role # "OWNER"
  <2>1. n # o
    BY <1>2, <1>6, <1>10
  <2>2. Cardinality(MembersOf(t)) >= 2
    BY <1>3, <1>5, <1>7, <2>1, TwoMembers
  <2>3. /\ LineOf(m).code = None
        /\ LineOf(m).tontine = t
        /\ LineOf(m).seats = tontines[t].active_members_count
        /\ LineOf(m).of = tontines[t].expected_members
    BY <1>10 DEF LineOf, CanViewInviteCode
  <2>4. LineOf(m) \in Line
    BY <1>1, <1>4 DEF LineOf, Line, TontineDoc
  <2>q. QED
    BY <1>1, <1>4, <2>2, <2>3, <2>4 DEF LineSound, SeatsOf, Stored
<1>q. QED
  BY <1>9, <1>10

LEMMA FindTontinesSound ==
  ASSUME ListingInv, NEW r \in Readers, FindTontines(r)
  PROVE  ReaderSound(r)' /\ ListingTypeOK'
<1>0. StoreInv /\ ListingTypeOK /\ ReaderSound(r) /\ FoundSound(r)
  BY DEF ListingInv, ReaderSound
<1> DEFINE S == {LineOf(m) : m \in found[r]}
           f == [m \in found[r] |-> LineOf(m)]
<1>1. {n \in found[r] : Stored(n.tontine)} = found[r]
  BY LineIsSound
<1>2. /\ stage[r] = "tontines" /\ stage'[r] = "done"
      /\ asker' = asker /\ kept' = kept /\ found' = found
      /\ shown' = [shown EXCEPT ![r] = S] /\ shown'[r] = S
      /\ members' = members /\ tontines' = tontines
  BY <1>0, <1>1 DEF FindTontines, ListingTypeOK, vars
<1>3. \A m \in found[r] : LineOf(m).tontine = m.tontine
  BY DEF LineOf
<1>4. ASSUME NEW m \in found[r], NEW p \in found[r], m.tontine = p.tontine
      PROVE  m = p
  <2>1. PICK n \in members :
          n.user_id = asker[r] /\ n.tontine_id = m.tontine /\ n.role = m.role
    BY <1>0 DEF FoundSound
  <2>2. PICK o \in members :
          o.user_id = asker[r] /\ o.tontine_id = p.tontine /\ o.role = p.role
    BY <1>0 DEF FoundSound
  <2>3. n = o
    BY <1>0, <1>4, <2>1, <2>2
       DEF StoreInv, IInv, CommittedSound, OneMembershipPerUser
  <2>4. m \in Membership /\ p \in Membership
    BY <1>0 DEF ListingTypeOK
  <2>q. QED
    BY <1>4, <2>1, <2>2, <2>3, <2>4 DEF Membership
<1>5. Whole(r)'
  <2>1. {l.tontine : l \in S} = {m.tontine : m \in found[r]}
    BY <1>3
  <2>2. f \in Surjection(found[r], S)
    BY DEF Surjection
  <2>3. f \in Injection(found[r], S)
    BY <1>3, <1>4, <2>2 DEF Injection, IsInjective, Surjection
  <2>4. Cardinality(S) = Cardinality(found[r])
    BY <1>0, <2>2, <2>3, FS_Surjection DEF FoundSound
  <2>q. QED
    BY <1>2, <2>1, <2>4 DEF Whole
<1>6. ASSUME NEW l \in S PROVE LineSound(r, l)'
  <2>1. LineSound(r, l)
    BY LineIsSound
  <2>q. QED
    BY <1>2, <2>1 DEF LineSound, Names, SeatsOf
<1>7. ShownSound(r)'
  BY <1>2, <1>5, <1>6 DEF ShownSound
<1>8. KeptSound(r)'
  <2>1. ASSUME NEW k \in kept[r] PROVE \E l \in S : Names(l.tontine, k)
    <3>1. PICK m \in found[r] : Names(m.tontine, k)
      BY <1>0, <1>2 DEF ReaderSound, KeptSound
    <3>q. QED
      BY <1>3, <3>1
  <2>q. QED
    BY <1>2, <2>1 DEF KeptSound, Names
<1>9. FoundSound(r)'
  BY <1>0, <1>2 DEF FoundSound
<1>10. ListingTypeOK'
  <2>1. S \in SUBSET Line
    BY LineIsSound
  <2>q. QED
    BY <1>0, <1>2, <2>1 DEF FindTontines, ListingTypeOK
<1>q. QED
  BY <1>7, <1>8, <1>9, <1>10 DEF ReaderSound

LEMMA ListingFailsSound ==
  ASSUME ListingInv, NEW r \in Readers, ListingFails(r)
  PROVE  ReaderSound(r)' /\ ListingTypeOK'
<1>0. ListingTypeOK /\ ReaderSound(r)
  BY DEF ListingInv
<1>1. /\ stage[r] \in {"memberships", "tontines"} /\ stage'[r] = "failed"
      /\ asker' = asker /\ found' = found /\ shown' = shown
      /\ members' = members
  BY <1>0 DEF ListingFails, ListingTypeOK, vars
<1>2. shown[r] = {}
  BY <1>0, <1>1 DEF ReaderSound, ShownSound
<1>3. FoundSound(r)' /\ KeptSound(r)' /\ ShownSound(r)'
  BY <1>0, <1>1, <1>2 DEF ReaderSound, FoundSound, KeptSound, ShownSound
<1>4. ListingTypeOK'
  BY <1>0 DEF ListingFails, ListingTypeOK
<1>q. QED
  BY <1>3, <1>4 DEF ReaderSound
-----------------------------------------------------------------------------
LEMMA ListingInitInv == ListingInit => ListingInv
<1> SUFFICES ASSUME ListingInit PROVE ListingInv
  OBVIOUS
<1>1. StoreInv
  BY InitStoreInv DEF ListingInit
<1>2. ListingTypeOK
  BY DEF ListingInit, ListingTypeOK
<1>3. ASSUME NEW r \in Readers PROVE ReaderSound(r)
  BY FS_EmptySet
     DEF ListingInit, ReaderSound, FoundSound, KeptSound, ShownSound
<1>q. QED
  BY <1>1, <1>2, <1>3 DEF ListingInv

(* A read of one listing leaves the others where they were. *)
LEMMA ReadsAreLocal ==
  ASSUME ListingTypeOK, NEW r \in Readers, NEW s \in Readers, s # r,
         Ask(r) \/ FindMemberships(r) \/ FindTontines(r) \/ ListingFails(r)
  PROVE  /\ stage'[s] = stage[s] /\ asker'[s] = asker[s]
         /\ kept'[s] = kept[s] /\ found'[s] = found[s] /\ shown'[s] = shown[s]
         /\ UNCHANGED vars
BY DEF Ask, FindMemberships, FindTontines, ListingFails, ListingTypeOK

LEMMA ListingInductive == ListingInv /\ [ListingNext]_allVars => ListingInv'
<1> SUFFICES ASSUME ListingInv, [ListingNext]_allVars PROVE ListingInv'
  OBVIOUS
<1>0. StoreInv /\ ListingTypeOK /\ \A r \in Readers : ReaderSound(r)
  BY DEF ListingInv
<1>1. CASE [Next]_vars /\ UNCHANGED listings
  <2>1. StoreInv'
    BY <1>0, <1>1, StoreInvPreserved
  <2>2. ListingTypeOK'
    BY <1>0, <1>1 DEF ListingTypeOK, listings
  <2>3. ASSUME NEW r \in Readers PROVE ReaderSound(r)'
    BY <1>0, <1>1, ReaderUndisturbed DEF listings
  <2>q. QED
    BY <2>1, <2>2, <2>3 DEF ListingInv
<1>2. ASSUME NEW r \in Readers,
             Ask(r) \/ FindMemberships(r) \/ FindTontines(r) \/ ListingFails(r)
      PROVE  ListingInv'
  <2>1. UNCHANGED vars
    BY <1>2 DEF Ask, FindMemberships, FindTontines, ListingFails
  <2>2. StoreInv'
    BY <1>0, <2>1, StoreInvPreserved
  <2>3. ReaderSound(r)' /\ ListingTypeOK'
    BY <1>2, AskSound, FindMembershipsSound, FindTontinesSound, ListingFailsSound
  <2>4. ASSUME NEW s \in Readers, s # r PROVE ReaderSound(s)'
    <3>1. /\ stage'[s] = stage[s] /\ asker'[s] = asker[s]
          /\ kept'[s] = kept[s] /\ found'[s] = found[s] /\ shown'[s] = shown[s]
      BY <1>0, <1>2, <2>4, ReadsAreLocal
    <3>q. QED
      BY <1>0, <2>1, <3>1, ReaderUndisturbed
  <2>q. QED
    BY <2>2, <2>3, <2>4 DEF ListingInv
<1>q. QED
  BY <1>1, <1>2 DEF ListingNext, Listings, allVars

(* ListingInv holds in every reachable state of calls and listings.        *)
THEOREM ListingInvariant == ListingSpec => []ListingInv
BY ListingInitInv, ListingInductive, PTL DEF ListingSpec

(* Listings only read: beside them the calls are those of TontineStore,    *)
(* with all that is proved of them, the register of TontineRegistry first. *)
THEOREM ListingsOnlyRead == ListingSpec => Spec /\ RefinesRegistry
<1>1. ListingInit => Init
  BY DEF ListingInit
<1>2. [ListingNext]_allVars => [Next]_vars
  BY DEF ListingNext, Listings, Ask, FindMemberships, FindTontines,
         ListingFails, allVars
<1>3. ListingSpec => Spec
  BY <1>1, <1>2, PTL DEF ListingSpec, Spec
<1>q. QED
  BY <1>3, ImplementsRegistry, PTL

(* Stages, memberships found and lines shown have their types.             *)
THEOREM ListingTypeCorrect == ListingSpec => []ListingTypeOK
<1>1. ListingInv => ListingTypeOK
  BY DEF ListingInv
<1>q. QED
  BY <1>1, ListingInvariant, PTL

(* However many creations, joins and closings commit between the two       *)
(* reads, a list shows every membership the first of them found.           *)
THEOREM NothingByHalf == ListingSpec => []ListComplete
<1>1. ListingInv => ListComplete
  BY DEF ListingInv, ListComplete, ReaderSound, ShownSound, Whole
<1>q. QED
  BY <1>1, ListingInvariant, PTL

(* A list that is asked for after an answer shows what the answer was of.  *)
THEOREM OwnWritesAreRead == ListingSpec => []ReadsOwnWrites
<1>1. ListingInv => ReadsOwnWrites
  <2> SUFFICES ASSUME ListingInv, NEW r \in Readers, stage[r] = "done",
                      NEW k \in kept[r]
               PROVE  \E l \in shown[r] : tontines[l.tontine].invite_code = k
    BY DEF ReadsOwnWrites
  <2>q. QED
    BY DEF ListingInv, ReaderSound, KeptSound, Names
<1>q. QED
  BY <1>1, ListingInvariant, PTL

(* The seats of a line include its reader and the owner, and are no more   *)
(* than the tontine has.                                                   *)
THEOREM SeatsAreRight == ListingSpec => []SeatsMakeSense
<1>1. ListingInv => SeatsMakeSense
  BY DEF ListingInv, SeatsMakeSense, ReaderSound, ShownSound, LineSound, SeatsOf
<1>q. QED
  BY <1>1, ListingInvariant, PTL

(* A code is shown to the creator of its tontine, and to nobody else.      *)
THEOREM CodesToOwners == ListingSpec => []CodeOnlyToOwner
<1>1. ListingInv => CodeOnlyToOwner
  BY DEF ListingInv, CodeOnlyToOwner, ReaderSound, ShownSound, LineSound, Names
<1>q. QED
  BY <1>1, ListingInvariant, PTL
=============================================================================
