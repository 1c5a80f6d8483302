--------------------------- MODULE DeploymentProofs ---------------------------
(* The invariants of Deployment, for any processes and environments. *)
EXTENDS Deployment, TLAPS

LEMMA InitIInv == Init => IInv
BY DeploymentAssumption DEF Init, IInv, TypeOK, SoundAt, Answers, Indexes

(* A process whose variables a step leaves alone stays sound: indexes are  *)
(* never dropped.                                                          *)
LEMMA OthersSound ==
  ASSUME NEW q \in Processes, SoundAt(q), indexes \subseteq indexes',
         environ'[q] = environ[q], settings'[q] = settings[q],
         stage'[q] = stage[q], created'[q] = created[q],
         ready'[q] = ready[q], answer'[q] = answer[q]
  PROVE  SoundAt(q)'
BY DEF SoundAt

LEMMA StartStep ==
  ASSUME IInv, NEW p \in Processes, Start(p)
  PROVE  IInv'
<1>1. PICK e \in Environments :
        /\ Valid(e)
        /\ environ' = [environ EXCEPT ![p] = e]
        /\ settings' = [settings EXCEPT ![p] = Configured(e)]
  BY DEF Start
<1>2. /\ Configured(e) \subseteq Fields
      /\ e.environment = "production" => Configured(e) = Fields
  BY <1>1 DEF Valid, Required, Configured
<1>3. TypeOK'
  BY <1>1, <1>2 DEF IInv, TypeOK, Start
<1>4. SoundAt(p)'
  BY <1>1, <1>2, DeploymentAssumption DEF IInv, TypeOK, SoundAt, Start
<1>5. ASSUME NEW q \in Processes, q # p PROVE SoundAt(q)'
  BY <1>1, <1>5, OthersSound DEF IInv, TypeOK, Start
<1> QED
  BY <1>3, <1>4, <1>5 DEF IInv

LEMMA PingStep ==
  ASSUME IInv, NEW p \in Processes, Ping(p)
  PROVE  IInv'
<1>1. stage[p] = "ping" /\ created[p] = 0
  BY DEF IInv, SoundAt, Ping
<1>2. /\ stage' = [stage EXCEPT ![p] = IF up THEN "index" ELSE "serving"]
      /\ UNCHANGED <<environ, settings, created, ready, answer, indexes, up, faults>>
  BY DEF Ping, Goto
<1>3. TypeOK'
  BY <1>1, <1>2 DEF IInv, TypeOK
<1>4. SoundAt(p)'
  BY <1>1, <1>2, DeploymentAssumption DEF IInv, TypeOK, SoundAt
<1>5. ASSUME NEW q \in Processes, q # p PROVE SoundAt(q)'
  BY <1>2, <1>5, OthersSound DEF IInv, TypeOK
<1> QED
  BY <1>3, <1>4, <1>5 DEF IInv

LEMMA CreateIndexStep ==
  ASSUME IInv, NEW p \in Processes, CreateIndex(p)
  PROVE  IInv'
<1>1. /\ Len(Indexes) = 8
      /\ stage[p] = "index" /\ created[p] \in 0..7
  BY DEF IInv, TypeOK, CreateIndex, Indexes
<1>2. /\ created' = [created EXCEPT ![p] = created[p] + 1]
      /\ created'[p] = created[p] + 1
      /\ created \in [Processes -> 0..8]
  BY <1>1 DEF IInv, TypeOK, CreateIndex
<1>3. indexes' = indexes \union {Indexes[created[p] + 1]}
  BY <1>2 DEF CreateIndex
<1>4. /\ indexes \subseteq indexes' /\ Indexes[created[p] + 1] \in indexes'
      /\ indexes' \subseteq {Indexes[i] : i \in 1..8}
  BY <1>1, <1>3 DEF IInv, TypeOK
<1>5. /\ \/ /\ created[p] + 1 = 8
            /\ stage' = [stage EXCEPT ![p] = "serving"]
            /\ ready' = [ready EXCEPT ![p] = TRUE]
         \/ (created[p] + 1 # 8) /\ UNCHANGED <<stage, ready>>
      /\ UNCHANGED <<environ, settings, answer, up, faults>>
  BY <1>1, <1>2 DEF CreateIndex, Goto
<1>6. TypeOK'
  <2>1. created' \in [Processes -> 0..8]
    BY <1>1, <1>2
  <2>2. stage' \in [Processes -> {"down", "ping", "index", "serving"}]
    BY <1>5 DEF IInv, TypeOK
  <2>3. ready' \in [Processes -> BOOLEAN]
    BY <1>5 DEF IInv, TypeOK
  <2>4. \A q \in Processes : stage'[q] = "index" => created'[q] < 8
    BY <1>1, <1>2, <1>5 DEF IInv, TypeOK
  <2> QED
    BY <1>4, <1>5, <2>1, <2>2, <2>3, <2>4 DEF IInv, TypeOK
<1>7. SoundAt(p)'
  <2>1. \A i \in 1..(created[p] + 1) : i \in 1..created[p] \/ i = created[p] + 1
    BY <1>1
  <2>2. \A i \in 1..created'[p] : Indexes[i] \in indexes'
    BY <1>2, <1>4, <2>1 DEF IInv, SoundAt
  <2>3. answer'[p] = None
    BY <1>1, <1>5 DEF IInv, SoundAt
  <2>4. ready'[p] => created'[p] = 8
    BY <1>1, <1>2, <1>5 DEF IInv, TypeOK, SoundAt
  <2>5. stage'[p] \in {"index", "serving"}
    BY <1>1, <1>5 DEF IInv, TypeOK
  <2> QED
    BY <1>1, <1>5, <2>2, <2>3, <2>4, <2>5, DeploymentAssumption
       DEF IInv, SoundAt
<1>8. ASSUME NEW q \in Processes, q # p PROVE SoundAt(q)'
  BY <1>2, <1>4, <1>5, <1>8, OthersSound DEF IInv, TypeOK
<1> QED
  BY <1>6, <1>7, <1>8 DEF IInv

LEMMA CreateIndexFailsStep ==
  ASSUME IInv, NEW p \in Processes, CreateIndexFails(p)
  PROVE  IInv'
<1>1. /\ stage[p] = "index"
      /\ stage' = [stage EXCEPT ![p] = "serving"]
      /\ faults' \in 0..MaxFaults
      /\ UNCHANGED <<environ, settings, created, ready, answer, indexes, up>>
  BY DeploymentAssumption DEF CreateIndexFails, Goto, IInv, TypeOK
<1>2. TypeOK'
  BY <1>1 DEF IInv, TypeOK
<1>3. SoundAt(p)'
  BY <1>1, DeploymentAssumption DEF IInv, TypeOK, SoundAt
<1>4. ASSUME NEW q \in Processes, q # p PROVE SoundAt(q)'
  BY <1>1, <1>4, OthersSound DEF IInv, TypeOK
<1> QED
  BY <1>2, <1>3, <1>4 DEF IInv

(* An answer depends on the settings and, when a post is handled, on the   *)
(* flag.                                                                   *)
LEMMA AnswerStep ==
  ASSUME IInv, NEW p \in Processes, Verify(p) \/ Post(p)
  PROVE  IInv'
<1>1. PICK a \in Answers :
        /\ Respond(p, a)
        /\ a \in {"replied", "reply_failed"} => ready[p]
        /\ settings[p] = Fields => a \notin {"not_configured", "reply_failed"}
  <2>1. CASE Verify(p)
    BY <2>1 DEF Verify, VerifyAnswer, Answers, Fields
  <2>2. CASE Post(p)
    BY <2>2 DEF Post, PostAnswer, CanSend, Answers, Fields
  <2> QED
    BY <2>1, <2>2
<1>2. /\ stage[p] = "serving"
      /\ answer' = [answer EXCEPT ![p] = a]
      /\ UNCHANGED <<environ, settings, stage, created, ready, indexes, up, faults>>
  BY <1>1 DEF Respond
<1>3. TypeOK'
  BY <1>2 DEF IInv, TypeOK
<1>4. SoundAt(p)'
  BY <1>1, <1>2 DEF IInv, TypeOK, SoundAt
<1>5. ASSUME NEW q \in Processes, q # p PROVE SoundAt(q)'
  BY <1>2, <1>5, OthersSound DEF IInv, TypeOK
<1> QED
  BY <1>3, <1>4, <1>5 DEF IInv

LEMMA DownStep ==
  ASSUME IInv, NEW p \in Processes, Down(p), faults' \in 0..MaxFaults
  PROVE  IInv'
<1>1. /\ stage' = [stage EXCEPT ![p] = "down"]
      /\ answer' = [answer EXCEPT ![p] = None]
      /\ ready' = [ready EXCEPT ![p] = FALSE]
      /\ created' = [created EXCEPT ![p] = 0]
      /\ UNCHANGED <<environ, settings, indexes, up>>
  BY DEF Down, Goto
<1>2. TypeOK'
  BY <1>1 DEF IInv, TypeOK
<1>3. SoundAt(p)'
  <2>1. /\ stage'[p] = "down" /\ answer'[p] = None
        /\ ~ready'[p] /\ created'[p] = 0
    BY <1>1 DEF IInv, TypeOK
  <2> QED
    BY <2>1, DeploymentAssumption DEF SoundAt
<1>4. ASSUME NEW q \in Processes, q # p PROVE SoundAt(q)'
  BY <1>1, <1>4, OthersSound DEF IInv, TypeOK
<1> QED
  BY <1>2, <1>3, <1>4 DEF IInv

LEMMA NextIInv == IInv /\ [Next]_vars => IInv'
<1> SUFFICES ASSUME IInv, [Next]_vars PROVE IInv'
  OBVIOUS
<1>1. CASE Outage \/ Recovery
  <2>1. /\ up' \in BOOLEAN /\ faults' \in 0..MaxFaults
        /\ UNCHANGED <<environ, settings, stage, created, ready, answer, indexes>>
    <3>1. faults \in 0..MaxFaults /\ MaxFaults \in Nat
      BY DeploymentAssumption DEF IInv, TypeOK
    <3>2. up' \in BOOLEAN
      BY <1>1, Zenon DEF Outage, Recovery
    <3>3. faults' = faults \/ (faults < MaxFaults /\ faults' = faults + 1)
      BY <1>1, Zenon DEF Outage, Recovery
    <3>4. UNCHANGED <<environ, settings, stage, created, ready, answer, indexes>>
      BY <1>1, Zenon DEF Outage, Recovery
    <3> QED
      BY <3>1, <3>2, <3>3, <3>4
  <2>2. TypeOK'
    BY <2>1 DEF IInv, TypeOK
  <2>3. \A p \in Processes : SoundAt(p)'
    BY <2>1, OthersSound DEF IInv
  <2> QED
    BY <2>2, <2>3 DEF IInv
<1>2. ASSUME NEW p \in Processes, Stop(p) \/ Crash(p) PROVE IInv'
  <2>1. Down(p) /\ faults' \in 0..MaxFaults
    BY <1>2, DeploymentAssumption DEF Stop, Crash, IInv, TypeOK
  <2> QED
    BY <2>1, DownStep
<1>3. CASE UNCHANGED vars
  BY <1>3 DEF vars, IInv, TypeOK, SoundAt
<1> QED
  BY <1>1, <1>2, <1>3, StartStep, PingStep, CreateIndexStep,
     CreateIndexFailsStep, AnswerStep DEF Next, Lifespan

(* The flag, the indexes and the answers of every process fit together.    *)
THEOREM Invariant == Spec => []IInv
BY InitIInv, NextIInv, PTL DEF Spec

(* Type correctness of the processes and the indexes.                      *)
THEOREM TypeCorrect == Spec => []TypeOK
<1>1. IInv => TypeOK
  BY DEF IInv
<1> QED
  BY <1>1, Invariant, PTL

(* Each of the unique indexes is one of the eight a ready process created. *)
ReadyIsIndexed ==
  \A p \in Processes : ready[p] => UniqueIndexes \subseteq indexes

LEMMA ReadyIndexed == IInv => ReadyIsIndexed
<1> SUFFICES ASSUME IInv, NEW p \in Processes, ready[p]
             PROVE  UniqueIndexes \subseteq indexes
  BY DEF ReadyIsIndexed
<1>1. \A i \in 1..8 : Indexes[i] \in indexes
  BY DEF IInv, SoundAt
<1>2. /\ Indexes[1] \in indexes /\ Indexes[2] \in indexes
      /\ Indexes[3] \in indexes /\ Indexes[4] \in indexes
      /\ Indexes[5] \in indexes /\ Indexes[7] \in indexes
  BY <1>1
<1> QED
  BY <1>2 DEF Indexes, UniqueIndexes

(* However many processes start, and whatever fails, a post is handled     *)
(* with every unique index in place.                                       *)
THEOREM NeverWithoutIndexes == Spec => []HandledIsDeduplicated
<1>1. IInv => HandledIsDeduplicated
  BY ReadyIndexed DEF ReadyIsIndexed, HandledIsDeduplicated, IInv, SoundAt
<1> QED
  BY <1>1, Invariant, PTL

(* A production process never lacks a variable that a request needs.       *)
THEOREM ProductionComplete == Spec => []ProductionConfigured
<1>1. IInv => ProductionConfigured
  BY DEF IInv, SoundAt, ProductionConfigured
<1> QED
  BY <1>1, Invariant, PTL

(* A post is handled by processes that are ready only. *)
HandlingIsReady == Handling = {p \in Processes : ready[p]}

(* What Messaging takes for granted is so of every process, however many   *)
(* start together, stop half way or meet an outage: it is ready after the  *)
(* last index only, and what it found there stays.                         *)
THEOREM ProvidesGate == Spec => KeepsGate
<1> DEFINE Opened == {p \in Processes : ready[p]}
           Indexed == UniqueIndexes \subseteq indexes
<1>1. Init => Door!Init
  <2>1. Init => Handling = {}
    BY DeploymentAssumption DEF Init, Handling
  <2> QED
    BY <2>1 DEF Init, Door!Init, UniqueIndexes
<1>a. IInv => HandlingIsReady
  BY DEF IInv, SoundAt, Handling, HandlingIsReady
<1>b. IInv /\ [Next]_vars => HandlingIsReady /\ HandlingIsReady'
  BY <1>a, NextIInv, PTL
<1>2. IInv /\ [Next]_vars => ReadyIsIndexed'
  BY ReadyIndexed, NextIInv, PTL
<1>3. ASSUME IInv, [Next]_vars
      PROVE  [Door!Next]_(Door!vars)
  <2>1. ready \in [Processes -> BOOLEAN]
    BY <1>3 DEF IInv, TypeOK
  <2>2. indexes \subseteq indexes'
    BY <1>3 DEF Next, vars, Outage, Recovery, Start, Lifespan, Ping,
       CreateIndex, CreateIndexFails, Verify, Post, Respond, Stop, Crash, Down
  <2>3. \/ UNCHANGED ready
        \/ \E p \in Processes : ready' = [ready EXCEPT ![p] = TRUE]
        \/ \E p \in Processes :
             ready' = [ready EXCEPT ![p] = FALSE] /\ UNCHANGED indexes
    BY <1>3 DEF Next, vars, Outage, Recovery, Start, Lifespan, Ping,
       CreateIndex, CreateIndexFails, Verify, Post, Respond, Stop, Crash, Down
  <2>a. Handling = Opened /\ Handling' = Opened'
    BY <1>3, <1>b DEF HandlingIsReady
  <2>4. CASE Opened' = Opened
    BY <2>2, <2>4, <2>a DEF Door!Next, Door!vars, Door!Index
  <2>5. ASSUME NEW p \in Processes, ready' = [ready EXCEPT ![p] = TRUE],
               Opened' # Opened
        PROVE  Door!Next
    <3>1. p \notin Opened /\ Opened' = Opened \union {p}
      BY <2>1, <2>5
    <3>2. Indexed'
      BY <1>2, <1>3, <3>1 DEF ReadyIsIndexed
    <3> QED
      BY <3>1, <3>2, <2>a DEF Door!Next, Door!Open
  <2>6. ASSUME NEW p \in Processes, ready' = [ready EXCEPT ![p] = FALSE],
               UNCHANGED indexes, Opened' # Opened
        PROVE  Door!Next
    <3>1. p \in Opened /\ Opened' = Opened \ {p}
      BY <2>1, <2>6
    <3> QED
      BY <2>6, <3>1, <2>a DEF Door!Next, Door!Close
  <2> QED
    BY <2>3, <2>4, <2>5, <2>6
<1>4. IInv /\ [Next]_vars => [Door!Next]_(Door!vars)
  BY <1>3
<1> QED
  BY <1>1, <1>4, Invariant, PTL DEF Spec, KeepsGate, Door!Spec
=============================================================================
