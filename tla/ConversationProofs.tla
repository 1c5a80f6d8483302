-------------------------- MODULE ConversationProofs --------------------------
(***************************************************************************)
(* Proofs about Conversation, for any number of messages at a time, any    *)
(* texts and any number of conversations.                                  *)
(***************************************************************************)
EXTENDS Conversation, FiniteSetTheorems, TLAPS

(* A handler that will still use the state it read. *)
Holding == {"preview", "advance", "finish", "create", "join", "discard"}

ControlSoundAt(h) ==
  /\ pc[h] \in Holding => read[h] # None
  /\ pc[h] = "advance" => read[h].step \in DOMAIN Work!Asks
  /\ pc[h] = "preview" => read[h].step \in {"JOIN_CODE", "JOIN_CONFIRM"}
  /\ read[h] # None => ~read[h].expired

(* A state that was stored once: it has the answers of its step, and the   *)
(* document, while it lives, has moved on from it exactly if its version   *)
(* has.                                                                    *)
StateSound(s) == s # None =>
  /\ DOMAIN s.data = Required[s.step]
  /\ s.life <= lives
  /\ s.conversation <= begun
  /\ doc # None /\ doc.life = s.life =>
       /\ s.version <= doc.version
       /\ s.version = doc.version =>
            /\ s.step = doc.step
            /\ s.data = doc.data
            /\ s.conversation = doc.conversation

(* The document is always that of the newest conversation. *)
NewestStored == doc # None => doc.life = lives /\ doc.conversation = begun

IInv ==
  /\ TypeOK
  /\ \A h \in Handlers : ControlSoundAt(h) /\ StateSound(read[h])
  /\ StateSound(doc)
  /\ NewestStored

-----------------------------------------------------------------------------
(* Handlers between the end of a conversation and its outcome.             *)
Pending(i) ==
  {h \in Handlers : pc[h] \in {"create", "join"} /\ read[h].conversation = i}

Open == IF doc = None THEN 0 ELSE 1

(* Each conversation that began after i, or i itself, has been spent on at *)
(* most one outcome of i, past or pending; the newest may still be open.   *)
BalancedAt(i) ==
  /\ IsFiniteSet(Pending(i))
  /\ i > begun => outcomes[i] = 0 /\ Pending(i) = {}
  /\ i <= begun => outcomes[i] + Cardinality(Pending(i)) + Open <= begun - i + 1

Balanced == \A i \in 1..MaxConversations : BalancedAt(i)

-----------------------------------------------------------------------------
Asking == {"CREATE_NAME", "CREATE_AMOUNT", "CREATE_FREQUENCY",
           "CREATE_MEMBERS", "JOIN_CODE"}

(* The two forms, question by question. *)
LEMMA Tables ==
  /\ DOMAIN Work!Asks = Asking
  /\ \A s \in Asking :
       /\ s \in Steps
       /\ Work!Asks[s] \in Fields
       /\ Work!Follows[s] \in Steps
       /\ Required[Work!Follows[s]] = Required[s] \union {Work!Asks[s]}
<1>1. DOMAIN Work!Asks = Asking
  BY DEF Work!Asks, Asking
<1>2. \A s \in Asking : s \in Steps /\ Work!Asks[s] \in Fields
  BY DEF Work!Asks, Asking, Fields, Steps
<1>3. \A s \in Asking : Work!Follows[s] \in Steps
  BY DEF Work!Follows, Asking, Steps
<1>4. \A s \in Asking : Required[Work!Follows[s]] = Required[s] \union {Work!Asks[s]}
  BY DEF Work!Follows, Work!Asks, Required, Asking, Steps
<1>q. QED
  BY <1>1, <1>2, <1>3, <1>4

LEMMA RequiredType == \A s \in Steps : Required[s] \subseteq Fields
BY DEF Required, Steps, Fields

LEMMA NoneIsApart == None \notin Documents /\ None \notin Steps
BY ConversationNoneAssumption

LEMMA BoundType == MaxConversations \in Nat
BY MaxConversationsAssumption

(* A document after begin, or after an answer, is a document. *)
LEMMA RestartedType ==
  ASSUME TypeOK, NewestStored, begun < MaxConversations, Live = None, NEW t
  PROVE  /\ Restarted(t) \in Documents
         /\ Restarted(t).conversation = begun + 1
         /\ Restarted(t).life = IF doc = None THEN lives + 1 ELSE lives
         /\ Restarted(t).version = IF doc = None THEN 1 ELSE doc.version + 1
         /\ Restarted(t).step \in {"CREATE_NAME", "JOIN_CODE"}
         /\ Restarted(t).data = <<>>
         /\ DOMAIN Restarted(t).data = {}
         /\ ~Restarted(t).expired
<1> DEFINE r == Restarted(t)
<1>1. /\ r.step \in Steps /\ r.version \in Nat \ {0} /\ r.expired \in BOOLEAN
  <2>1. doc # None => doc.version \in Nat \ {0}
    BY DEF TypeOK, Documents
  <2>q. QED
    BY <2>1 DEF Restarted, Steps
<1>2. r.conversation \in 1..MaxConversations /\ r.life \in 1..MaxConversations
  <2>1. begun \in Nat /\ lives \in 0..begun
    BY BoundType DEF TypeOK
  <2>2. doc # None => doc.life = lives /\ doc.life \in 1..MaxConversations
    BY DEF TypeOK, Documents, NewestStored
  <2>q. QED
    BY <2>1, <2>2, BoundType DEF Restarted
<1>3. r.data = <<>> /\ DOMAIN r.data = {}
  BY DEF Restarted
<1>4. r.data \in UNION {[fields -> Answers] : fields \in SUBSET Fields}
  <2>1. <<>> \in [{} -> Answers]
    OBVIOUS
  <2>q. QED
    BY <1>3, <2>1
<1>5. r = [step |-> r.step, version |-> r.version, expired |-> r.expired,
           data |-> r.data, conversation |-> r.conversation, life |-> r.life]
  BY DEF Restarted
<1>6. r \in Documents
  <2> HIDE DEF r
  <2>q. QED
    BY <1>1, <1>2, <1>4, <1>5 DEF Documents
<1>q. QED
  BY <1>3, <1>6 DEF Restarted

LEMMA FilledType ==
  ASSUME TypeOK, NEW h \in Handlers, read[h] # None,
         read[h].step \in DOMAIN Work!Asks
  PROVE  /\ Filled(h) \in UNION {[fields -> Answers] : fields \in SUBSET Fields}
         /\ DOMAIN Filled(h) = DOMAIN read[h].data \union {Work!Asks[read[h].step]}
<1> DEFINE field == Work!Asks[read[h].step]
           answer == [conversation |-> read[h].conversation,
                      valid |-> field = "amount" => IsDraftAmount(text[h])]
           fields == DOMAIN read[h].data \union {field}
<1>1. read[h] \in Documents /\ field \in Fields
  BY Tables DEF TypeOK
<1>2. answer \in Answers
  BY <1>1 DEF Documents, Answers
<1>3. PICK old \in SUBSET Fields : read[h].data \in [old -> Answers]
  BY <1>1 DEF Documents
<1>4. fields \in SUBSET Fields /\ DOMAIN read[h].data = old
  BY <1>1, <1>3
<1>5. Filled(h) = [f \in fields |-> IF f = field THEN answer ELSE read[h].data[f]]
  BY DEF Filled
<1>6. Filled(h) \in [fields -> Answers] /\ DOMAIN Filled(h) = fields
  <2> HIDE DEF answer, field
  <2>q. QED
    BY <1>2, <1>3, <1>4, <1>5
<1>q. QED
  BY <1>4, <1>6

-----------------------------------------------------------------------------
(* What a step may do to the document.                                     *)
Still == UNCHANGED <<doc, begun, lives>>

Goes == doc' = None /\ UNCHANGED <<begun, lives>>

Ages ==
  /\ Live # None
  /\ doc' = [doc EXCEPT !.expired = TRUE]
  /\ UNCHANGED <<begun, lives>>

Begins ==
  /\ Live = None
  /\ begun < MaxConversations
  /\ begun' = begun + 1
  /\ lives' = IF doc = None THEN lives + 1 ELSE lives
  /\ \E h \in Handlers : doc' = Restarted(text[h])

Advances(h) ==
  /\ pc[h] = "advance"
  /\ Matches(h)
  /\ doc' = [doc EXCEPT !.step = Work!Follows[read[h].step],
                        !.version = @ + 1,
                        !.expired = FALSE,
                        !.data = Filled(h)]
  /\ UNCHANGED <<begun, lives>>

LEMMA DocumentMoves ==
  ASSUME [Next]_vars
  PROVE  Still \/ Goes \/ Ages \/ Begins \/ \E h \in Handlers : Advances(h)
<1>1. ASSUME NEW h \in Handlers, Handle(h)
      PROVE  Still \/ Goes \/ Begins \/ Advances(h)
  <2>1. CASE \/ Receive(h) \/ Get(h) \/ ListTontines(h) \/ BeginConflict(h)
             \/ PreviewFound(h) \/ PreviewUnknown(h) \/ AdvanceConflict(h)
             \/ FinishConflict(h) \/ CreateOrJoin(h) \/ JoinRefused(h)
    BY <2>1 DEF Receive, Get, ListTontines, BeginConflict, PreviewFound,
                PreviewUnknown, AdvanceConflict, FinishConflict, CreateOrJoin,
                JoinRefused, Still
  <2>2. CASE Clear(h) \/ Finish(h) \/ Discard(h)
    BY <2>2 DEF Clear, Finish, Discard, Goes
  <2>3. CASE Begin(h)
    BY <2>3 DEF Begin, Begins
  <2>4. CASE Advance(h)
    BY <2>4 DEF Advance, Advances
  <2>q. QED
    BY <1>1, <2>1, <2>2, <2>3, <2>4 DEF Handle
<1>2. ASSUME NEW h \in Handlers, Fail(h)
      PROVE  Still
  BY <1>2 DEF Fail, Still
<1>3. CASE Expire
  BY <1>3 DEF Expire, Ages
<1>4. CASE TTLDelete
  BY <1>4 DEF TTLDelete, Goes
<1>5. CASE UNCHANGED vars
  BY <1>5 DEF vars, Still
<1>q. QED
  BY <1>1, <1>2, <1>3, <1>4, <1>5 DEF Next

(* What a step may do to the handler that takes it.                        *)
HandlersTyped ==
  /\ pc \in [Handlers -> Operations \union {"free"}]
  /\ text \in [Handlers -> Texts \union {None}]
  /\ read \in [Handlers -> Documents \union {None}]

Turns(h) ==
  /\ HandlersTyped'
  /\ \A k \in Handlers \ {h} : pc'[k] = pc[k] /\ read'[k] = read[k]
  /\ read'[h] \in {read[h], doc, None}
  /\ ControlSoundAt(h)'
  /\ pc'[h] \in {"create", "join"} => Finish(h)

LEMMA ReturnTurns ==
  ASSUME HandlersTyped, NEW h \in Handlers, Return(h)
  PROVE  Turns(h)
BY DEF HandlersTyped, Return, Await, Turns, ControlSoundAt, Holding, Operations

LEMMA HandlerTurns ==
  ASSUME TypeOK, NEW h \in Handlers, ControlSoundAt(h), Handle(h) \/ Fail(h)
  PROVE  Turns(h)
<1>0. HandlersTyped
  BY DEF TypeOK, HandlersTyped
<1>1. CASE Return(h)
  BY <1>0, <1>1, ReturnTurns
<1>2. CASE Receive(h)
  <2>1. PICK t \in Texts :
          /\ text' = [text EXCEPT ![h] = t]
          /\ Await(h, IF GlobalCommand(t) = "UNKNOWN" THEN "get" ELSE "clear")
    BY <1>2 DEF Receive
  <2>2. pc'[h] \in {"get", "clear"} /\ read' = read
    BY <1>0, <1>2, <2>1 DEF Receive, Await, HandlersTyped
  <2>3. HandlersTyped'
    BY <1>0, <1>2, <2>1 DEF Receive, Await, HandlersTyped, Operations
  <2>4. ControlSoundAt(h)'
    BY <2>2 DEF ControlSoundAt, Holding
  <2>q. QED
    BY <1>0, <2>1, <2>2, <2>3, <2>4 DEF Turns, Await, HandlersTyped
<1>3. CASE Get(h) /\ ~Return(h)
  <2> DEFINE operation == IF Live = None THEN AtRest(text[h])
                          ELSE InWorkflow(Live, text[h])
  <2>1. /\ operation # "free"
        /\ Await(h, operation)
        /\ read' = [read EXCEPT ![h] = Live]
        /\ UNCHANGED text
    BY <1>3 DEF Get
  <2>2. /\ Live \in {doc, None} /\ Live \in Documents \union {None}
        /\ Live # None => ~Live.expired
    BY DEF Live, TypeOK
  <2>3. CASE Live = None
    <3>1. operation \in {"begin", "list"}
      BY <2>1, <2>3 DEF AtRest
    <3>2. pc' = [pc EXCEPT ![h] = operation] /\ pc'[h] = operation
      BY <1>0, <2>1 DEF Await, HandlersTyped
    <3> HIDE DEF operation
    <3>3. HandlersTyped'
      BY <1>0, <2>1, <2>2, <3>1, <3>2 DEF HandlersTyped, Operations
    <3>4. ControlSoundAt(h)'
      <4>1. read'[h] = None
        BY <1>0, <2>1, <2>3 DEF HandlersTyped
      <4>q. QED
        BY <3>1, <3>2, <4>1 DEF ControlSoundAt, Holding
    <3>q. QED
      BY <1>0, <2>1, <2>2, <3>1, <3>2, <3>3, <3>4 DEF Turns, HandlersTyped
  <2>4. CASE Live # None
    <3>0. Live.step \in Steps
      BY <2>2, <2>4 DEF Documents
    <3>1. /\ operation \in {"preview", "advance", "finish", "discard"}
          /\ operation = "advance" => Live.step \in DOMAIN Work!Asks
          /\ operation = "preview" => Live.step \in {"JOIN_CODE", "JOIN_CONFIRM"}
      <4>1. CASE Live.step \in DOMAIN Work!Asks
        <5>1. operation = IF ~Accepts(Live.step, text[h]) THEN "free"
                          ELSE IF Live.step = "JOIN_CODE" THEN "preview" ELSE "advance"
          BY <2>4, <4>1, Tables DEF InWorkflow, Asking
        <5>q. QED
          BY <2>1, <4>1, <5>1
      <4>2. CASE Live.step = "CREATE_CONFIRM"
        <5>1. operation = IF ~IsConfirmation(text[h]) THEN "free"
                          ELSE IF DraftValid(Live) THEN "finish" ELSE "discard"
          BY <2>4, <4>2, Tables DEF InWorkflow, Asking
        <5>q. QED
          BY <2>1, <5>1
      <4>3. CASE Live.step = "JOIN_CONFIRM"
        <5>1. operation = IF IsConfirmation(text[h]) THEN "finish" ELSE "preview"
          BY <2>4, <4>3, Tables DEF InWorkflow, Asking
        <5>q. QED
          BY <4>3, <5>1
      <4>q. QED
        BY <3>0, <4>1, <4>2, <4>3, Tables DEF Steps, Asking
    <3>2. pc' = [pc EXCEPT ![h] = operation] /\ pc'[h] = operation
      BY <1>0, <2>1 DEF Await, HandlersTyped
    <3> HIDE DEF operation
    <3>3. HandlersTyped'
      BY <1>0, <2>1, <2>2, <3>1, <3>2 DEF HandlersTyped, Operations
    <3>4. read'[h] = Live
      BY <1>0, <2>1 DEF HandlersTyped
    <3>5. ControlSoundAt(h)'
      BY <2>2, <2>4, <3>1, <3>2, <3>4 DEF ControlSoundAt
    <3>q. QED
      BY <1>0, <2>1, <2>2, <3>1, <3>2, <3>3, <3>5 DEF Turns, HandlersTyped
  <2>q. QED
    BY <2>3, <2>4
<1>4. CASE PreviewFound(h) /\ ~Return(h)
  <2>1. read[h].step = "JOIN_CODE" /\ Await(h, "advance") /\ UNCHANGED <<text, read>>
    BY <1>4 DEF PreviewFound
  <2>2. read[h] # None
    BY <1>4 DEF PreviewFound, ControlSoundAt, Holding
  <2>3. HandlersTyped' /\ pc'[h] = "advance"
    BY <1>0, <2>1 DEF Await, HandlersTyped, Operations
  <2>4. ControlSoundAt(h)'
    BY <2>1, <2>2, <2>3, Tables DEF ControlSoundAt, Asking
  <2>q. QED
    BY <1>0, <2>1, <2>3, <2>4 DEF Turns, Await, HandlersTyped
<1>5. CASE Finish(h)
  <2>1. read[h] # None /\ UNCHANGED <<text, read>>
    BY <1>5 DEF Finish, ControlSoundAt, Holding
  <2>2. HandlersTyped' /\ pc'[h] \in {"create", "join"}
    BY <1>0, <1>5 DEF Finish, Await, HandlersTyped, Operations
  <2>3. ControlSoundAt(h)'
    BY <2>1, <2>2 DEF ControlSoundAt
  <2>q. QED
    BY <1>0, <1>5, <2>1, <2>2, <2>3 DEF Turns, Finish, Await, HandlersTyped
<1>q. QED
  BY <1>1, <1>2, <1>3, <1>4, <1>5
     DEF Handle, Clear, ListTontines, Begin, BeginConflict, PreviewFound,
         PreviewUnknown, Advance, AdvanceConflict, FinishConflict,
         CreateOrJoin, JoinRefused, Discard, Fail

-----------------------------------------------------------------------------
(* A state that was stored stays sound whatever becomes of the document.   *)
LEMMA SoundStays ==
  ASSUME IInv, NEW s \in Documents \union {None}, StateSound(s),
         Still \/ Goes \/ Ages \/ Begins \/ \E h \in Handlers : Advances(h)
  PROVE  StateSound(s)'
<1> SUFFICES ASSUME s # None
             PROVE  /\ s.life <= lives'
                    /\ s.conversation <= begun'
                    /\ doc' # None /\ doc'.life = s.life =>
                         /\ s.version <= doc'.version
                         /\ s.version = doc'.version =>
                              /\ s.step = doc'.step
                              /\ s.data = doc'.data
                              /\ s.conversation = doc'.conversation
  BY DEF StateSound
<1>1. /\ s.life \in Nat /\ s.version \in Nat /\ s.conversation \in Nat
      /\ s.life <= lives /\ s.conversation <= begun
      /\ lives \in Nat /\ begun \in Nat /\ TypeOK /\ NewestStored
  <2>1. TypeOK /\ NewestStored
    BY DEF IInv
  <2>2. lives \in Nat /\ begun \in Nat
    BY <2>1, BoundType DEF TypeOK
  <2>3. s \in Documents
    OBVIOUS
  <2>4. s.life \in Nat /\ s.version \in Nat /\ s.conversation \in Nat
    BY <2>3, BoundType DEF Documents
  <2>5. s.life <= lives /\ s.conversation <= begun
    BY DEF StateSound
  <2>q. QED
    BY <2>1, <2>2, <2>4, <2>5
<1>2. doc # None => doc.version \in Nat /\ doc.life \in Nat /\ doc \in Documents
  <2>1. doc # None => doc \in Documents
    BY <1>1 DEF TypeOK
  <2>q. QED
    BY <2>1, BoundType DEF Documents
<1>3. doc # None /\ doc.life = s.life =>
        /\ s.version <= doc.version
        /\ s.version = doc.version =>
             s.step = doc.step /\ s.data = doc.data /\ s.conversation = doc.conversation
  BY DEF StateSound
<1>4. CASE Still
  BY <1>1, <1>3, <1>4 DEF Still
<1>5. CASE Goes
  BY <1>1, <1>5 DEF Goes
<1>6. CASE Ages
  <2>1. doc # None
    BY <1>6 DEF Ages, Live
  <2>2. /\ doc'.life = doc.life /\ doc'.version = doc.version
        /\ doc'.step = doc.step /\ doc'.data = doc.data
        /\ doc'.conversation = doc.conversation
    BY <1>2, <1>6, <2>1 DEF Ages, Documents
  <2>q. QED
    BY <1>1, <1>3, <1>6, <2>1, <2>2 DEF Ages
<1>7. CASE Begins
  <2>1. /\ doc'.life = IF doc = None THEN lives + 1 ELSE lives
        /\ doc'.version = IF doc = None THEN 1 ELSE doc.version + 1
    BY <1>1, <1>7, RestartedType DEF Begins
  <2>2. CASE doc = None
    BY <1>1, <1>7, <2>1, <2>2 DEF Begins
  <2>3. CASE doc # None
    <3>1. doc.life = lives
      BY <1>1, <2>3 DEF NewestStored
    <3>q. QED
      BY <1>1, <1>2, <1>3, <1>7, <2>1, <2>3, <3>1 DEF Begins
  <2>q. QED
    BY <2>2, <2>3
<1>8. CASE \E h \in Handlers : Advances(h)
  <2>1. PICK h \in Handlers : Advances(h)
    BY <1>8
  <2>2. doc # None
    BY <2>1 DEF Advances, Matches
  <2>3. doc'.life = doc.life /\ doc'.version = doc.version + 1
    BY <1>2, <2>1, <2>2 DEF Advances, Documents
  <2>4. UNCHANGED <<begun, lives>>
    BY <2>1 DEF Advances
  <2>5. doc.life = s.life => s.version <= doc.version /\ doc.version \in Nat
    BY <1>2, <1>3, <2>2
  <2>q. QED
    BY <1>1, <2>3, <2>4, <2>5
<1>q. QED
  BY <1>4, <1>5, <1>6, <1>7, <1>8

(* The state a matching handler read is the stored one, or both have ended *)
(* and begun since; in any case at the same step, with the same fields.    *)
LEMMA AdvanceResult ==
  ASSUME IInv, NEW h \in Handlers, Advances(h)
  PROVE  /\ doc # None /\ doc' # None /\ doc' \in Documents
         /\ doc'.step = Work!Follows[doc.step] /\ doc.step \in Asking
         /\ DOMAIN doc'.data = DOMAIN doc.data \union {Work!Asks[doc.step]}
         /\ DOMAIN doc'.data = Required[doc'.step]
         /\ doc'.life = doc.life /\ doc'.conversation = doc.conversation
         /\ ~doc'.expired
<1>1. TypeOK /\ ControlSoundAt(h) /\ StateSound(read[h]) /\ StateSound(doc)
  BY DEF IInv
<1>2. read[h] # None /\ read[h].step \in DOMAIN Work!Asks
  BY <1>1 DEF Advances, ControlSoundAt, Holding
<1>3. doc # None /\ doc \in Documents /\ doc.step = read[h].step /\ doc.step \in Asking
  BY <1>1, <1>2, Tables DEF Advances, Matches, TypeOK
<1>4. /\ Filled(h) \in UNION {[fields -> Answers] : fields \in SUBSET Fields}
      /\ DOMAIN Filled(h) = DOMAIN read[h].data \union {Work!Asks[doc.step]}
  BY <1>1, <1>2, <1>3, FilledType
<1>5. DOMAIN read[h].data = Required[doc.step] /\ DOMAIN doc.data = Required[doc.step]
  BY <1>1, <1>2, <1>3 DEF StateSound
<1>6. Work!Follows[doc.step] \in Steps
  BY <1>3, Tables
<1>7. /\ doc' \in Documents
      /\ doc'.step = Work!Follows[doc.step] /\ doc'.data = Filled(h)
      /\ doc'.life = doc.life /\ doc'.conversation = doc.conversation
      /\ doc'.expired = FALSE
  <2> DEFINE moved(to, with) == [doc EXCEPT !.step = to, !.version = @ + 1,
                                            !.expired = FALSE, !.data = with]
  <2>1. ASSUME NEW to \in Steps,
               NEW with \in UNION {[fields -> Answers] : fields \in SUBSET Fields}
        PROVE  /\ moved(to, with) \in Documents
               /\ moved(to, with).step = to /\ moved(to, with).data = with
               /\ moved(to, with).life = doc.life
               /\ moved(to, with).conversation = doc.conversation
               /\ moved(to, with).expired = FALSE
    <3> DEFINE stepped == [doc EXCEPT !.step = to]
               numbered == [stepped EXCEPT !.version = doc.version + 1]
               fresh == [numbered EXCEPT !.expired = FALSE]
               filled == [fresh EXCEPT !.data = with]
               Same(d) == d.life = doc.life /\ d.conversation = doc.conversation
    <3>1. doc.version \in Nat \ {0} /\ doc.version + 1 \in Nat \ {0}
      BY <1>3 DEF Documents
    <3>2. stepped \in Documents /\ stepped.step = to /\ Same(stepped)
      BY <1>3 DEF Documents
    <3>3. numbered \in Documents /\ numbered.step = to /\ Same(numbered)
      <4> HIDE DEF stepped
      <4>q. QED
        BY <3>1, <3>2 DEF Documents
    <3>4. fresh \in Documents /\ fresh.step = to /\ fresh.expired = FALSE /\ Same(fresh)
      <4> HIDE DEF numbered
      <4>q. QED
        BY <3>3 DEF Documents
    <3>5. /\ filled \in Documents /\ filled.step = to /\ filled.expired = FALSE
          /\ filled.data = with /\ Same(filled)
      <4> HIDE DEF fresh
      <4>q. QED
        BY <2>1, <3>4 DEF Documents
    <3>6. moved(to, with) = filled
      OBVIOUS
    <3> HIDE DEF moved, filled
    <3>q. QED
      BY <3>5, <3>6
  <2>2. doc' = moved(Work!Follows[doc.step], Filled(h))
    BY <1>3 DEF Advances
  <2> HIDE DEF moved
  <2>q. QED
    BY <1>4, <1>6, <2>1, <2>2
<1>q. QED
  BY <1>3, <1>4, <1>5, <1>7, Tables, NoneIsApart

LEMMA DocumentSound ==
  ASSUME IInv,
         Still \/ Goes \/ Ages \/ Begins \/ \E h \in Handlers : Advances(h)
  PROVE  /\ doc' \in Documents \union {None}
         /\ begun' \in 0..MaxConversations /\ lives' \in 0..begun'
         /\ StateSound(doc)' /\ NewestStored'
<1>1. /\ TypeOK /\ NewestStored /\ StateSound(doc)
      /\ doc \in Documents \union {None}
      /\ begun \in 0..MaxConversations /\ lives \in 0..begun
      /\ begun \in Nat /\ lives \in Nat
  BY BoundType DEF IInv, TypeOK
<1>2. CASE Still \/ Goes
  BY <1>1, <1>2 DEF Still, Goes, StateSound, NewestStored
<1>3. CASE Ages
  <2>1. doc # None /\ doc \in Documents
    BY <1>1, <1>3 DEF Ages, Live
  <2>2. /\ doc' \in Documents
        /\ doc'.life = doc.life /\ doc'.version = doc.version
        /\ doc'.step = doc.step /\ doc'.data = doc.data
        /\ doc'.conversation = doc.conversation
    BY <1>3, <2>1 DEF Ages, Documents
  <2>3. doc.version \in Nat
    BY <2>1 DEF Documents
  <2>q. QED
    BY <1>1, <1>3, <2>1, <2>2, <2>3 DEF Ages, StateSound, NewestStored
<1>4. CASE Begins
  <2>1. /\ doc' \in Documents
        /\ doc'.conversation = begun + 1
        /\ doc'.life = IF doc = None THEN lives + 1 ELSE lives
        /\ doc'.step \in {"CREATE_NAME", "JOIN_CODE"}
        /\ DOMAIN doc'.data = {}
    BY <1>1, <1>4, RestartedType DEF Begins
  <2>2. Required[doc'.step] = {}
    BY <2>1 DEF Required
  <2>3. doc'.life = lives' /\ doc'.conversation = begun'
    BY <1>4, <2>1 DEF Begins
  <2>4. begun' \in 0..MaxConversations /\ lives' \in 0..begun'
    BY <1>1, <1>4, BoundType DEF Begins
  <2>5. doc'.version \in Nat
    BY <2>1 DEF Documents
  <2>q. QED
    BY <2>1, <2>2, <2>3, <2>4, <2>5 DEF StateSound, NewestStored
<1>5. CASE \E h \in Handlers : Advances(h)
  <2>1. PICK h \in Handlers : Advances(h)
    BY <1>5
  <2>2. /\ doc # None /\ doc' \in Documents
        /\ DOMAIN doc'.data = Required[doc'.step]
        /\ doc'.life = doc.life /\ doc'.conversation = doc.conversation
    BY <2>1, AdvanceResult
  <2>3. doc'.version \in Nat
    BY <2>2 DEF Documents
  <2>4. UNCHANGED <<begun, lives>>
    BY <2>1 DEF Advances
  <2>q. QED
    BY <1>1, <2>2, <2>3, <2>4 DEF StateSound, NewestStored
<1>q. QED
  BY <1>2, <1>3, <1>4, <1>5

-----------------------------------------------------------------------------
LEMMA InvariantInit == Init => IInv
<1> SUFFICES ASSUME Init PROVE IInv
  OBVIOUS
<1>1. TypeOK
  BY BoundType DEF Init, TypeOK
<1>2. \A h \in Handlers : ControlSoundAt(h) /\ StateSound(read[h])
  BY DEF Init, ControlSoundAt, StateSound, Holding
<1>3. StateSound(doc) /\ NewestStored
  BY DEF Init, StateSound, NewestStored
<1>q. QED
  BY <1>1, <1>2, <1>3 DEF IInv

LEMMA OutcomesTyped ==
  ASSUME IInv, [Next]_vars
  PROVE  outcomes' \in [1..MaxConversations -> Nat]
<1>1. outcomes \in [1..MaxConversations -> Nat]
  BY DEF IInv, TypeOK
<1>2. ASSUME NEW h \in Handlers, CreateOrJoin(h)
      PROVE  outcomes' \in [1..MaxConversations -> Nat]
  <2>1. read[h] \in Documents
    BY <1>2 DEF CreateOrJoin, IInv, TypeOK, ControlSoundAt, Holding
  <2>2. read[h].conversation \in 1..MaxConversations
    BY <2>1 DEF Documents
  <2>3. outcomes' = [outcomes EXCEPT ![read[h].conversation] = @ + 1]
    BY <1>2 DEF CreateOrJoin
  <2>q. QED
    BY <1>1, <2>2, <2>3
<1>3. \/ UNCHANGED outcomes
      \/ \E h \in Handlers : CreateOrJoin(h)
  BY DEF Next, vars, Handle, Receive, Clear, Get, ListTontines, Begin,
         BeginConflict, PreviewFound, PreviewUnknown, Advance, AdvanceConflict,
         Finish, FinishConflict, JoinRefused, Discard, Fail, Expire, TTLDelete
<1>q. QED
  BY <1>1, <1>2, <1>3

LEMMA HandlersTurn ==
  ASSUME IInv, [Next]_vars
  PROVE  \/ UNCHANGED <<pc, text, read>>
         \/ \E h \in Handlers : Turns(h)
<1>1. ASSUME NEW h \in Handlers, Handle(h) \/ Fail(h)
      PROVE  Turns(h)
  BY <1>1, HandlerTurns DEF IInv
<1>q. QED
  BY <1>1 DEF Next, vars, Expire, TTLDelete

LEMMA InvariantStep == IInv /\ [Next]_vars => IInv'
<1> SUFFICES ASSUME IInv, [Next]_vars PROVE IInv'
  OBVIOUS
<1>1. Still \/ Goes \/ Ages \/ Begins \/ \E h \in Handlers : Advances(h)
  BY DocumentMoves
<1>2. /\ doc' \in Documents \union {None}
      /\ begun' \in 0..MaxConversations /\ lives' \in 0..begun'
      /\ StateSound(doc)' /\ NewestStored'
  BY <1>1, DocumentSound
<1>3. \A s \in Documents \union {None} : StateSound(s) => StateSound(s)'
  BY <1>1, SoundStays
<1>4. CASE UNCHANGED <<pc, text, read>>
  <2>1. TypeOK'
    BY <1>2, <1>4, OutcomesTyped DEF IInv, TypeOK
  <2>2. \A h \in Handlers : ControlSoundAt(h)'
    BY <1>4 DEF IInv, ControlSoundAt
  <2>3. ASSUME NEW h \in Handlers PROVE StateSound(read[h])'
    <3>1. read[h] \in Documents \union {None} /\ StateSound(read[h])
      BY DEF IInv, TypeOK
    <3>q. QED
      BY <1>3, <1>4, <3>1 DEF StateSound
  <2>q. QED
    BY <1>2, <2>1, <2>2, <2>3 DEF IInv
<1>5. CASE \E h \in Handlers : Turns(h)
  <2>1. PICK h \in Handlers : Turns(h)
    BY <1>5
  <2>2. TypeOK'
    BY <1>2, <2>1, OutcomesTyped DEF Turns, HandlersTyped, TypeOK
  <2>3. \A k \in Handlers : ControlSoundAt(k)'
    BY <2>1 DEF IInv, Turns, ControlSoundAt
  <2>4. ASSUME NEW k \in Handlers PROVE StateSound(read[k])'
    <3>1. /\ read[k] \in Documents \union {None} /\ StateSound(read[k])
          /\ doc \in Documents \union {None} /\ StateSound(doc)
      BY DEF IInv, TypeOK
    <3>2. read'[k] \in {read[k], doc, None}
      BY <2>1 DEF Turns
    <3>3. CASE read'[k] = read[k]
      BY <1>3, <3>1, <3>3 DEF StateSound
    <3>4. CASE read'[k] = doc
      BY <1>3, <3>1, <3>4 DEF StateSound
    <3>5. CASE read'[k] = None
      BY <3>5 DEF StateSound
    <3>q. QED
      BY <3>2, <3>3, <3>4, <3>5
  <2>q. QED
    BY <1>2, <2>2, <2>3, <2>4 DEF IInv
<1>q. QED
  BY <1>4, <1>5, HandlersTurn

(* Nothing but messages, failures, expiry and TTL deletion happens; the    *)
(* invariant on which everything below rests.                              *)
THEOREM Invariant == Spec => []IInv
<1>q. QED
  BY InvariantInit, InvariantStep, PTL DEF Spec

(* The document and what the handlers read have their types. *)
THEOREM TypeCorrect == Spec => []TypeOK
<1>1. IInv => TypeOK
  BY DEF IInv
<1>q. QED
  BY <1>1, Invariant, PTL

(* What a late handler reads in its state is there: no step raises a       *)
(* KeyError, however old the state it holds.                               *)
THEOREM AnswersComplete == Spec => []DataMatchesStep
<1>1. IInv => DataMatchesStep
  BY DEF IInv, StateSound, DataMatchesStep
<1>q. QED
  BY <1>1, Invariant, PTL

(* A late transition or closing takes effect on the state it was given for. *)
LEMMA FilterStep ==
  IInv /\ [Next]_vars =>
    \A h \in Handlers : pc[h] \in {"advance", "finish"} /\ doc' # doc
      /\ pc'[h] # pc[h] /\ doc # None /\ doc.life = read[h].life =>
        /\ doc.conversation = read[h].conversation
        /\ doc.data = read[h].data
<1>1. ASSUME IInv, [Next]_vars, NEW h \in Handlers,
             pc[h] \in {"advance", "finish"}, doc' # doc, pc'[h] # pc[h],
             doc # None, doc.life = read[h].life
      PROVE  doc.conversation = read[h].conversation /\ doc.data = read[h].data
  <2>1. read[h] # None /\ StateSound(read[h])
    BY <1>1 DEF IInv, ControlSoundAt, Holding
  <2>2. PICK k \in Handlers : Handle(k) \/ Fail(k)
    BY <1>1 DEF Next, vars, Expire, TTLDelete
  <2>3. k = h
    <3>1. Turns(k)
      BY <1>1, <2>2, HandlerTurns DEF IInv
    <3>q. QED
      BY <1>1, <3>1 DEF Turns
  <2>4. Advance(h) \/ Finish(h)
    BY <1>1, <2>2, <2>3 DEF Handle, Receive, Clear, Get, ListTontines, Begin,
         BeginConflict, PreviewFound, PreviewUnknown, AdvanceConflict,
         FinishConflict, CreateOrJoin, JoinRefused, Discard, Fail
  <2>5. doc.version = read[h].version
    BY <2>4 DEF Advance, Finish, Matches
  <2>q. QED
    BY <1>1, <2>1, <2>5 DEF StateSound
<1>q. QED
  BY <1>1

(* The filter on step and version protects a document until it is deleted: *)
(* an answer or a confirmation only applies to the state it was given for. *)
THEOREM FilterProtects == Spec => VersionProtects
<1>q. QED
  BY FilterStep, Invariant, PTL DEF Spec, VersionProtects

(* Nothing but a new conversation follows a deleted one, and an expired    *)
(* one goes on for the handlers only that had read it alive.               *)
LEMMA BackStep ==
  ASSUME IInv, [Next]_vars
  PROVE  /\ doc = None /\ doc' # None => Begun
         /\ \A h \in Handlers : Acts(h) => ~read[h].expired
         /\ doc # None /\ doc.expired /\ doc' # None /\ ~doc'.expired =>
              Begun \/ \E h \in Handlers : Acts(h)
<1>1. Still \/ Goes \/ Ages \/ Begins \/ \E h \in Handlers : Advances(h)
  BY DocumentMoves
<1>2. Begins => Begun
  <2>1. NewestStored'
    BY InvariantStep DEF IInv
  <2>2. Begins => begun' = begun + 1 /\ doc' # None
    <3>1. Begins => \E t : doc' = Restarted(t)
      BY DEF Begins
    <3>q. QED
      BY <3>1, RestartedType, NoneIsApart DEF Begins, IInv
  <2>q. QED
    BY <2>1, <2>2 DEF NewestStored, Begun
<1>3. doc = None /\ doc' # None => Begins
  BY <1>1 DEF Still, Goes, Ages, Live, Advances, Matches
<1>4. ASSUME NEW h \in Handlers, Acts(h)
      PROVE  ~read[h].expired
  BY <1>4 DEF Acts, IInv, ControlSoundAt, Holding
<1>5. ASSUME doc # None, doc.expired, doc' # None, ~doc'.expired, ~Begins
      PROVE  \E h \in Handlers : Acts(h)
  <2>1. doc' # doc
    BY <1>5
  <2>2. PICK h \in Handlers : Handle(h) \/ Fail(h)
    BY <1>5 DEF Next, vars, Expire, Live, TTLDelete
  <2>3. Advance(h)
    BY <1>1, <1>5, <2>1, <2>2 DEF Handle, Receive, Clear, Get, ListTontines,
         Begin, Begins, BeginConflict, PreviewFound, PreviewUnknown,
         AdvanceConflict, Finish, FinishConflict, CreateOrJoin, JoinRefused,
         Discard, Fail
  <2>4. pc[h] = "advance" /\ pc'[h] = "free"
    BY <2>3 DEF Advance, Return, Await, IInv, TypeOK
  <2>q. QED
    BY <2>1, <2>4 DEF Acts
<1>q. QED
  BY <1>2, <1>3, <1>4, <1>5

(* What is gone stays gone, however late a handler is. *)
THEOREM NeverBack == Spec => GoneStaysGone
<1>1. IInv /\ [Next]_vars =>
        /\ doc = None /\ doc' # None => Begun
        /\ \A h \in Handlers : Acts(h) => ~read[h].expired
        /\ doc # None /\ doc.expired /\ doc' # None /\ ~doc'.expired =>
             Begun \/ \E h \in Handlers : Acts(h)
  BY BackStep
<1>q. QED
  BY <1>1, Invariant, PTL DEF Spec, GoneStaysGone

-----------------------------------------------------------------------------
(* The document as the form of Workflow. *)
Stage == IF doc = None THEN None ELSE doc.step
Given == IF doc = None THEN {} ELSE DOMAIN doc.data
Fresh == IF doc = None THEN TRUE ELSE ~doc.expired

LEMMA WorkflowStep ==
  ASSUME IInv, [Next]_vars
  PROVE  [Work!Next]_(Work!vars)
<1> DEFINE Form == <<Stage, Given, Fresh>>
<1>1. Work!vars = Form
  BY DEF Work!vars, Stage, Given, Fresh
<1>2. doc # None => doc \in Documents /\ Stage = doc.step /\ Stage \in Steps
  BY DEF IInv, TypeOK, Stage, Documents
<1>3. CASE Still
  BY <1>3 DEF Still, Work!vars
<1>4. CASE Goes
  <2>1. CASE doc = None
    BY <1>4, <2>1 DEF Goes, Work!vars
  <2>2. CASE doc # None
    <3>1. Stage # None
      BY <1>2, <2>2, NoneIsApart
    <3>2. Stage' = None /\ Given' = {} /\ Fresh' = TRUE
      BY <1>4 DEF Goes, Stage, Given, Fresh
    <3>q. QED
      BY <3>1, <3>2 DEF Work!Next, Work!Leave, Stage, Given, Fresh
  <2>q. QED
    BY <2>1, <2>2
<1>5. CASE Ages
  <2>1. doc # None /\ ~doc.expired /\ doc \in Documents
    BY <1>2, <1>5 DEF Ages, Live
  <2>2. /\ doc' \in Documents /\ doc'.step = doc.step /\ doc'.data = doc.data
        /\ doc'.expired
    BY <1>5, <2>1 DEF Ages, Documents
  <2>3. Stage # None /\ Fresh /\ Stage' = Stage /\ Given' = Given /\ Fresh' = FALSE
    BY <1>2, <2>1, <2>2, NoneIsApart DEF Stage, Given, Fresh
  <2>q. QED
    BY <2>3 DEF Work!Next, Work!Lapse, Stage, Given, Fresh
<1>6. CASE Begins
  <2>1. /\ doc' \in Documents /\ doc'.step \in {"CREATE_NAME", "JOIN_CODE"}
        /\ DOMAIN doc'.data = {} /\ ~doc'.expired
    BY <1>6, RestartedType DEF Begins, IInv
  <2>2. Stage = None \/ ~Fresh
    BY <1>6 DEF Begins, Live, Stage, Fresh
  <2>3. Stage' \in Work!Firsts /\ Given' = {} /\ Fresh' = TRUE
    BY <2>1, NoneIsApart DEF Stage, Given, Fresh, Work!Firsts
  <2>q. QED
    BY <2>2, <2>3 DEF Work!Next, Work!Start, Stage, Given, Fresh
<1>7. CASE \E h \in Handlers : Advances(h)
  <2>1. /\ doc # None /\ doc' # None
        /\ doc'.step = Work!Follows[doc.step] /\ doc.step \in Asking
        /\ DOMAIN doc'.data = DOMAIN doc.data \union {Work!Asks[doc.step]}
        /\ ~doc'.expired
    BY <1>7, AdvanceResult
  <2>2. /\ Stage \in DOMAIN Work!Asks /\ Stage' = Work!Follows[Stage]
        /\ Given' = Given \union {Work!Asks[Stage]} /\ Fresh' = TRUE
    BY <2>1, Tables DEF Stage, Given, Fresh
  <2>q. QED
    BY <2>2 DEF Work!Next, Work!Answer, Stage, Given, Fresh
<1>q. QED
  BY <1>3, <1>4, <1>5, <1>6, <1>7, DocumentMoves

(* Whatever messages cross and wherever one fails, the document moves as a *)
(* form does: begun, answered question by question, left or lapsed.        *)
THEOREM ImplementsWorkflow == Spec => RefinesWorkflow
<1>1. Init => Work!Init
  BY DEF Init, Work!Init
<1>2. IInv /\ [Next]_vars => [Work!Next]_(Work!vars)
  BY WorkflowStep
<1>q. QED
  BY <1>1, <1>2, Invariant, PTL DEF Spec, RefinesWorkflow, Work!Spec

-----------------------------------------------------------------------------
Concluding == {"create", "join"}

(* What a step does to the books, h being the handler that takes it. *)
LEMMA PendingStays ==
  ASSUME NEW h \in Handlers, NEW i,
         \A k \in Handlers \ {h} : pc'[k] = pc[k] /\ read'[k] = read[k],
         pc[h] \notin Concluding, pc'[h] \notin Concluding
  PROVE  Pending(i)' = Pending(i)
<1>1. \A k \in Handlers :
        (pc'[k] \in {"create", "join"} /\ read'[k].conversation = i)
        <=> (pc[k] \in {"create", "join"} /\ read[k].conversation = i)
  BY DEF Concluding
<1>q. QED
  BY <1>1 DEF Pending

LEMMA PendingEnds ==
  ASSUME NEW h \in Handlers, NEW i,
         \A k \in Handlers \ {h} : pc'[k] = pc[k] /\ read'[k] = read[k],
         pc[h] \in Concluding, pc'[h] \notin Concluding
  PROVE  Pending(i)' = IF read[h].conversation = i THEN Pending(i) \ {h} ELSE Pending(i)
<1>1. \A k \in Handlers :
        (pc'[k] \in {"create", "join"} /\ read'[k].conversation = i)
        <=> (k # h /\ pc[k] \in {"create", "join"} /\ read[k].conversation = i)
  BY DEF Concluding
<1>2. read[h].conversation # i => h \notin Pending(i)
  BY DEF Pending
<1>q. QED
  BY <1>1, <1>2 DEF Pending

LEMMA PendingBegins ==
  ASSUME NEW h \in Handlers, NEW i,
         \A k \in Handlers \ {h} : pc'[k] = pc[k] /\ read'[k] = read[k],
         pc[h] \notin Concluding, pc'[h] \in Concluding, read'[h] = read[h]
  PROVE  Pending(i)' = IF read[h].conversation = i THEN Pending(i) \union {h} ELSE Pending(i)
<1>1. \A k \in Handlers :
        (pc'[k] \in {"create", "join"} /\ read'[k].conversation = i)
        <=> \/ pc[k] \in {"create", "join"} /\ read[k].conversation = i
            \/ k = h /\ read[h].conversation = i
  BY DEF Concluding
<1>q. QED
  BY <1>1 DEF Pending

LEMMA BooksTyped ==
  ASSUME IInv, Balanced, NEW i \in 1..MaxConversations
  PROVE  /\ i \in Nat /\ begun \in Nat /\ begun <= MaxConversations
         /\ MaxConversations \in Nat /\ outcomes[i] \in Nat
         /\ IsFiniteSet(Pending(i)) /\ Cardinality(Pending(i)) \in Nat
         /\ Open \in {0, 1} /\ Open' \in {0, 1}
<1>1. IsFiniteSet(Pending(i))
  BY DEF Balanced, BalancedAt
<1>q. QED
  BY <1>1, FS_CardinalityType, BoundType DEF IInv, TypeOK, Open

(* No conversation is spent, but the document may go or begin again. *)
LEMMA BooksKept ==
  ASSUME IInv, Balanced, NEW i \in 1..MaxConversations,
         Still \/ Goes \/ Ages \/ Begins \/ \E k \in Handlers : Advances(k),
         Pending(i)' = Pending(i), UNCHANGED outcomes
  PROVE  BalancedAt(i)'
<1>0. /\ i \in Nat /\ begun \in Nat /\ outcomes[i] \in Nat
      /\ IsFiniteSet(Pending(i)) /\ Cardinality(Pending(i)) \in Nat
      /\ Open \in {0, 1} /\ Open' \in {0, 1} /\ BalancedAt(i)
  BY BooksTyped DEF Balanced
<1>1. Cardinality(Pending(i))' = Cardinality(Pending(i))
  OBVIOUS
<1>2. CASE ~Begins
  <2>1. begun' = begun
    BY <1>2 DEF Still, Goes, Ages, Advances
  <2>2. Open' <= Open
    <3>1. CASE Still
      BY <1>0, <3>1 DEF Still, Open
    <3>2. CASE Goes
      BY <1>0, <3>2 DEF Goes, Open
    <3>3. CASE Ages \/ \E k \in Handlers : Advances(k)
      <4>1. Open = 1
        BY <3>3 DEF Ages, Live, Advances, Matches, Open
      <4>q. QED
        BY <1>0, <4>1
    <3>q. QED
      BY <1>2, <3>1, <3>2, <3>3
  <2>q. QED
    BY <1>0, <1>1, <2>1, <2>2 DEF BalancedAt
<1>3. CASE Begins
  <2>1. begun' = begun + 1
    BY <1>3 DEF Begins
  <2>2. CASE i = begun + 1
    <3>1. outcomes[i] = 0 /\ Pending(i) = {}
      BY <1>0, <2>2 DEF BalancedAt
    <3>2. Cardinality(Pending(i)) = 0
      BY <3>1, FS_EmptySet
    <3>q. QED
      BY <1>0, <1>1, <2>1, <2>2, <3>1, <3>2 DEF BalancedAt
  <2>3. CASE i > begun + 1
    BY <1>0, <1>1, <2>1, <2>3 DEF BalancedAt
  <2>4. CASE i <= begun
    BY <1>0, <1>1, <2>1, <2>4 DEF BalancedAt
  <2>q. QED
    BY <1>0, <2>2, <2>3, <2>4
<1>q. QED
  BY <1>2, <1>3

(* A conversation ends, for the handler to create or to join. *)
LEMMA BooksFinish ==
  ASSUME IInv, Balanced, NEW i \in 1..MaxConversations,
         NEW h \in Handlers, Finish(h)
  PROVE  BalancedAt(i)'
<1>0. /\ i \in Nat /\ begun \in Nat /\ outcomes[i] \in Nat
      /\ IsFiniteSet(Pending(i)) /\ Cardinality(Pending(i)) \in Nat
      /\ Open \in {0, 1} /\ BalancedAt(i)
  BY BooksTyped DEF Balanced
<1>1. pc \in [Handlers -> Operations \union {"free"}]
  BY DEF IInv, TypeOK
<1>2. /\ \A k \in Handlers \ {h} : pc'[k] = pc[k] /\ read'[k] = read[k]
      /\ pc[h] \notin Concluding /\ pc'[h] \in Concluding /\ read'[h] = read[h]
      /\ doc # None /\ doc' = None /\ begun' = begun /\ outcomes' = outcomes
  BY <1>1 DEF Finish, Matches, Await, Concluding
<1>3. Pending(i)' = IF read[h].conversation = i THEN Pending(i) \union {h} ELSE Pending(i)
  BY <1>2, PendingBegins
<1>4. Open = 1 /\ Open' = 0
  BY <1>2 DEF Open
<1>5. CASE read[h].conversation # i
  <2>1. Cardinality(Pending(i))' = Cardinality(Pending(i))
    BY <1>3, <1>5
  <2>q. QED
    BY <1>0, <1>2, <1>3, <1>4, <1>5, <2>1 DEF BalancedAt
<1>6. CASE read[h].conversation = i
  <2>1. h \notin Pending(i)
    BY <1>2 DEF Pending, Concluding
  <2>2. /\ IsFiniteSet(Pending(i) \union {h})
        /\ Cardinality(Pending(i) \union {h}) = Cardinality(Pending(i)) + 1
    BY <1>0, <2>1, FS_AddElement
  <2>3. Cardinality(Pending(i))' = Cardinality(Pending(i)) + 1 /\ IsFiniteSet(Pending(i))'
    BY <1>3, <1>6, <2>2
  <2>4. i <= begun
    BY <1>6 DEF Finish, IInv, ControlSoundAt, Holding, StateSound
  <2>q. QED
    BY <1>0, <1>2, <1>4, <2>3, <2>4 DEF BalancedAt
<1>q. QED
  BY <1>5, <1>6

(* The handler creates or joins, or does not: it is no longer pending. *)
LEMMA BooksEnd ==
  ASSUME IInv, Balanced, NEW i \in 1..MaxConversations,
         NEW h \in Handlers, pc[h] \in Concluding, pc'[h] \notin Concluding,
         \A k \in Handlers \ {h} : pc'[k] = pc[k] /\ read'[k] = read[k],
         UNCHANGED <<doc, begun>>,
         \/ UNCHANGED outcomes
         \/ outcomes' = [outcomes EXCEPT ![read[h].conversation] = @ + 1]
  PROVE  BalancedAt(i)'
<1>0. /\ i \in Nat /\ begun \in Nat /\ outcomes[i] \in Nat
      /\ IsFiniteSet(Pending(i)) /\ Cardinality(Pending(i)) \in Nat
      /\ Open \in {0, 1} /\ Open' = Open /\ BalancedAt(i)
  BY BooksTyped DEF Balanced, Open
<1>1. Pending(i)' = IF read[h].conversation = i THEN Pending(i) \ {h} ELSE Pending(i)
  BY PendingEnds
<1>2. outcomes \in [1..MaxConversations -> Nat]
  BY DEF IInv, TypeOK
<1>3. CASE read[h].conversation # i
  <2>1. Cardinality(Pending(i))' = Cardinality(Pending(i)) /\ Pending(i)' = Pending(i)
    BY <1>1, <1>3
  <2>2. outcomes'[i] = outcomes[i]
    BY <1>2, <1>3
  <2>q. QED
    BY <1>0, <2>1, <2>2 DEF BalancedAt
<1>4. CASE read[h].conversation = i
  <2>1. h \in Pending(i)
    BY <1>4 DEF Pending, Concluding
  <2>2. /\ IsFiniteSet(Pending(i) \ {h})
        /\ Cardinality(Pending(i) \ {h}) = Cardinality(Pending(i)) - 1
    BY <1>0, <2>1, FS_RemoveElement
  <2>3. /\ Cardinality(Pending(i))' = Cardinality(Pending(i)) - 1
        /\ IsFiniteSet(Pending(i))'
    BY <1>1, <1>4, <2>2
  <2>4. outcomes'[i] <= outcomes[i] + 1 /\ outcomes'[i] \in Nat
    <3>1. CASE outcomes' = outcomes
      BY <1>0, <3>1
    <3>2. CASE outcomes' = [outcomes EXCEPT ![read[h].conversation] = @ + 1]
      <4>1. outcomes'[i] = outcomes[i] + 1
        BY <1>2, <1>4, <3>2
      <4>q. QED
        BY <1>0, <4>1
    <3>q. QED
      BY <3>1, <3>2
  <2>5. i <= begun
    BY <1>0, <2>1 DEF BalancedAt
  <2>q. QED
    BY <1>0, <2>3, <2>4, <2>5 DEF BalancedAt
<1>q. QED
  BY <1>3, <1>4

LEMMA BalanceInit == Init => Balanced
<1>1. Init => \A i \in 1..MaxConversations : Pending(i) = {}
  BY DEF Init, Pending
<1>q. QED
  BY <1>1, FS_EmptySet, BoundType DEF Init, Balanced, BalancedAt

LEMMA BalanceStep == IInv /\ Balanced /\ [Next]_vars => Balanced'
<1> SUFFICES ASSUME IInv, Balanced, [Next]_vars, NEW i \in 1..MaxConversations
             PROVE  BalancedAt(i)'
  BY DEF Balanced
<1>1. Still \/ Goes \/ Ages \/ Begins \/ \E k \in Handlers : Advances(k)
  BY DocumentMoves
<1>2. pc \in [Handlers -> Operations \union {"free"}]
  BY DEF IInv, TypeOK
<1>3. CASE UNCHANGED <<pc, read, outcomes>>
  BY <1>1, <1>3, BooksKept DEF Pending
<1>4. ASSUME NEW h \in Handlers, Handle(h) \/ Fail(h)
      PROVE  BalancedAt(i)'
  <2>1. \A k \in Handlers \ {h} : pc'[k] = pc[k] /\ read'[k] = read[k]
    BY <1>4, HandlerTurns DEF IInv, Turns
  <2>2. CASE Finish(h)
    BY <2>2, BooksFinish
  <2>3. CASE CreateOrJoin(h) \/ JoinRefused(h)
    <3>1. pc[h] \in Concluding /\ pc'[h] = "free"
      BY <1>2, <2>3 DEF CreateOrJoin, JoinRefused, Return, Await, Concluding
    <3>2. pc'[h] \notin Concluding
      BY <3>1 DEF Concluding
    <3>3. /\ UNCHANGED <<doc, begun>>
          /\ \/ UNCHANGED outcomes
             \/ outcomes' = [outcomes EXCEPT ![read[h].conversation] = @ + 1]
      BY <2>3 DEF CreateOrJoin, JoinRefused
    <3>q. QED
      BY <2>1, <3>1, <3>2, <3>3, BooksEnd
  <2>4. CASE Fail(h)
    <3>1. pc'[h] = "free" /\ pc'[h] \notin Concluding
      BY <1>2, <2>4 DEF Fail, Return, Await, Concluding
    <3>2. UNCHANGED <<doc, begun, outcomes>>
      BY <2>4 DEF Fail
    <3>3. CASE pc[h] \in Concluding
      BY <2>1, <3>1, <3>2, <3>3, BooksEnd
    <3>4. CASE pc[h] \notin Concluding
      BY <1>1, <2>1, <3>1, <3>2, <3>4, PendingStays, BooksKept
    <3>q. QED
      BY <3>3, <3>4
  <2>5. CASE /\ Handle(h) /\ ~Finish(h)
             /\ ~CreateOrJoin(h) /\ ~JoinRefused(h)
    <3>1. UNCHANGED outcomes /\ pc[h] \notin Concluding
      BY <2>5 DEF Handle, Receive, Clear, Get, ListTontines, Begin,
         BeginConflict, PreviewFound, PreviewUnknown, Advance, AdvanceConflict,
         FinishConflict, Discard, Concluding
    <3>2. pc'[h] \notin Concluding
      BY <2>5, HandlerTurns DEF IInv, Turns, Concluding
    <3>q. QED
      BY <1>1, <2>1, <3>1, <3>2, PendingStays, BooksKept
  <2>q. QED
    BY <1>4, <2>2, <2>3, <2>4, <2>5
<1>q. QED
  BY <1>3, <1>4 DEF Next, vars, Expire, TTLDelete

(* A conversation is concluded more often than once only if others have    *)
(* begun since, and at most once for each of them: every success of the    *)
(* compare-and-swap takes a document away, and only begin brings one.      *)
THEOREM OutcomesAreBounded == Spec => []OutcomesBounded
<1>1. IInv /\ Balanced => OutcomesBounded
  <2> SUFFICES ASSUME IInv, Balanced, NEW i \in 1..begun
               PROVE  outcomes[i] <= begun - i + 1
    BY DEF OutcomesBounded
  <2>1. i \in 1..MaxConversations /\ begun \in Nat /\ i <= begun /\ i \in Nat
    BY BoundType DEF IInv, TypeOK
  <2>q. QED
    BY <2>1, BooksTyped DEF Balanced, BalancedAt
<1>q. QED
  BY <1>1, BalanceInit, BalanceStep, Invariant, PTL DEF Spec
=============================================================================
