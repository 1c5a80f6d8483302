------------------------------ MODULE BotProofs ------------------------------
(***************************************************************************)
(* Proofs about Bot, for any messages, posts, handlers, failures and       *)
(* conversations.  They are proofs of composition: what is proved of       *)
(* Messaging and of Conversation holds of the bot's two halves, and only   *)
(* what ties a message to its conversation is left to show.                *)
(***************************************************************************)
EXTENDS Bot, TLAPS

MP == INSTANCE MessagingProofs WITH pc <- mpc, TextMessages <- Events
CP == INSTANCE ConversationProofs WITH pc <- cpc,
        Texts <- {TextOf[e] : e \in Events}

Event(h) == Head(left[h])

Untouched(e) == moves[e] = 0 /\ results[e] = 0 /\ reply[e] = None

(* The answer to e says what e has done. *)
Consistent(e) ==
  /\ reply[e] = "conflict" => moves[e] = 0 /\ results[e] = 0
  /\ reply[e] = "done" => moves[e] = 1 /\ results[e] = 1
  /\ reply[e] \in {"asked", "refused"} => moves[e] = 1 /\ results[e] = 0
  /\ reply[e] = "told" => results[e] = 0

EventSound(e) ==
  /\ moves[e] \in {0, 1} /\ results[e] \in {0, 1}
  /\ status[e] = None => Untouched(e)
  /\ moves[e] + results[e] > 0 => e \in inbound
  /\ delivered[e] > 0 => reply[e] # None
  /\ Consistent(e)

(* How far a message has got, where its handler stands.  A composer about  *)
(* to create or to join has closed the conversation, nothing else before   *)
(* its last operation changes anything.                                    *)
HandlerSound(h) ==
  /\ cpc[h] # "free" => mpc[h] = "compose"
  /\ mpc[h] \in {"ignore", "store_inbound"} => Untouched(Event(h))
  /\ mpc[h] = "compose" =>
       /\ results[Event(h)] = 0 /\ reply[Event(h)] = None
       /\ moves[Event(h)] = IF cpc[h] \in {"create", "join"} THEN 1 ELSE 0
  /\ mpc[h] \in {"send", "store_outbound", "mark_replied", "mark_failed"} =>
       reply[Event(h)] # None

HistoryTyped ==
  /\ moves \in [Events -> Nat]
  /\ results \in [Events -> Nat]
  /\ reply \in [Events -> Replies \union {None}]

HistorySound ==
  /\ HistoryTyped
  /\ \A e \in Events : EventSound(e)
  /\ \A h \in Handlers : HandlerSound(h)

IInv == MP!IInv /\ CP!IInv /\ HistorySound
-----------------------------------------------------------------------------
(* The halves of the bot are the modules proved about.                     *)
LEMMA SameMessaging ==
  /\ M!Init <=> MP!Init
  /\ [M!Next]_(M!vars) <=> [MP!Next]_(MP!vars)
<1>1. M!Init <=> MP!Init
  BY DEF M!Init, MP!Init, M!Idle, MP!Idle
<1>2. UNCHANGED M!vars <=> UNCHANGED MP!vars
  BY DEF M!vars, MP!vars
<1>3. M!Next <=> MP!Next
  BY Zenon DEF M!database, MP!database, M!effects, MP!effects, M!process,
     MP!process, M!Idle, MP!Idle, M!StartReady, MP!StartReady,
     M!StartNotReady, MP!StartNotReady, M!Down, MP!Down, M!Stop, MP!Stop,
     M!Crash, MP!Crash, M!Post, MP!Post, M!Event, MP!Event, M!Await, MP!Await,
     M!Respond, MP!Respond, M!NextEvent, MP!NextEvent, M!FirstOperation,
     MP!FirstOperation, M!Claim, MP!Claim, M!Duplicate, MP!Duplicate, M!Mark,
     MP!Mark, M!Ignore, MP!Ignore, M!StoreInbound, MP!StoreInbound, M!Compose,
     MP!Compose, M!Sent, MP!Sent, M!SendAccepted, MP!SendAccepted,
     M!SendRefused, MP!SendRefused, M!SendUncertain, MP!SendUncertain,
     M!StoreOutbound, MP!StoreOutbound, M!MarkReplied, MP!MarkReplied,
     M!MarkFailed, MP!MarkFailed, M!PerhapsDone, MP!PerhapsDone, M!Fail,
     MP!Fail, M!Handle, MP!Handle, M!Next, MP!Next
<1>q. QED
  BY <1>1, <1>2, <1>3

LEMMA SameConversation ==
  /\ C!Init <=> CP!Init
  /\ \A h \in Handlers : C!Handle(h) <=> CP!Handle(h)
  /\ \A h \in Handlers : C!Fail(h) <=> CP!Fail(h)
  /\ C!Expire \/ C!TTLDelete <=> CP!Expire \/ CP!TTLDelete
<1>1. C!Init <=> CP!Init
  BY DEF C!Init, CP!Init
<1>2. ASSUME NEW h \in Handlers
      PROVE  C!Handle(h) <=> CP!Handle(h)
  <2>1. C!GlobalKeywords = CP!GlobalKeywords /\ C!MenuKeywords = CP!MenuKeywords
    BY DEF C!GlobalKeywords, CP!GlobalKeywords, C!MenuKeywords, CP!MenuKeywords
  <2>2. \A t : C!GlobalCommand(t) = CP!GlobalCommand(t)
    BY <2>1 DEF C!GlobalCommand, CP!GlobalCommand, C!Lookup, CP!Lookup
  <2>3. \A t : C!MenuCommand(t) = CP!MenuCommand(t)
    BY <2>1, <2>2 DEF C!MenuCommand, CP!MenuCommand, C!Lookup, CP!Lookup
  <2>4. \A s, t : C!Accepts(s, t) <=> CP!Accepts(s, t)
    BY DEF C!Accepts, CP!Accepts, C!IsName, CP!IsName, C!IsAmount,
       CP!IsAmount, C!IsFrequency, CP!IsFrequency, C!IsMembers, CP!IsMembers,
       C!IsInviteCode, CP!IsInviteCode, C!Numerals, CP!Numerals,
       C!FrequencyChoices, CP!FrequencyChoices, C!InviteCodes, CP!InviteCodes
  <2>5. \A t : C!AtRest(t) = CP!AtRest(t)
    BY <2>3 DEF C!AtRest, CP!AtRest
  <2>6. \A s, t : C!InWorkflow(s, t) = CP!InWorkflow(s, t)
    BY <2>4 DEF C!InWorkflow, CP!InWorkflow, C!DraftValid, CP!DraftValid,
       C!IsConfirmation, CP!IsConfirmation, C!ConfirmWords, CP!ConfirmWords,
       C!Work!Asks, CP!Work!Asks
  <2>7. \A t : C!Restarted(t) = CP!Restarted(t)
    BY <2>3 DEF C!Restarted, CP!Restarted
  <2>8. C!Filled(h) = CP!Filled(h)
    BY DEF C!Filled, CP!Filled, C!IsDraftAmount, CP!IsDraftAmount, C!IsAmount,
       CP!IsAmount, C!MaxAmount, CP!MaxAmount, C!Numerals, CP!Numerals,
       C!Work!Asks, CP!Work!Asks
  <2>9. C!Live = CP!Live /\ (C!Matches(h) <=> CP!Matches(h))
    BY DEF C!Live, CP!Live, C!Matches, CP!Matches
  <2>10. C!Receive(h) <=> CP!Receive(h)
    BY <2>2 DEF C!Receive, CP!Receive, C!Await, CP!Await
  <2>11. C!Get(h) <=> CP!Get(h)
    BY <2>5, <2>6, <2>9 DEF C!Get, CP!Get, C!Await, CP!Await, C!Return,
       CP!Return
  <2>12. C!Begin(h) <=> CP!Begin(h)
    BY <2>7, <2>9 DEF C!Begin, CP!Begin, C!Await, CP!Await, C!Return, CP!Return
  <2>13. C!Advance(h) <=> CP!Advance(h)
    BY <2>8, <2>9 DEF C!Advance, CP!Advance, C!Await, CP!Await, C!Return,
       CP!Return, C!Work!Asks, CP!Work!Asks, C!Work!Follows, CP!Work!Follows
  <2>14. /\ C!ListTontines(h) <=> CP!ListTontines(h)
         /\ C!BeginConflict(h) <=> CP!BeginConflict(h)
         /\ C!PreviewFound(h) <=> CP!PreviewFound(h)
         /\ C!PreviewUnknown(h) <=> CP!PreviewUnknown(h)
         /\ C!AdvanceConflict(h) <=> CP!AdvanceConflict(h)
         /\ C!Finish(h) <=> CP!Finish(h)
         /\ C!FinishConflict(h) <=> CP!FinishConflict(h)
         /\ C!CreateOrJoin(h) <=> CP!CreateOrJoin(h)
         /\ C!JoinRefused(h) <=> CP!JoinRefused(h)
         /\ C!Discard(h) <=> CP!Discard(h)
         /\ C!Clear(h) <=> CP!Clear(h)
    BY <2>9 DEF C!ListTontines, CP!ListTontines, C!BeginConflict,
       CP!BeginConflict, C!PreviewFound, CP!PreviewFound, C!PreviewUnknown,
       CP!PreviewUnknown, C!AdvanceConflict, CP!AdvanceConflict, C!Finish,
       CP!Finish, C!FinishConflict, CP!FinishConflict, C!CreateOrJoin,
       CP!CreateOrJoin, C!JoinRefused, CP!JoinRefused, C!Discard, CP!Discard,
       C!Clear, CP!Clear, C!Await, CP!Await, C!Return, CP!Return
  <2>q. QED
    BY <2>10, <2>11, <2>12, <2>13, <2>14 DEF C!Handle, CP!Handle
<1>3. ASSUME NEW h \in Handlers
      PROVE  C!Fail(h) <=> CP!Fail(h)
  BY DEF C!Fail, CP!Fail, C!Return, CP!Return, C!Await, CP!Await
<1>4. C!Expire \/ C!TTLDelete <=> CP!Expire \/ CP!TTLDelete
  BY DEF C!Expire, CP!Expire, C!Live, CP!Live, C!TTLDelete, CP!TTLDelete
<1>q. QED
  BY <1>1, <1>2, <1>3, <1>4

-----------------------------------------------------------------------------
(* The assumptions of the two halves follow from the bot's. *)
LEMMA Assumptions ==
  /\ Events \subseteq Events /\ Batches \subseteq Seq(Events) \ {<<>>}
  /\ MaxFaults \in Nat /\ MaxConversations \in Nat
  /\ None \notin {"RECEIVED", "IGNORED", "REPLIED", "REPLY_FAILED"}
  /\ None \notin Replies
  /\ None \notin CP!Steps \union CP!Documents
<1>1. C!Steps = CP!Steps /\ C!Documents = CP!Documents
  BY DEF C!Steps, CP!Steps, C!Documents, CP!Documents, C!Answers, CP!Answers,
         C!Fields, CP!Fields
<1>q. QED
  BY <1>1, BotAssumption DEF M!Final

LEMMA MessagingStep ==
  ASSUME [Next]_vars
  PROVE  [M!Next]_(M!vars)
<1>1. CASE UNCHANGED messaging
  BY <1>1 DEF messaging, M!vars
<1>2. CASE Restart
  BY <1>2 DEF Restart, M!Next
<1>3. ASSUME NEW h \in Handlers,
             Post(h) \/ Webhook(h) \/ ComposerHelps(h) \/ ComposerReplies(h)
               \/ WebhookFails(h) \/ ComposerFails(h)
      PROVE  M!Next
  BY <1>3 DEF Post, Webhook, ComposerHelps, ComposerReplies, WebhookFails,
              ComposerFails, M!Next, M!Handle
<1>q. QED
  BY <1>1, <1>2, <1>3 DEF Next, vars, Time, Handle, ComposerStarts,
     ComposerGoesOn

LEMMA ConversationStep ==
  ASSUME [Next]_vars
  PROVE  \/ UNCHANGED conversation
         \/ Killed
         \/ C!Expire \/ C!TTLDelete
         \/ \E h \in Handlers : C!Handle(h) \/ C!Fail(h)
<1>1. CASE Restart
  BY <1>1 DEF Restart
<1>2. CASE Time
  BY <1>2 DEF Time
<1>3. ASSUME NEW h \in Handlers,
             Post(h) \/ Webhook(h) \/ ComposerHelps(h) \/ WebhookFails(h)
      PROVE  UNCHANGED conversation
  BY <1>3 DEF Post, Webhook, ComposerHelps, WebhookFails
<1>4. ASSUME NEW h \in Handlers,
             ComposerStarts(h) \/ ComposerGoesOn(h) \/ ComposerReplies(h)
               \/ ComposerFails(h)
      PROVE  C!Handle(h) \/ C!Fail(h)
  BY <1>4 DEF ComposerStarts, ComposerGoesOn, ComposerReplies, ComposerFails,
              C!Handle
<1>q. QED
  BY <1>1, <1>2, <1>3, <1>4 DEF Next, vars, Handle

(* The coroutines of the composer may die at any time. *)
LEMMA KilledKeeps == CP!IInv /\ Killed => CP!IInv'
<1> SUFFICES ASSUME CP!IInv, Killed PROVE CP!IInv'
  OBVIOUS
<1>1. CP!TypeOK'
  BY DEF CP!IInv, CP!TypeOK, Killed
<1>2. \A h \in Handlers : CP!ControlSoundAt(h)'
  BY DEF Killed, CP!ControlSoundAt, CP!Holding
<1>3. \A h \in Handlers : CP!StateSound(read[h])'
  BY DEF Killed, CP!StateSound
<1>4. CP!StateSound(doc)' /\ CP!NewestStored'
  BY DEF CP!IInv, Killed, CP!StateSound, CP!NewestStored
<1>q. QED
  BY <1>1, <1>2, <1>3, <1>4 DEF CP!IInv

LEMMA HalvesInit == Init => MP!IInv /\ CP!IInv
<1>1. Init => MP!Init /\ CP!Init
  BY SameMessaging, SameConversation DEF Init
<1>2. MP!Init => MP!IInv
  BY Assumptions, MP!InitIInv
<1>3. CP!Init => CP!IInv
  BY Assumptions, CP!InvariantInit
<1>q. QED
  BY <1>1, <1>2, <1>3

LEMMA HalvesStep == MP!IInv /\ CP!IInv /\ [Next]_vars => MP!IInv' /\ CP!IInv'
<1> SUFFICES ASSUME MP!IInv, CP!IInv, [Next]_vars PROVE MP!IInv' /\ CP!IInv'
  OBVIOUS
<1>1. MP!IInv'
  <2>1. [MP!Next]_(MP!vars)
    BY MessagingStep, SameMessaging
  <2>2. MP!IInv /\ [MP!Next]_(MP!vars) => MP!IInv'
    BY Assumptions, MP!StepIInv
  <2>q. QED
    BY <2>1, <2>2
<1>2. CP!IInv'
  <2>1. CP!IInv /\ [CP!Next]_(CP!vars) => CP!IInv'
    BY Assumptions, CP!InvariantStep
  <2>2. CASE UNCHANGED conversation
    BY <2>1, <2>2 DEF conversation, CP!vars
  <2>3. CASE Killed
    BY <2>3, KilledKeeps
  <2>4. CASE C!Expire \/ C!TTLDelete \/ \E h \in Handlers : C!Handle(h) \/ C!Fail(h)
    BY <2>1, <2>4, SameConversation DEF CP!Next
  <2>q. QED
    BY <2>2, <2>3, <2>4, ConversationStep
<1>q. QED
  BY <1>1, <1>2

-----------------------------------------------------------------------------
LEMMA WebhookTyped ==
  ASSUME MP!IInv
  PROVE  /\ mpc \in [Handlers -> MP!Treatment \union {"free", "claim"}]
         /\ status \in [Events -> MP!Statuses]
         /\ delivered \in [Events -> Nat]
         /\ left \in [Handlers -> Seq(Events)]
         /\ \A h \in Handlers : mpc[h] # "free" =>
              Event(h) \in Events /\ left[h] # <<>> /\ indexed
BY DEF MP!IInv, MP!TypeOK, MP!Gated, Event

LEMMA ComposerTyped ==
  ASSUME CP!IInv
  PROVE  cpc \in [Handlers -> CP!Operations \union {"free"}]
BY DEF CP!IInv, CP!TypeOK

(* The message whose reply is being composed is stored and has no other    *)
(* handler.                                                                *)
LEMMA AtCompose ==
  ASSUME MP!IInv, NEW h \in Handlers, mpc[h] = "compose"
  PROVE  /\ Event(h) \in Events /\ Event(h) \in inbound
         /\ status[Event(h)] # None /\ delivered[Event(h)] = 0
         /\ \A k \in Handlers \ {h} :
              mpc[k] \in MP!Treatment => Event(k) # Event(h)
<1>1. mpc[h] \in MP!Treatment
  BY DEF MP!Treatment
<1>2. MP!DoneAt(Event(h), mpc[h])
  BY <1>1 DEF MP!IInv, MP!HandlersSound, MP!Event, Event
<1>3. \A k \in Handlers \ {h} : mpc[k] \in MP!Treatment => Event(k) # Event(h)
  BY <1>1 DEF MP!IInv, MP!OneHandler, MP!Event, Event
<1>q. QED
  BY <1>2, <1>3, WebhookTyped, Assumptions DEF MP!DoneAt

(* The webhook, the process and the time add nothing to the history: what  *)
(* is recorded only has to stay recorded, and a reply to be known.         *)
LEMMA HistoryKept ==
  ASSUME HistorySound, UNCHANGED history,
         \A e \in Events : status'[e] = None => status[e] = None,
         inbound \subseteq inbound',
         \A e \in Events : delivered'[e] > 0 => delivered[e] > 0 \/ reply[e] # None,
         \A h \in Handlers : HandlerSound(h)'
  PROVE  HistorySound'
<1>1. HistoryTyped'
  BY DEF HistorySound, HistoryTyped, history
<1>2. ASSUME NEW e \in Events PROVE EventSound(e)'
  <2>1. EventSound(e) /\ UNCHANGED <<moves, results, reply>>
    BY DEF HistorySound, history
  <2>q. QED
    BY <2>1 DEF EventSound, Untouched, Consistent
<1>q. QED
  BY <1>1, <1>2 DEF HistorySound

LEMMA HandlerKept ==
  ASSUME NEW k \in Handlers, HandlerSound(k), UNCHANGED history,
         mpc'[k] = mpc[k], left'[k] = left[k], cpc'[k] = cpc[k]
  PROVE  HandlerSound(k)'
BY DEF HandlerSound, history, Untouched, Event

LEMMA HandlerIdle ==
  ASSUME NEW k \in Handlers, mpc'[k] \in {"free", "claim"}, cpc'[k] = "free"
  PROVE  HandlerSound(k)'
BY DEF HandlerSound

LEMMA WebhookKeeps ==
  ASSUME IInv, NEW h \in Handlers, Webhook(h)
  PROVE  HistorySound'
<1> DEFINE e == Event(h)
<1>0. /\ HistorySound /\ UNCHANGED history /\ UNCHANGED cpc
      /\ mpc \in [Handlers -> MP!Treatment \union {"free", "claim"}]
      /\ status \in [Events -> MP!Statuses]
      /\ delivered \in [Events -> Nat]
      /\ left \in [Handlers -> Seq(Events)]
      /\ mpc[h] # "free" => e \in Events /\ indexed
  BY WebhookTyped DEF IInv, Webhook, conversation
<1>1. EventSound(e) \/ e \notin Events
  BY <1>0 DEF HistorySound
<1>2. HandlerSound(h) /\ (mpc[h] # "compose" /\ cpc[h] = "free")
  BY <1>0 DEF HistorySound, Webhook, HandlerSound
<1>3. SUFFICES
        /\ \A k \in Handlers \ {h} : mpc'[k] = mpc[k] /\ left'[k] = left[k]
        /\ HandlerSound(h)'
        /\ \A x \in Events : status'[x] = None => status[x] = None
        /\ inbound \subseteq inbound'
        /\ \A x \in Events : delivered'[x] > 0 => delivered[x] > 0 \/ reply[x] # None
  <2>1. ASSUME NEW k \in Handlers, k # h, mpc'[k] = mpc[k], left'[k] = left[k]
        PROVE  HandlerSound(k)'
    BY <1>0, <2>1, HandlerKept DEF HistorySound
  <2>q. QED
    BY <1>0, <2>1, HistoryKept
<1>4. CASE M!Claim(h)
  <2>1. status[e] = None /\ e \in Events
    BY <1>0, <1>4 DEF M!Claim, M!Event, Event
  <2>2. Untouched(e)
    BY <1>1, <2>1 DEF EventSound
  <2>3. /\ mpc'[h] \in {"ignore", "store_inbound"} /\ left' = left
        /\ \A k \in Handlers \ {h} : mpc'[k] = mpc[k]
    BY <1>0, <1>4 DEF M!Claim, M!Await, M!FirstOperation
  <2>4. HandlerSound(h)'
    BY <1>0, <1>2, <2>2, <2>3 DEF HandlerSound, Event, Untouched, history
  <2>q. QED
    BY <1>0, <1>4, <2>1, <2>3, <2>4 DEF M!Claim, M!effects
<1>5. CASE M!Duplicate(h) \/ M!Ignore(h) \/ M!MarkReplied(h) \/ M!MarkFailed(h)
  <2>1. /\ mpc'[h] \in {"free", "claim"}
        /\ \A k \in Handlers \ {h} : mpc'[k] = mpc[k] /\ left'[k] = left[k]
    BY <1>0, <1>5 DEF M!Duplicate, M!Ignore, M!MarkReplied, M!MarkFailed,
                      M!Mark, M!NextEvent, M!Respond
  <2>2. HandlerSound(h)'
    BY <1>0, <1>2, <2>1, HandlerIdle
  <2>3. \A x \in Events : status'[x] = None => status[x] = None
    BY <1>0, <1>5, Assumptions DEF M!Duplicate, M!Ignore, M!MarkReplied,
       M!MarkFailed, M!Mark, M!Event, Event, M!database
  <2>4. UNCHANGED <<inbound, delivered>>
    BY <1>5 DEF M!Duplicate, M!Ignore, M!MarkReplied, M!MarkFailed, M!Mark,
                M!database, M!effects
  <2>q. QED
    BY <2>1, <2>2, <2>3, <2>4
<1>6. CASE M!StoreInbound(h)
  <2>1. /\ mpc[h] = "store_inbound" /\ mpc'[h] = "compose" /\ left' = left
        /\ \A k \in Handlers \ {h} : mpc'[k] = mpc[k]
        /\ inbound \subseteq inbound' /\ UNCHANGED <<status, delivered>>
    BY <1>0, <1>6 DEF M!StoreInbound, M!Await, M!effects
  <2>2. HandlerSound(h)'
    BY <1>0, <1>2, <2>1 DEF HandlerSound, Untouched, Event, history
  <2>q. QED
    BY <2>1, <2>2
<1>7. CASE \/ M!SendAccepted(h) \/ M!SendRefused(h) \/ M!SendUncertain(h)
           \/ M!StoreOutbound(h)
  <2>1. /\ mpc[h] \in {"send", "store_outbound"}
        /\ mpc'[h] \in {"store_outbound", "mark_replied", "mark_failed"}
        /\ left' = left
        /\ \A k \in Handlers \ {h} : mpc'[k] = mpc[k]
        /\ UNCHANGED <<status, inbound>>
    BY <1>0, <1>7 DEF M!SendAccepted, M!SendRefused, M!SendUncertain,
                      M!StoreOutbound, M!Await, M!database, M!effects
  <2>2. reply[e] # None
    BY <1>2, <2>1 DEF HandlerSound
  <2>3. HandlerSound(h)'
    BY <1>0, <1>2, <2>1, <2>2 DEF HandlerSound, Event, history
  <2>4. delivered' = delivered \/ delivered' = [delivered EXCEPT ![e] = @ + 1]
    BY <1>7 DEF M!SendAccepted, M!SendRefused, M!SendUncertain, M!Sent,
                M!StoreOutbound, M!Event, Event, M!effects
  <2>5. \A x \in Events : delivered'[x] > 0 => delivered[x] > 0 \/ reply[x] # None
    BY <1>0, <2>2, <2>4
  <2>q. QED
    BY <2>1, <2>3, <2>5
<1>8. M!Handle(h) /\ ~M!Compose(h)
  BY <1>2 DEF Webhook, M!Compose
<1>q. QED
  BY <1>4, <1>5, <1>6, <1>7, <1>8 DEF M!Handle

LEMMA PostKeeps ==
  ASSUME IInv, NEW h \in Handlers, Post(h) \/ WebhookFails(h)
  PROVE  HistorySound'
<1>0. /\ HistorySound /\ UNCHANGED history /\ UNCHANGED cpc
      /\ mpc \in [Handlers -> MP!Treatment \union {"free", "claim"}]
      /\ status \in [Events -> MP!Statuses]
      /\ left \in [Handlers -> Seq(Events)]
      /\ mpc[h] # "free" => Event(h) \in Events
  BY WebhookTyped DEF IInv, Post, WebhookFails, conversation
<1>1. HandlerSound(h)
  BY <1>0 DEF HistorySound
<1>2. cpc[h] = "free"
  BY <1>1 DEF HandlerSound, Post, M!Post, WebhookFails
<1>3. /\ mpc'[h] \in {"free", "claim"}
      /\ \A k \in Handlers \ {h} : mpc'[k] = mpc[k] /\ left'[k] = left[k]
      /\ UNCHANGED delivered
  BY <1>0 DEF Post, M!Post, WebhookFails, M!Fail, M!Respond, M!effects
<1>4. inbound \subseteq inbound'
  BY DEF Post, M!Post, WebhookFails, M!Fail, M!PerhapsDone, M!database
<1>5. \A e \in Events : status'[e] = None => status[e] = None
  <2>1. CASE UNCHANGED status
    BY <2>1
  <2>2. CASE \E final \in {"RECEIVED", "IGNORED", "REPLIED", "REPLY_FAILED"} :
               status' = [status EXCEPT ![Event(h)] = final]
    BY <1>0, <2>2, Assumptions
  <2>q. QED
    BY <2>1, <2>2 DEF Post, M!Post, WebhookFails, M!Fail, M!PerhapsDone,
                      M!database, M!Event, Event
<1>6. HandlerSound(h)'
  BY <1>0, <1>2, <1>3, HandlerIdle
<1>7. ASSUME NEW k \in Handlers PROVE HandlerSound(k)'
  <2>1. CASE k = h
    BY <1>6, <2>1
  <2>2. CASE k # h
    BY <1>0, <1>3, <2>2, HandlerKept DEF HistorySound
  <2>q. QED
    BY <2>1, <2>2
<1>q. QED
  BY <1>0, <1>3, <1>4, <1>5, <1>7, HistoryKept

LEMMA RestartKeeps ==
  ASSUME IInv, Restart
  PROVE  HistorySound'
<1>0. HistorySound /\ UNCHANGED <<history, status, inbound, delivered>>
  BY DEF IInv, Restart, M!StartReady, M!StartNotReady, M!Stop, M!Crash, M!Down,
         M!database, M!effects
<1>1. CASE UNCHANGED <<mpc, left, cpc>>
  <2>1. \A k \in Handlers : HandlerSound(k)'
    BY <1>0, <1>1, HandlerKept DEF HistorySound
  <2>q. QED
    BY <1>0, <2>1, HistoryKept
<1>2. CASE (M!Stop \/ M!Crash) /\ Killed
  <2>1. \A k \in Handlers : mpc'[k] = "free" /\ cpc'[k] = "free"
    BY <1>2 DEF M!Stop, M!Crash, M!Down, Killed
  <2>2. \A k \in Handlers : HandlerSound(k)'
    BY <2>1, HandlerIdle
  <2>q. QED
    BY <1>0, <2>2, HistoryKept
<1>q. QED
  BY <1>1, <1>2 DEF Restart, M!StartReady, M!StartNotReady, conversation

LEMMA TimeKeeps ==
  ASSUME IInv, Time
  PROVE  HistorySound'
<1>1. UNCHANGED <<mpc, left, cpc, history, status, inbound, delivered>>
  BY DEF Time, C!Expire, C!TTLDelete, messaging
<1>2. \A k \in Handlers : HandlerSound(k)'
  BY <1>1, HandlerKept DEF IInv, HistorySound
<1>q. QED
  BY <1>1, <1>2, HistoryKept DEF IInv

-----------------------------------------------------------------------------
(* The steps of a composer, by what they change.                           *)
LEMMA ComposerTurns ==
  ASSUME IInv, NEW h \in Handlers, C!Handle(h) \/ C!Fail(h)
  PROVE  /\ \A k \in Handlers \ {h} : cpc'[k] = cpc[k]
         /\ C!Fail(h) => UNCHANGED <<doc, outcomes>>
         /\ C!Fail(h) => cpc'[h] = "free"
         /\ C!Receive(h) => cpc'[h] \in {"get", "clear"}
<1>0. cpc \in [Handlers -> CP!Operations \union {"free"}]
  BY ComposerTyped DEF IInv
<1>1. /\ C!Fail(h) => UNCHANGED <<doc, outcomes>>
      /\ C!Fail(h) => cpc'[h] = "free"
      /\ C!Receive(h) => cpc'[h] \in {"get", "clear"}
  BY <1>0 DEF C!Fail, C!Return, C!Await, C!Receive
<1>2. CP!Turns(h)
  <2>1. CP!Handle(h) \/ CP!Fail(h)
    BY SameConversation
  <2>q. QED
    BY <2>1, CP!HandlerTurns, Assumptions DEF IInv, CP!IInv
<1>q. QED
  BY <1>1, <1>2 DEF CP!Turns

LEMMA ComposerChanges ==
  ASSUME IInv, NEW h \in Handlers, C!Handle(h), cpc[h] # "free"
  PROVE  /\ cpc[h] \in {"create", "join"} => doc' = doc /\ cpc'[h] = "free"
         /\ cpc[h] \notin {"create", "join"} => outcomes' = outcomes
         /\ cpc'[h] \in {"create", "join"} => doc' # doc
         /\ cpc'[h] \notin {"create", "join", "free"} => doc' = doc
<1>0. cpc \in [Handlers -> CP!Operations \union {"free"}]
  BY ComposerTyped DEF IInv
<1>1. CASE \/ C!Get(h) \/ C!ListTontines(h) \/ C!BeginConflict(h)
           \/ C!PreviewFound(h) \/ C!PreviewUnknown(h)
           \/ C!AdvanceConflict(h) \/ C!FinishConflict(h)
  <2>1. UNCHANGED <<doc, outcomes>> /\ cpc[h] \notin {"create", "join"}
    BY <1>1 DEF C!Get, C!ListTontines, C!BeginConflict, C!PreviewFound,
                C!PreviewUnknown, C!AdvanceConflict, C!FinishConflict
  <2>2. cpc'[h] \notin {"create", "join"}
    <3>1. ~C!Finish(h)
      BY <1>1 DEF C!Get, C!ListTontines, C!BeginConflict, C!PreviewFound,
                  C!PreviewUnknown, C!AdvanceConflict, C!FinishConflict,
                  C!Finish
    <3>2. CP!Turns(h)
      <4>1. CP!Handle(h)
        BY SameConversation
      <4>q. QED
        BY <4>1, CP!HandlerTurns, Assumptions DEF IInv, CP!IInv
    <3>3. ~CP!Finish(h)
      BY <3>1 DEF C!Finish, CP!Finish, C!Matches, CP!Matches, C!Await, CP!Await
    <3>q. QED
      BY <3>2, <3>3 DEF CP!Turns
  <2>q. QED
    BY <2>1, <2>2
<1>2. CASE C!Clear(h) \/ C!Begin(h) \/ C!Advance(h) \/ C!Discard(h)
  BY <1>0, <1>2 DEF C!Clear, C!Begin, C!Advance, C!Discard, C!Return, C!Await
<1>3. CASE C!CreateOrJoin(h) \/ C!JoinRefused(h)
  BY <1>0, <1>3 DEF C!CreateOrJoin, C!JoinRefused, C!Return, C!Await
<1>4. CASE C!Finish(h)
  BY <1>0, <1>4 DEF C!Finish, C!Matches, C!Await
<1>q. QED
  BY <1>1, <1>2, <1>3, <1>4 DEF C!Handle, C!Receive

-----------------------------------------------------------------------------
(* A step of the composer of h concerns the message of h and no other.     *)
LEMMA OneMessage ==
  ASSUME IInv, NEW h \in Handlers, mpc[h] = "compose",
         HistoryTyped',
         \A k \in Handlers \ {h} :
           mpc'[k] = mpc[k] /\ left'[k] = left[k] /\ cpc'[k] = cpc[k],
         NEW e \in Events, e = Event(h),
         \A x \in Events \ {e} :
           moves'[x] = moves[x] /\ results'[x] = results[x] /\ reply'[x] = reply[x],
         UNCHANGED <<status, inbound, delivered>>,
         EventSound(e)', HandlerSound(h)'
  PROVE  HistorySound'
<1>1. /\ Event(h) \in Events
      /\ \A k \in Handlers \ {h} :
           mpc[k] \in MP!Treatment => Event(k) # Event(h)
  BY AtCompose DEF IInv
<1>2. ASSUME NEW x \in Events, x # e PROVE EventSound(x)'
  <2>1. EventSound(x)
    BY DEF IInv, HistorySound
  <2>q. QED
    BY <1>2, <2>1 DEF EventSound, Untouched, Consistent
<1>3. \A x \in Events : EventSound(x)'
  BY <1>2
<1>4. ASSUME NEW k \in Handlers, k # h PROVE HandlerSound(k)'
  <2>1. HandlerSound(k) /\ mpc'[k] = mpc[k] /\ Event(k)' = Event(k) /\ cpc'[k] = cpc[k]
    BY <1>4 DEF IInv, HistorySound, Event
  <2>2. CASE mpc[k] \in MP!Treatment
    <3>1. Event(k) \in Events \ {Event(h)}
      <4>1. mpc[k] # "free"
        BY <2>2 DEF MP!Treatment
      <4>q. QED
        BY <1>1, <1>4, <2>2, <4>1, WebhookTyped DEF IInv
    <3>2. /\ moves'[Event(k)] = moves[Event(k)] /\ results'[Event(k)] = results[Event(k)]
          /\ reply'[Event(k)] = reply[Event(k)]
      BY <3>1
    <3>q. QED
      BY <2>1, <3>2 DEF HandlerSound, Untouched
  <2>3. CASE mpc[k] \notin MP!Treatment
    BY <2>1, <2>3 DEF HandlerSound, MP!Treatment
  <2>q. QED
    BY <2>2, <2>3
<1>q. QED
  BY <1>3, <1>4 DEF HistorySound

(* What holds of the message of h before such a step. *)
LEMMA BeforeStep ==
  ASSUME IInv, NEW h \in Handlers, mpc[h] = "compose"
  PROVE  /\ Event(h) \in Events /\ Event(h) \in inbound
         /\ status[Event(h)] # None /\ delivered[Event(h)] = 0
         /\ M!Event(h) = Event(h)
         /\ moves \in [Events -> Nat] /\ results \in [Events -> Nat]
         /\ reply \in [Events -> Replies \union {None}]
         /\ results[Event(h)] = 0 /\ reply[Event(h)] = None
         /\ moves[Event(h)] = IF cpc[h] \in {"create", "join"} THEN 1 ELSE 0
BY AtCompose DEF IInv, HistorySound, HistoryTyped, HandlerSound, M!Event, Event

LEMMA StartKeeps ==
  ASSUME IInv, NEW h \in Handlers, ComposerStarts(h)
  PROVE  HistorySound'
<1>0. mpc[h] = "compose" /\ UNCHANGED <<messaging, history>> /\ C!Receive(h)
  BY DEF ComposerStarts
<1>1. cpc[h] = "free" /\ C!Handle(h)
  BY <1>0 DEF C!Receive, C!Handle
<1>2. cpc'[h] \in {"get", "clear"} /\ \A k \in Handlers \ {h} : cpc'[k] = cpc[k]
  BY <1>0, <1>1, ComposerTurns
<1>3. HandlerSound(h)'
  BY <1>0, <1>1, <1>2, BeforeStep DEF HandlerSound, Event, messaging, history
<1>e. PICK e \in Events : e = Event(h)
  BY <1>0, BeforeStep
<1>4. EventSound(e)'
  <2>1. EventSound(e)
    BY DEF IInv, HistorySound
  <2>q. QED
    BY <1>0, <2>1 DEF EventSound, Untouched, Consistent, messaging, history
<1>5. HistoryTyped'
  BY <1>0 DEF IInv, HistorySound, HistoryTyped, history
<1>q. QED
  BY <1>0, <1>e, <1>2, <1>3, <1>4, <1>5, OneMessage DEF messaging, history

LEMMA HelpKeeps ==
  ASSUME IInv, NEW h \in Handlers, ComposerHelps(h)
  PROVE  HistorySound'
<1>0. /\ mpc[h] = "compose" /\ cpc[h] = "free"
      /\ UNCHANGED <<conversation, moves, results, status, inbound, delivered, left>>
      /\ reply' = [reply EXCEPT ![M!Event(h)] = "told"]
      /\ mpc' = [mpc EXCEPT ![h] = "send"]
  BY DEF ComposerHelps, M!Compose, M!Await, M!database
<1>e. PICK e \in Events : e = Event(h)
  BY <1>0, BeforeStep
<1>1. mpc'[h] = "send" /\ \A k \in Handlers \ {h} : mpc'[k] = mpc[k]
  BY <1>0, WebhookTyped DEF IInv
<1>2. reply'[e] = "told" /\ \A x \in Events \ {e} : reply'[x] = reply[x]
  BY <1>0, <1>e, BeforeStep
<1>3. "told" # None /\ "told" \in Replies
  BY Assumptions DEF Replies
<1>4. EventSound(e)'
  BY <1>0, <1>e, <1>2, <1>3, BeforeStep DEF EventSound, Untouched, Consistent
<1>5. HandlerSound(h)'
  BY <1>0, <1>e, <1>1, <1>2, <1>3 DEF HandlerSound, Event, conversation
<1>6. HistoryTyped'
  BY <1>0, <1>3, BeforeStep DEF HistoryTyped
<1>q. QED
  BY <1>0, <1>e, <1>1, <1>2, <1>4, <1>5, <1>6, OneMessage DEF conversation

(* How a step is put down to the message. *)
LEMMA AttributedStep ==
  ASSUME IInv, NEW h \in Handlers, mpc[h] = "compose", Attributed(h)
  PROVE  /\ moves' \in [Events -> Nat] /\ results' \in [Events -> Nat]
         /\ moves'[Event(h)] = moves[Event(h)] + IF doc' = doc THEN 0 ELSE 1
         /\ results'[Event(h)] = IF outcomes' = outcomes THEN 0 ELSE 1
         /\ \A x \in Events \ {Event(h)} :
              moves'[x] = moves[x] /\ results'[x] = results[x]
BY BeforeStep DEF Attributed

LEMMA GoesOnKeeps ==
  ASSUME IInv, NEW h \in Handlers, ComposerGoesOn(h)
  PROVE  HistorySound'
<1>0. /\ cpc[h] # "free" /\ C!Handle(h) /\ cpc'[h] # "free" /\ Attributed(h)
      /\ UNCHANGED <<messaging, reply>>
  BY DEF ComposerGoesOn
<1>1. mpc[h] = "compose"
  BY <1>0 DEF IInv, HistorySound, HandlerSound
<1>e. PICK e \in Events : e = Event(h)
  BY <1>1, BeforeStep
<1>2. \A k \in Handlers \ {h} : cpc'[k] = cpc[k]
  BY <1>0, ComposerTurns
<1>3. cpc[h] \notin {"create", "join"} /\ outcomes' = outcomes
  BY <1>0, ComposerChanges
<1>4. /\ cpc'[h] \in {"create", "join"} => doc' # doc
      /\ cpc'[h] \notin {"create", "join"} => doc' = doc
  BY <1>0, ComposerChanges
<1>5. /\ moves'[e] = IF cpc'[h] \in {"create", "join"} THEN 1 ELSE 0
      /\ results'[e] = 0
  BY <1>1, <1>e, <1>0, <1>3, <1>4, AttributedStep, BeforeStep
<1>6. EventSound(e)'
  BY <1>0, <1>1, <1>e, <1>5, BeforeStep, Assumptions
     DEF EventSound, Untouched, Consistent, messaging, Replies
<1>7. HandlerSound(h)'
  BY <1>0, <1>1, <1>e, <1>5, BeforeStep DEF HandlerSound, Event, messaging
<1>8. HistoryTyped'
  BY <1>0, <1>1, AttributedStep, BeforeStep DEF HistoryTyped
<1>q. QED
  BY <1>0, <1>1, <1>e, <1>2, <1>6, <1>7, <1>8, AttributedStep,
     OneMessage DEF messaging

LEMMA RepliesKeeps ==
  ASSUME IInv, NEW h \in Handlers, ComposerReplies(h)
  PROVE  HistorySound'
<1>0. /\ cpc[h] # "free" /\ C!Handle(h) /\ cpc'[h] = "free" /\ Attributed(h)
      /\ reply' = [reply EXCEPT ![M!Event(h)] = Told(h)]
      /\ mpc[h] = "compose" /\ mpc' = [mpc EXCEPT ![h] = "send"]
      /\ UNCHANGED <<left, status, inbound, delivered>>
  BY DEF ComposerReplies, M!Compose, M!Await, M!database
<1>e. PICK e \in Events : e = Event(h)
  BY <1>0, BeforeStep
<1>1. mpc'[h] = "send" /\ \A k \in Handlers \ {h} : mpc'[k] = mpc[k]
  BY <1>0, WebhookTyped DEF IInv
<1>2. \A k \in Handlers \ {h} : cpc'[k] = cpc[k]
  BY <1>0, ComposerTurns
<1>3. /\ cpc[h] \in {"create", "join"} => doc' = doc
      /\ cpc[h] \notin {"create", "join"} => outcomes' = outcomes
  BY <1>0, ComposerChanges
<1>4. /\ cpc[h] \in {"begin", "advance", "finish"} =>
           Told(h) = IF doc' = doc THEN "conflict" ELSE "asked"
      /\ cpc[h] \in {"create", "join"} =>
           Told(h) = IF outcomes' = outcomes THEN "refused" ELSE "done"
      /\ cpc[h] \notin {"begin", "advance", "finish", "create", "join"} =>
           Told(h) = "told"
  BY DEF Told
<1>5. Told(h) \in Replies /\ Told(h) # None
  <2>1. Told(h) \in Replies
    BY <1>4 DEF Replies
  <2>q. QED
    BY <2>1, Assumptions
<1>6. reply'[e] = Told(h) /\ \A x \in Events \ {e} : reply'[x] = reply[x]
  BY <1>0, <1>e, BeforeStep
<1>7. /\ moves'[e] = (IF cpc[h] \in {"create", "join"} THEN 1 ELSE 0)
                       + IF doc' = doc THEN 0 ELSE 1
      /\ results'[e] = IF outcomes' = outcomes THEN 0 ELSE 1
  BY <1>0, <1>e, AttributedStep, BeforeStep
<1>8. moves'[e] \in {0, 1} /\ results'[e] \in {0, 1} /\ Consistent(e)'
  <2>1. CASE cpc[h] \in {"create", "join"}
    BY <1>3, <1>4, <1>6, <1>7, <2>1 DEF Consistent
  <2>2. CASE cpc[h] \notin {"create", "join"}
    BY <1>3, <1>4, <1>6, <1>7, <2>2 DEF Consistent
  <2>q. QED
    BY <2>1, <2>2
<1>9. EventSound(e)'
  BY <1>0, <1>e, <1>5, <1>6, <1>8, BeforeStep DEF EventSound
<1>10. HandlerSound(h)'
  BY <1>0, <1>1, <1>e, <1>5, <1>6 DEF HandlerSound, Event
<1>11. HistoryTyped'
  BY <1>0, <1>5, AttributedStep, BeforeStep DEF HistoryTyped
<1>q. QED
  BY <1>0, <1>1, <1>e, <1>2, <1>6, <1>9, <1>10, <1>11, AttributedStep, OneMessage

LEMMA FailsKeeps ==
  ASSUME IInv, NEW h \in Handlers, ComposerFails(h)
  PROVE  HistorySound'
<1>0. /\ cpc[h] # "free" /\ Attributed(h) /\ UNCHANGED reply /\ M!Fail(h)
      /\ C!Fail(h) \/ (C!Handle(h) /\ cpc'[h] = "free")
  BY DEF ComposerFails
<1>1. mpc[h] = "compose"
  BY <1>0 DEF IInv, HistorySound, HandlerSound
<1>e. PICK e \in Events : e = Event(h)
  BY <1>1, BeforeStep
<1>2. /\ mpc'[h] = "free"
      /\ \A k \in Handlers \ {h} : mpc'[k] = mpc[k] /\ left'[k] = left[k]
      /\ UNCHANGED <<status, inbound, delivered>>
  BY <1>0, <1>1, WebhookTyped
     DEF IInv, M!Fail, M!Respond, M!PerhapsDone, M!database
<1>3. cpc'[h] = "free" /\ \A k \in Handlers \ {h} : cpc'[k] = cpc[k]
  BY <1>0, ComposerTurns
<1>4. /\ cpc[h] \in {"create", "join"} => doc' = doc
      /\ cpc[h] \notin {"create", "join"} => outcomes' = outcomes
  BY <1>0, ComposerTurns, ComposerChanges
<1>5. moves'[e] \in {0, 1} /\ results'[e] \in {0, 1}
  BY <1>0, <1>1, <1>e, <1>4, AttributedStep, BeforeStep
<1>6. EventSound(e)'
  <2>1. e \in inbound /\ status[e] # None /\ delivered[e] = 0 /\ reply[e] = None
    BY <1>1, <1>e, BeforeStep
  <2>2. Consistent(e)'
    BY <1>0, <2>1, Assumptions DEF Consistent, Replies
  <2>q. QED
    BY <1>2, <1>5, <2>1, <2>2 DEF EventSound
<1>7. HandlerSound(h)'
  BY <1>2, <1>3, HandlerIdle
<1>8. HistoryTyped'
  BY <1>0, <1>1, AttributedStep, BeforeStep DEF HistoryTyped
<1>q. QED
  BY <1>0, <1>1, <1>e, <1>2, <1>3, <1>6, <1>7, <1>8, AttributedStep, OneMessage

-----------------------------------------------------------------------------
LEMMA InvariantInit == Init => IInv
<1> SUFFICES ASSUME Init PROVE HistorySound
  BY HalvesInit DEF IInv
<1>1. status = [e \in Events |-> None] /\ delivered = [e \in Events |-> 0]
  BY DEF Init, M!Init
<1>2. mpc = [h \in Handlers |-> "free"] /\ cpc = [h \in Handlers |-> "free"]
  BY DEF Init, M!Init, C!Init
<1>3. \A e \in Events : moves[e] = 0 /\ results[e] = 0 /\ reply[e] = None
  BY DEF Init
<1>4. HistoryTyped
  BY DEF Init, HistoryTyped
<1>5. \A e \in Events : EventSound(e)
  <2> SUFFICES ASSUME NEW e \in Events PROVE EventSound(e)
    OBVIOUS
  <2>1. moves[e] = 0 /\ results[e] = 0 /\ reply[e] = None /\ delivered[e] = 0
    BY <1>1, <1>3
  <2>2. None \notin {"conflict", "done", "asked", "refused", "told"}
    BY Assumptions DEF Replies
  <2>3. Untouched(e) /\ Consistent(e)
    BY <2>1, <2>2 DEF Untouched, Consistent
  <2>q. QED
    BY <2>1, <2>3 DEF EventSound
<1>6. \A h \in Handlers : HandlerSound(h)
  BY <1>2 DEF HandlerSound
<1>q. QED
  BY <1>4, <1>5, <1>6 DEF HistorySound

LEMMA InvariantStep == IInv /\ [Next]_vars => IInv'
<1> SUFFICES ASSUME IInv, [Next]_vars PROVE HistorySound'
  BY HalvesStep DEF IInv
<1>1. CASE UNCHANGED vars
  <2>1. UNCHANGED <<mpc, left, cpc, history, status, inbound, delivered>>
    BY <1>1 DEF vars, messaging, conversation
  <2>2. \A k \in Handlers : HandlerSound(k)'
    BY <2>1, HandlerKept DEF IInv, HistorySound
  <2>q. QED
    BY <2>1, <2>2, HistoryKept DEF IInv
<1>2. CASE Restart \/ Time
  BY <1>2, RestartKeeps, TimeKeeps
<1>3. ASSUME NEW h \in Handlers,
             Post(h) \/ Handle(h) \/ WebhookFails(h) \/ ComposerFails(h)
      PROVE  HistorySound'
  BY <1>3, PostKeeps, WebhookKeeps, StartKeeps, HelpKeeps, GoesOnKeeps,
     RepliesKeeps, FailsKeeps DEF Handle
<1>q. QED
  BY <1>1, <1>2, <1>3 DEF Next

(* Both halves keep their invariants, and the history of every message     *)
(* goes with the place where its handler stands.                           *)
THEOREM Invariant == Spec => []IInv
<1>q. QED
  BY InvariantInit, InvariantStep, PTL DEF Spec

(* The variables have their types. *)
THEOREM TypeCorrect == Spec => []TypeOK
<1>1. MP!TypeOK => M!TypeOK
  BY DEF MP!TypeOK, M!TypeOK, MP!Statuses, M!Statuses, MP!Final, M!Final,
         MP!Treatment, M!Treatment
<1>2. CP!TypeOK => C!TypeOK
  BY DEF CP!TypeOK, C!TypeOK, CP!Documents, C!Documents, CP!Operations,
         C!Operations, CP!Steps, C!Steps, CP!Fields, C!Fields, CP!Answers,
         C!Answers
<1>3. IInv => TypeOK
  BY <1>1, <1>2 DEF IInv, MP!IInv, CP!IInv, HistorySound, HistoryTyped, TypeOK
<1>q. QED
  BY <1>3, Invariant, PTL

(* A message acts at most once on the conversation and on the tontines,    *)
(* and not before it is claimed, through any redeliveries and failures.    *)
THEOREM MessageActsOnce == Spec => []ActsOnce
<1>1. IInv => ActsOnce
  <2> SUFFICES ASSUME IInv, NEW e \in Events
               PROVE  /\ moves[e] <= 1 /\ results[e] <= 1
                      /\ moves[e] + results[e] > 0 => e \in inbound /\ status[e] # None
    BY DEF ActsOnce
  <2>1. EventSound(e)
    BY DEF IInv, HistorySound
  <2>2. moves[e] + results[e] > 0 => status[e] # None
    BY <2>1 DEF EventSound, Untouched
  <2>q. QED
    BY <2>1, <2>2 DEF EventSound
<1>q. QED
  BY <1>1, Invariant, PTL

(* A reply that the user has received says what his message has done.      *)
THEOREM RepliesAreTrue == Spec => []ReplyTruthful
<1>1. IInv => ReplyTruthful
  <2> SUFFICES ASSUME IInv, NEW e \in Events, delivered[e] > 0
               PROVE  CASE reply[e] = "conflict" -> moves[e] = 0 /\ results[e] = 0
                        [] reply[e] = "done" -> moves[e] = 1 /\ results[e] = 1
                        [] reply[e] \in {"asked", "refused"} ->
                             moves[e] = 1 /\ results[e] = 0
                        [] reply[e] = "told" -> results[e] = 0
    BY DEF ReplyTruthful
  <2>1. reply[e] \in Replies /\ Consistent(e)
    BY DEF IInv, HistorySound, HistoryTyped, EventSound
  <2>q. QED
    BY <2>1 DEF Replies, Consistent
<1>q. QED
  BY <1>1, Invariant, PTL

(* With the conversations in place of the composer Messaging is still      *)
(* implemented: its theorems hold of the bot.                              *)
THEOREM ImplementsMessaging == Spec => RefinesMessaging
<1>1. Init => M!Init
  BY DEF Init
<1>2. [Next]_vars => [M!Next]_(M!vars)
  BY MessagingStep
<1>q. QED
  BY <1>1, <1>2, PTL DEF Spec, RefinesMessaging, M!Spec
-----------------------------------------------------------------------------
(* What is proved of the halves holds of the bot.                          *)

(* Whatever is posted again, whatever conversation it meets and whatever   *)
(* fails, in the webhook or in the composer, the phases of AtMostOnce are  *)
(* those of a message.                                                     *)
THEOREM ImplementsAtMostOnce == Spec => MP!RefinesAtMostOnce
<1>1. Init => MP!Once!Init
  BY SameMessaging DEF Init, MP!Init, MP!Once!Init, MP!PhaseOf
<1>2. IInv /\ [Next]_vars => [MP!Once!Next]_(MP!Once!vars)
  <2>1. [Next]_vars => [MP!Next]_(MP!vars)
    BY MessagingStep, SameMessaging
  <2>2. MP!IInv /\ [MP!Next]_(MP!vars) => [MP!Once!Next]_(MP!Once!vars)
    BY Assumptions, MP!StepRefines
  <2>q. QED
    BY <2>1, <2>2 DEF IInv
<1>q. QED
  BY <1>1, <1>2, Invariant, PTL DEF Spec, MP!RefinesAtMostOnce, MP!Once!Spec

(* Nor can a conversation in place of Messaging's composer make the        *)
(* webhook answer twice, record what is not so or acknowledge too early.   *)
THEOREM WebhookIsSound ==
  Spec => /\ [](MP!RepliedOnce /\ MP!ProcessedOnce /\ MP!StatusTruthful)
          /\ []MP!AcknowledgedIsRecorded
          /\ MP!FinalStays
<1>1. Init => MP!Init
  BY SameMessaging DEF Init
<1>2. [Next]_vars => [MP!Next]_(MP!vars)
  BY MessagingStep, SameMessaging
<1>3. Spec => MP!Spec
  BY <1>1, <1>2, PTL DEF Spec, MP!Spec
<1>4. MP!Spec => []MP!RepliedOnce
  BY Assumptions, MP!NoSecondReply
<1>5. MP!Spec => []MP!ProcessedOnce
  BY Assumptions, MP!NoSecondProcessing
<1>6. MP!Spec => []MP!StatusTruthful
  BY Assumptions, MP!StatusIsTrue
<1>7. MP!Spec => []MP!AcknowledgedIsRecorded
  BY Assumptions, MP!AcknowledgedRecorded
<1>8. MP!Spec => MP!FinalStays
  BY Assumptions, MP!SettledForGood
<1>q. QED
  BY <1>3, <1>4, <1>5, <1>6, <1>7, <1>8, PTL

(* A step of the bot is one of Conversation, or kills the composers.       *)
LEMMA ConversationOrKilled ==
  ASSUME [Next]_vars
  PROVE  [CP!Next]_(CP!vars) \/ Killed
<1>1. UNCHANGED conversation => UNCHANGED CP!vars
  BY DEF conversation, CP!vars
<1>2. C!Expire \/ C!TTLDelete => CP!Next
  BY SameConversation DEF CP!Next
<1>3. ASSUME NEW h \in Handlers, C!Handle(h) \/ C!Fail(h)
      PROVE  CP!Next
  BY <1>3, SameConversation DEF CP!Next
<1>q. QED
  BY <1>1, <1>2, <1>3, ConversationStep

(* Behind the webhook, with composers that die with the process, the       *)
(* conversation of the user still moves as a form does.                    *)
THEOREM ImplementsWorkflow == Spec => CP!RefinesWorkflow
<1>1. Init => CP!Work!Init
  BY SameConversation DEF Init, CP!Init, CP!Work!Init
<1>2. IInv /\ [Next]_vars => [CP!Work!Next]_(CP!Work!vars)
  <2>1. CP!IInv /\ [CP!Next]_(CP!vars) => [CP!Work!Next]_(CP!Work!vars)
    BY Assumptions, CP!WorkflowStep
  <2>2. Killed => UNCHANGED CP!Work!vars
    BY DEF Killed, CP!Work!vars
  <2>q. QED
    BY <2>1, <2>2, ConversationOrKilled DEF IInv
<1>q. QED
  BY <1>1, <1>2, Invariant, PTL DEF Spec, CP!RefinesWorkflow, CP!Work!Spec

(* Through redeliveries and restarts too, the state that a composer reads  *)
(* has the answers of its step.                                            *)
THEOREM AnswersComplete == Spec => []CP!DataMatchesStep
<1>1. IInv => CP!DataMatchesStep
  BY DEF IInv, CP!IInv, CP!StateSound, CP!DataMatchesStep
<1>q. QED
  BY <1>1, Invariant, PTL

(* The composers that die were to conclude nothing any more. *)
LEMMA KilledKeepsBooks == CP!IInv /\ CP!Balanced /\ Killed => CP!Balanced'
<1> SUFFICES ASSUME CP!IInv, CP!Balanced, Killed,
                    NEW i \in 1..MaxConversations
             PROVE  CP!BalancedAt(i)'
  BY DEF CP!Balanced
<1>1. /\ i \in Nat /\ begun \in Nat /\ outcomes[i] \in Nat
      /\ CP!Cardinality(CP!Pending(i)) \in Nat /\ CP!Open \in {0, 1}
  BY Assumptions, CP!BooksTyped
<1>2. CP!BalancedAt(i)
  BY DEF CP!Balanced
<1>3. CP!Pending(i)' = {} /\ UNCHANGED <<begun, outcomes>> /\ CP!Open' = CP!Open
  BY DEF Killed, CP!Pending, CP!Open
<1>4. CP!IsFiniteSet({}) /\ CP!Cardinality({}) = 0
  BY Assumptions, CP!FS_EmptySet
<1>q. QED
  BY <1>1, <1>2, <1>3, <1>4 DEF CP!BalancedAt

(* However often its confirmation is posted and whatever dies meanwhile, a *)
(* conversation has no more outcomes than have begun since.                *)
THEOREM OutcomesAreBounded == Spec => []CP!OutcomesBounded
<1>1. Init => CP!Balanced
  BY SameConversation, Assumptions, CP!BalanceInit DEF Init
<1>2. IInv /\ CP!Balanced /\ [Next]_vars => CP!Balanced'
  <2>1. CP!IInv /\ CP!Balanced /\ [CP!Next]_(CP!vars) => CP!Balanced'
    BY Assumptions, CP!BalanceStep
  <2>q. QED
    BY <2>1, KilledKeepsBooks, ConversationOrKilled DEF IInv
<1>3. IInv /\ CP!Balanced => CP!OutcomesBounded
  <2> SUFFICES ASSUME IInv, CP!Balanced, NEW i \in 1..begun
               PROVE  outcomes[i] <= begun - i + 1
    BY DEF CP!OutcomesBounded
  <2>1. CP!IInv /\ i \in 1..MaxConversations
    BY Assumptions DEF IInv, CP!IInv, CP!TypeOK
  <2>2. /\ i \in Nat /\ begun \in Nat /\ outcomes[i] \in Nat /\ i <= begun
        /\ CP!Cardinality(CP!Pending(i)) \in Nat /\ CP!Open \in {0, 1}
    BY <2>1, Assumptions, CP!BooksTyped
  <2>3. CP!BalancedAt(i)
    BY <2>1 DEF CP!Balanced
  <2>q. QED
    BY <2>2, <2>3 DEF CP!BalancedAt
<1>q. QED
  BY <1>1, <1>2, <1>3, Invariant, PTL DEF Spec

(* Nor does a conversation suffer from an answer given to an older state,  *)
(* while its document lives: the composers that die change nothing.        *)
THEOREM FilterProtects == Spec => CP!VersionProtects
<1>1. ASSUME IInv, [Next]_vars, NEW h \in Handlers,
             cpc[h] \in {"advance", "finish"}, doc' # doc, cpc'[h] # cpc[h],
             doc # None, doc.life = read[h].life
      PROVE  doc.conversation = read[h].conversation /\ doc.data = read[h].data
  <2>1. [CP!Next]_(CP!vars)
    BY <1>1, ConversationOrKilled DEF Killed
  <2>q. QED
    BY <1>1, <2>1, Assumptions, CP!FilterStep DEF IInv
<1>2. IInv /\ [Next]_vars =>
        \A h \in Handlers : cpc[h] \in {"advance", "finish"} /\ doc' # doc
          /\ cpc'[h] # cpc[h] /\ doc # None /\ doc.life = read[h].life =>
            /\ doc.conversation = read[h].conversation
            /\ doc.data = read[h].data
  BY <1>1
<1>q. QED
  BY <1>2, Invariant, PTL DEF Spec, CP!VersionProtects

(* No redelivery and no restart brings a conversation back that is over:   *)
(* the composers that die leave the document alone.                        *)
THEOREM NeverBack == Spec => CP!GoneStaysGone
<1>1. ASSUME IInv, [Next]_vars
      PROVE  /\ doc = None /\ doc' # None => CP!Begun
             /\ \A h \in Handlers : CP!Acts(h) => ~read[h].expired
             /\ doc # None /\ doc.expired /\ doc' # None /\ ~doc'.expired =>
                  CP!Begun \/ \E h \in Handlers : CP!Acts(h)
  <2>1. CASE [CP!Next]_(CP!vars)
    BY <1>1, <2>1, Assumptions, CP!BackStep DEF IInv
  <2>2. CASE Killed
    BY <2>2 DEF Killed, CP!Acts
  <2>q. QED
    BY <1>1, <2>1, <2>2, ConversationOrKilled
<1>2. IInv /\ [Next]_vars =>
        /\ doc = None /\ doc' # None => CP!Begun
        /\ \A h \in Handlers : CP!Acts(h) => ~read[h].expired
        /\ doc # None /\ doc.expired /\ doc' # None /\ ~doc'.expired =>
             CP!Begun \/ \E h \in Handlers : CP!Acts(h)
  BY <1>1
<1>q. QED
  BY <1>2, Invariant, PTL DEF Spec, CP!GoneStaysGone
=============================================================================
