------------------------------ MODULE Messaging ------------------------------
(***************************************************************************)
(* The webhook (app/api/webhooks/whatsapp.py), MessagingService and        *)
(* MessagingRepository (app/modules/messaging), the startup that decides   *)
(* whether the webhook accepts anything (app/main.py), and around them     *)
(* Meta, which posts batches of events until it gets a 200, and may post   *)
(* them again after that.                                                  *)
(*                                                                         *)
(* A handler is the coroutine of one POST.  An action is one await: a      *)
(* database operation or the call to Meta, and the code up to the next.    *)
(* The composer of the reply is Conversation's: here it runs or fails.     *)
(***************************************************************************)
EXTENDS Naturals, Sequences

CONSTANTS
  Events,        \* external ids of events
  TextMessages,  \* the events that are text messages with a text
  Batches,       \* what Meta posts: sequences of events
  Handlers,      \* coroutines handling a POST, reused
  MaxFaults,     \* bound: operations that fail and crashes of the process
  None

ASSUME MessagingAssumption ==
  /\ TextMessages \subseteq Events
  /\ Batches \subseteq Seq(Events) \ {<<>>}
  /\ MaxFaults \in Nat
  /\ None \notin {"RECEIVED", "IGNORED", "REPLIED", "REPLY_FAILED"}

VARIABLES
  running,   \* the process is started
  ready,     \* app.state.indexes_ready
  indexed,   \* the unique index on webhook_events.external_id exists
  status,    \* status[e]: of the document of e in webhook_events, or None
  inbound,   \* events whose message is stored in messages
  outbound,  \* events whose reply is stored in messages
  composed,  \* composed[e]: how often the composer ran for e
  delivered, \* delivered[e]: how many replies to e the user got
  pc,        \* pc[h]: the operation handler h is about to await
  batch,     \* batch[h]: the batch posted to h
  left,      \* left[h]: the events of batch[h] still to handle
  acked,     \* batches Meta got a 200 for
  faults

vars == <<running, ready, indexed, status, inbound, outbound, composed,
          delivered, pc, batch, left, acked, faults>>
database == <<status, inbound, outbound>>
effects == <<composed, delivered>>
process == <<running, ready, indexed>>

Final == {"IGNORED", "REPLIED", "REPLY_FAILED"}
Statuses == Final \union {"RECEIVED", None}

(* What a handler does between the claim of an event and its last mark. *)
Treatment == {"ignore", "store_inbound", "compose", "send",
              "store_outbound", "mark_replied", "mark_failed"}

TypeOK ==
  /\ running \in BOOLEAN /\ ready \in BOOLEAN /\ indexed \in BOOLEAN
  /\ status \in [Events -> Statuses]
  /\ inbound \subseteq Events
  /\ outbound \subseteq Events
  /\ composed \in [Events -> Nat]
  /\ delivered \in [Events -> Nat]
  /\ pc \in [Handlers -> Treatment \union {"free", "claim"}]
  /\ batch \in [Handlers -> Seq(Events)]
  /\ left \in [Handlers -> Seq(Events)]
  /\ \A h \in Handlers : pc[h] # "free" => left[h] # <<>> /\ batch[h] \in Batches
  /\ acked \subseteq Batches
  /\ faults \in 0..MaxFaults

Idle == [h \in Handlers |-> <<>>]

Init ==
  /\ running = FALSE /\ ready = FALSE /\ indexed = FALSE
  /\ status = [e \in Events |-> None]
  /\ inbound = {} /\ outbound = {}
  /\ composed = [e \in Events |-> 0]
  /\ delivered = [e \in Events |-> 0]
  /\ pc = [h \in Handlers |-> "free"]
  /\ batch = Idle /\ left = Idle
  /\ acked = {}
  /\ faults = 0

-----------------------------------------------------------------------------
(* lifespan.  The database may be unreachable, or an index may fail after  *)
(* the one on webhook_events: the process starts all the same, not ready.  *)
StartReady ==
  /\ ~running
  /\ running' = TRUE /\ ready' = TRUE /\ indexed' = TRUE
  /\ UNCHANGED <<database, effects, pc, batch, left, acked, faults>>

StartNotReady ==
  /\ ~running
  /\ running' = TRUE
  /\ indexed' \in {indexed, TRUE}
  /\ UNCHANGED <<ready, database, effects, pc, batch, left, acked, faults>>

Down ==
  /\ running
  /\ running' = FALSE /\ ready' = FALSE
  /\ pc' = [h \in Handlers |-> "free"]
  /\ batch' = Idle /\ left' = Idle
  /\ UNCHANGED <<indexed, database, effects, acked>>

(* Nothing but a restart ever makes a process ready. *)
Stop == ~ready /\ Down /\ UNCHANGED faults

Crash == ready /\ faults < MaxFaults /\ faults' = faults + 1 /\ Down

-----------------------------------------------------------------------------
(* Mutant of Post: the webhook does not look at indexes_ready. *)
PostUngated(h, b) ==
  /\ running /\ pc[h] = "free"
  /\ pc' = [pc EXCEPT ![h] = "claim"]
  /\ batch' = [batch EXCEPT ![h] = b]
  /\ left' = [left EXCEPT ![h] = b]
  /\ UNCHANGED <<process, database, effects, acked, faults>>

(* receive_webhook.  When the process is not ready, a 503: Meta will post  *)
(* the batch again, and nothing has changed.                               *)
Post(h, b) ==
  /\ running /\ ready /\ pc[h] = "free"
  /\ pc' = [pc EXCEPT ![h] = "claim"]
  /\ batch' = [batch EXCEPT ![h] = b]
  /\ left' = [left EXCEPT ![h] = b]
  /\ UNCHANGED <<process, database, effects, acked, faults>>

Event(h) == Head(left[h])

Await(h, operation) ==
  /\ pc' = [pc EXCEPT ![h] = operation]
  /\ UNCHANGED <<batch, left, acked>>

Respond(h) ==
  /\ pc' = [pc EXCEPT ![h] = "free"]
  /\ batch' = [batch EXCEPT ![h] = <<>>]
  /\ left' = [left EXCEPT ![h] = <<>>]

(* Mutant of NextEvent: the loop runs once too often. *)
NextEventOverrun(h) ==
  IF Len(left[h]) = 0
  THEN Respond(h) /\ acked' = acked \union {batch[h]}
  ELSE /\ left' = [left EXCEPT ![h] = Tail(@)]
       /\ pc' = [pc EXCEPT ![h] = "claim"]
       /\ UNCHANGED <<batch, acked>>

(* handle_events: the next event of the batch, or a 200 after the last. *)
NextEvent(h) ==
  IF Len(left[h]) = 1
  THEN Respond(h) /\ acked' = acked \union {batch[h]}
  ELSE /\ left' = [left EXCEPT ![h] = Tail(@)]
       /\ pc' = [pc EXCEPT ![h] = "claim"]
       /\ UNCHANGED <<batch, acked>>

FirstOperation(e) == IF e \in TextMessages THEN "store_inbound" ELSE "ignore"

(* Mutant of Claim: an event left in RECEIVED may be claimed again. *)
ClaimRetried(h) ==
  /\ pc[h] = "claim"
  /\ status[Event(h)] \in {None, "RECEIVED"}
  /\ status' = [status EXCEPT ![Event(h)] = "RECEIVED"]
  /\ Await(h, FirstOperation(Event(h)))
  /\ UNCHANGED <<process, inbound, outbound, effects, faults>>

(* claim_event: the insertion fails only on the unique index. *)
Claim(h) ==
  /\ pc[h] = "claim"
  /\ status[Event(h)] = None \/ ~indexed
  /\ status' = [status EXCEPT ![Event(h)] = "RECEIVED"]
  /\ Await(h, FirstOperation(Event(h)))
  /\ UNCHANGED <<process, inbound, outbound, effects, faults>>

(* Mutants of Duplicate: the duplicate is marked; it is an error. *)
DuplicateMarked(h) ==
  /\ pc[h] = "claim"
  /\ status[Event(h)] # None /\ indexed
  /\ status' = [status EXCEPT ![Event(h)] = "IGNORED"]
  /\ NextEvent(h)
  /\ UNCHANGED <<process, inbound, outbound, effects, faults>>
DuplicateRefused(h) ==
  /\ pc[h] = "claim"
  /\ status[Event(h)] # None /\ indexed
  /\ Respond(h)
  /\ UNCHANGED <<process, database, effects, acked, faults>>

Duplicate(h) ==
  /\ pc[h] = "claim"
  /\ status[Event(h)] # None /\ indexed
  /\ NextEvent(h)
  /\ UNCHANGED <<process, database, effects, faults>>

(* mark_event, the last operation of each branch. *)
Mark(h, final) ==
  /\ status' = [status EXCEPT ![Event(h)] = final]
  /\ NextEvent(h)
  /\ UNCHANGED <<process, inbound, outbound, effects, faults>>

Ignore(h) == pc[h] = "ignore" /\ Mark(h, "IGNORED")

-----------------------------------------------------------------------------
(* _handle_text_message *)
StoreInbound(h) ==
  /\ pc[h] = "store_inbound"
  /\ inbound' = inbound \union {Event(h)}
  /\ Await(h, "compose")
  /\ UNCHANGED <<process, status, outbound, effects, faults>>

Compose(h) ==
  /\ pc[h] = "compose"
  /\ composed' = [composed EXCEPT ![Event(h)] = @ + 1]
  /\ Await(h, "send")
  /\ UNCHANGED <<process, database, delivered, faults>>

Sent(h) == delivered' = [delivered EXCEPT ![Event(h)] = @ + 1]

SendAccepted(h) ==
  /\ pc[h] = "send"
  /\ Sent(h)
  /\ Await(h, "store_outbound")
  /\ UNCHANGED <<process, database, composed, faults>>

(* Mutant of SendRefused: the client logs the refusal and raises nothing. *)
SendRefusedSilently(h) ==
  /\ pc[h] = "send"
  /\ Await(h, "store_outbound")
  /\ UNCHANGED <<process, database, effects, faults>>

(* Not configured, not connected, or answered with a status >= 400. *)
SendRefused(h) ==
  /\ pc[h] = "send"
  /\ Await(h, "mark_failed")
  /\ UNCHANGED <<process, database, effects, faults>>

(* A read timeout, or an answer without a message id: the same error in    *)
(* the client, though Meta has delivered the reply.                        *)
SendUncertain(h) ==
  /\ pc[h] = "send"
  /\ Sent(h)
  /\ Await(h, "mark_failed")
  /\ UNCHANGED <<process, database, composed, faults>>

StoreOutbound(h) ==
  /\ pc[h] = "store_outbound"
  /\ outbound' = outbound \union {Event(h)}
  /\ Await(h, "mark_replied")
  /\ UNCHANGED <<process, status, inbound, effects, faults>>

MarkReplied(h) == pc[h] = "mark_replied" /\ Mark(h, "REPLIED")

MarkFailed(h) == pc[h] = "mark_failed" /\ Mark(h, "REPLY_FAILED")

-----------------------------------------------------------------------------
(* What the operation that fails may have done before its failure is       *)
(* known: the write of a lost reply, the work of a composer that raised.   *)
PerhapsDone(h) ==
  \/ UNCHANGED <<database, composed>>
  \/ /\ pc[h] = "claim" /\ status[Event(h)] = None
     /\ status' = [status EXCEPT ![Event(h)] = "RECEIVED"]
     /\ UNCHANGED <<inbound, outbound, composed>>
  \/ /\ pc[h] = "ignore"
     /\ status' = [status EXCEPT ![Event(h)] = "IGNORED"]
     /\ UNCHANGED <<inbound, outbound, composed>>
  \/ /\ pc[h] = "store_inbound"
     /\ inbound' = inbound \union {Event(h)}
     /\ UNCHANGED <<status, outbound, composed>>
  \/ /\ pc[h] = "compose"
     /\ composed' = [composed EXCEPT ![Event(h)] = @ + 1]
     /\ UNCHANGED database
  \/ /\ pc[h] = "store_outbound"
     /\ outbound' = outbound \union {Event(h)}
     /\ UNCHANGED <<status, inbound, composed>>
  \/ /\ pc[h] \in {"mark_replied", "mark_failed"}
     /\ status' = [status EXCEPT ![Event(h)] =
                     IF pc[h] = "mark_replied" THEN "REPLIED" ELSE "REPLY_FAILED"]
     /\ UNCHANGED <<inbound, outbound, composed>>

(* Mutant of Fail: the webhook answers 200 whatever happens. *)
FailAcknowledged(h) ==
  /\ pc[h] \notin {"free", "send"}
  /\ faults < MaxFaults
  /\ faults' = faults + 1
  /\ PerhapsDone(h)
  /\ Respond(h)
  /\ acked' = acked \union {batch[h]}
  /\ UNCHANGED <<process, delivered>>

(* A PyMongoError, or an exception of the composer: a 500, and the rest of *)
(* the batch is not handled.                                               *)
Fail(h) ==
  /\ pc[h] \notin {"free", "send"}
  /\ faults < MaxFaults
  /\ faults' = faults + 1
  /\ PerhapsDone(h)
  /\ Respond(h)
  /\ UNCHANGED <<process, delivered, acked>>

-----------------------------------------------------------------------------
Handle(h) ==
  \/ Claim(h) \/ Duplicate(h) \/ Ignore(h)
  \/ StoreInbound(h) \/ Compose(h)
  \/ SendAccepted(h) \/ SendRefused(h) \/ SendUncertain(h)
  \/ StoreOutbound(h) \/ MarkReplied(h) \/ MarkFailed(h)

Next ==
  \/ StartReady \/ StartNotReady \/ Stop \/ Crash
  \/ \E h \in Handlers :
       \/ \E b \in Batches : Post(h, b)
       \/ Handle(h)
       \/ Fail(h)

Spec == Init /\ [][Next]_vars

(* The event loop runs every coroutine; Meta posts a batch until it gets a *)
(* 200, whatever else it posts meanwhile.  Nothing is assumed of restarts.  *)
Fairness ==
  /\ \A h \in Handlers : WF_vars(Handle(h))
  /\ \A b \in Batches :
       SF_vars(b \notin acked /\ \E h \in Handlers : Post(h, b))

FairSpec == Spec /\ Fairness
-----------------------------------------------------------------------------
(* Properties                                                              *)

(* "il empeche de repondre deux fois au meme message": whatever is posted  *)
(* again, at once or after a crash, a user gets at most one reply.         *)
RepliedOnce == \A e \in Events : delivered[e] <= 1

(* "Tous les webhooks sont idempotents": a message acts on the             *)
(* conversations and the tontines at most once.                            *)
ProcessedOnce == \A e \in Events : composed[e] <= 1

(* An event marked REPLIED was stored, composed once and its reply         *)
(* delivered and stored; one that is new or ignored did nothing; one       *)
(* marked REPLY_FAILED was stored and composed once, and no reply to it is *)
(* stored.  That "seul l'envoi a echoue" cannot be said of it: the reply   *)
(* may have been delivered (SendUncertain).                                *)
StatusTruthful ==
  \A e \in Events :
    /\ status[e] = "REPLIED" =>
         e \in inbound \intersect outbound /\ composed[e] = 1 /\ delivered[e] = 1
    /\ status[e] = "REPLY_FAILED" =>
         e \in inbound \ outbound /\ composed[e] = 1
    /\ status[e] \in {None, "IGNORED"} =>
         e \notin inbound /\ composed[e] = 0 /\ delivered[e] = 0

PhaseOf(s) ==
  IF s = None THEN "new" ELSE IF s = "RECEIVED" THEN "taken" ELSE "settled"

Once == INSTANCE AtMostOnce WITH
  phase <- [e \in Events |-> PhaseOf(status[e])],
  acted <- composed, answered <- delivered

(* Whatever is posted, again or at the same time, and whatever fails, each *)
(* event goes through the phases of AtMostOnce, in that order.             *)
RefinesAtMostOnce == Once!Spec

Door == INSTANCE Gate WITH
  Processes <- {"the process"}, open <- IF ready THEN {"the process"} ELSE {}

(* The process in this module is what Deployment provides. *)
KeepsGate == Door!Spec

(* Meta stops posting a batch only when each of its events is recorded.    *)
AcknowledgedIsRecorded ==
  \A b \in acked : \A i \in DOMAIN b : status[b[i]] # None

(* The inductive invariant.  An event has one handler, which holds it      *)
(* between the claim and the last mark, where the operation it is about to *)
(* await tells what is done; without a handler, the status does, and an    *)
(* event whose handler failed has done at most what it may do once.        *)
Gated == \A h \in Handlers : pc[h] # "free" => running /\ ready /\ indexed

OneHandler ==
  \A h, k \in Handlers :
    pc[h] \in Treatment /\ pc[k] \in Treatment /\ Event(h) = Event(k) => h = k

DoneAt(e, operation) ==
  /\ status[e] = "RECEIVED"
  /\ e \in inbound <=> operation \notin {"ignore", "store_inbound"}
  /\ e \in outbound <=> operation = "mark_replied"
  /\ composed[e] =
       IF operation \in {"ignore", "store_inbound", "compose"} THEN 0 ELSE 1
  /\ operation \in {"ignore", "store_inbound", "compose", "send"} =>
       delivered[e] = 0
  /\ operation \in {"store_outbound", "mark_replied"} => delivered[e] = 1

HandlersSound ==
  \A h \in Handlers : pc[h] \in Treatment => DoneAt(Event(h), pc[h])

CountersSound ==
  \A e \in Events : composed[e] \in {0, 1} /\ delivered[e] \in {0, 1}

OutboundSound ==
  \A e \in outbound : status[e] \notin {None, "IGNORED"}

(* The events before those that are left have been recorded. *)
BatchSound ==
  \A h \in Handlers : pc[h] # "free" =>
    LET passed == Len(batch[h]) - Len(left[h])
    IN /\ passed >= 0
       /\ \A i \in 1..Len(left[h]) : left[h][i] = batch[h][passed + i]
       /\ \A i \in 1..passed : status[batch[h][i]] # None

IInv ==
  /\ TypeOK
  /\ Gated
  /\ ready => running /\ indexed
  /\ OneHandler
  /\ HandlersSound
  /\ CountersSound
  /\ OutboundSound
  /\ StatusTruthful
  /\ BatchSound
  /\ AcknowledgedIsRecorded

(* Nothing touches an event once it is ignored, replied or failed. *)
FinalStays ==
  [][\A e \in Events : status[e] \in Final => status'[e] = status[e]]_vars

(* Unless the process stays down or not ready for ever, Meta gets a 200    *)
(* for every batch in the end, in spite of the failures before.            *)
EveryBatchAcknowledged == []<>ready => \A b \in Batches : <>(b \in acked)

BeingHandled(e) ==
  \E h \in Handlers : pc[h] \in Treatment /\ Event(h) = e

(* An event that is being handled is taken to its end, unless something    *)
(* fails from then on.                                                     *)
HandledIsSettled ==
  \A e \in Events, n \in 0..MaxFaults :
    BeingHandled(e) /\ faults = n ~> status[e] \in Final \/ faults > n

(* "oui - c'est voulu, rien n'est perdu": an event of a batch that Meta    *)
(* will not post again is handled, or being handled.                       *)
NothingLost ==
  \A b \in acked : \A i \in DOMAIN b :
    status[b[i]] = "RECEIVED" => BeingHandled(b[i])
=============================================================================
