--------------------------------- MODULE Bot ---------------------------------
(***************************************************************************)
(* The bot from the post to the reply: Messaging, whose composer is here   *)
(* Conversation, for the messages of one user.  A handler of the webhook   *)
(* runs the composer inside _handle_text_message (app/modules/messaging/   *)
(* service.py:131, wired in app/api/webhooks/whatsapp.py:48): it starts    *)
(* when the handler is about to compose, its reply is the one sent, its    *)
(* exception fails the post, and both die together.                        *)
(*                                                                         *)
(* Messages are redelivered, handled in any order and at the same time,    *)
(* and abandoned half done: what neither component can say alone is what   *)
(* a message has done by then, and what its sender was told.               *)
(***************************************************************************)
EXTENDS Naturals, Sequences

CONSTANTS
  Events,            \* messages of the user
  TextOf,            \* TextOf[e]: the text of message e
  Batches,           \* what Meta posts: sequences of messages
  Handlers,          \* coroutines handling a POST, reused
  MaxFaults,         \* bound: operations that fail and crashes
  MaxConversations,  \* bound: conversations begun, one for each message
  None

VARIABLES
  running, ready, indexed, status, inbound, outbound, composed, delivered,
  mpc, batch, left, acked, faults,                \* Messaging's
  doc, cpc, text, read, begun, lives, outcomes,   \* Conversation's
  moves,    \* moves[e]: changes message e made to the conversation
  results,  \* results[e]: tontines message e created or joined
  reply     \* reply[e]: what the composer answered to e, or None

messaging == <<running, ready, indexed, status, inbound, outbound, composed,
               delivered, mpc, batch, left, acked, faults>>
conversation == <<doc, cpc, text, read, begun, lives, outcomes>>
history == <<moves, results, reply>>
vars == <<messaging, conversation, history>>

M == INSTANCE Messaging WITH pc <- mpc, TextMessages <- Events
C == INSTANCE Conversation WITH pc <- cpc,
       Texts <- {TextOf[e] : e \in Events}

Replies == {"asked", "conflict", "done", "refused", "told"}

ASSUME BotAssumption ==
  /\ Batches \subseteq Seq(Events) \ {<<>>}
  /\ MaxFaults \in Nat
  /\ MaxConversations \in Nat
  /\ None \notin M!Final \union {"RECEIVED"} \union Replies
  /\ None \notin C!Steps \union C!Documents

TypeOK ==
  /\ M!TypeOK /\ C!TypeOK
  /\ moves \in [Events -> Nat]
  /\ results \in [Events -> Nat]
  /\ reply \in [Events -> Replies \union {None}]

Init ==
  /\ M!Init /\ C!Init
  /\ moves = [e \in Events |-> 0]
  /\ results = [e \in Events |-> 0]
  /\ reply = [e \in Events |-> None]

-----------------------------------------------------------------------------
(* The webhook, up to the composer and after it. *)
Webhook(h) ==
  /\ mpc[h] # "compose"
  /\ M!Handle(h)
  /\ UNCHANGED <<conversation, history>>

Post(h) ==
  /\ \E b \in Batches : M!Post(h, b)
  /\ UNCHANGED <<conversation, history>>

(* An operation outside of the composer's conversation: get_or_create too. *)
WebhookFails(h) ==
  /\ cpc[h] = "free"
  /\ M!Fail(h)
  /\ UNCHANGED <<conversation, history>>

ComposerStarts(h) ==
  /\ mpc[h] = "compose"
  /\ C!Receive(h)
  /\ text'[h] = TextOf[M!Event(h)]
  /\ UNCHANGED <<messaging, history>>

(* The composer answers a request for help without reading anything. *)
ComposerHelps(h) ==
  /\ mpc[h] = "compose" /\ cpc[h] = "free"
  /\ C!GlobalCommand(TextOf[M!Event(h)]) = "HELP"
  /\ M!Compose(h)
  /\ reply' = [reply EXCEPT ![M!Event(h)] = "told"]
  /\ UNCHANGED <<conversation, moves, results>>

(* What a step of the composer of h does is put down to its message. *)
Attributed(h) ==
  LET e == M!Event(h)
  IN /\ moves' = [moves EXCEPT ![e] = @ + IF doc' = doc THEN 0 ELSE 1]
     /\ results' = [results EXCEPT ![e] =
          @ + IF outcomes' = outcomes THEN 0 ELSE 1]

(* The text chosen by the last step of the composer. *)
Told(h) ==
  CASE cpc[h] \in {"begin", "advance", "finish"} ->
         IF doc' = doc THEN "conflict" ELSE "asked"
    [] cpc[h] \in {"create", "join"} ->
         IF outcomes' = outcomes THEN "refused" ELSE "done"
    [] OTHER -> "told"

ComposerGoesOn(h) ==
  /\ cpc[h] # "free"
  /\ C!Handle(h)
  /\ cpc'[h] # "free"
  /\ Attributed(h)
  /\ UNCHANGED <<messaging, reply>>

ComposerReplies(h) ==
  /\ cpc[h] # "free"
  /\ C!Handle(h)
  /\ cpc'[h] = "free"
  /\ Attributed(h)
  /\ M!Compose(h)
  /\ reply' = [reply EXCEPT ![M!Event(h)] = Told(h)]

(* Mutant of ComposerFails: the exception is dropped, an empty reply sent. *)
FailsSilently(h) ==
  /\ cpc[h] # "free"
  /\ C!Fail(h)
  /\ mpc' = [mpc EXCEPT ![h] = "send"]
  /\ UNCHANGED <<running, ready, indexed, status, inbound, outbound, composed,
                  delivered, batch, left, acked, faults, history>>

(* An exception in the composer, before its operation or after it. *)
ComposerFails(h) ==
  /\ cpc[h] # "free"
  /\ C!Fail(h) \/ (C!Handle(h) /\ cpc'[h] = "free")
  /\ Attributed(h)
  /\ M!Fail(h)
  /\ UNCHANGED reply

(* The coroutines die with the process. *)
Killed ==
  /\ cpc' = [h \in Handlers |-> "free"]
  /\ text' = [h \in Handlers |-> None]
  /\ read' = [h \in Handlers |-> None]
  /\ UNCHANGED <<doc, begun, lives, outcomes>>

Restart ==
  \/ (M!StartReady \/ M!StartNotReady) /\ UNCHANGED <<conversation, history>>
  \/ (M!Stop \/ M!Crash) /\ Killed /\ UNCHANGED history

Time ==
  /\ C!Expire \/ C!TTLDelete
  /\ UNCHANGED <<messaging, history>>

Handle(h) ==
  \/ Webhook(h) \/ ComposerStarts(h) \/ ComposerHelps(h)
  \/ ComposerGoesOn(h) \/ ComposerReplies(h)

Next ==
  \/ Restart \/ Time
  \/ \E h \in Handlers :
       Post(h) \/ Handle(h) \/ WebhookFails(h) \/ ComposerFails(h)

Spec == Init /\ [][Next]_vars

(* The event loop runs every coroutine, the composer's steps included. *)
FairSpec == Spec /\ \A h \in Handlers : WF_vars(Handle(h))
-----------------------------------------------------------------------------
(* Properties                                                              *)

(* "Tous les webhooks sont idempotents", down to the conversation and the  *)
(* tontines: whatever is posted again and whatever fails in between, a     *)
(* message changes the conversation at most once, has at most one tontine  *)
(* created or joined, and does nothing before it is claimed.               *)
ActsOnce ==
  \A e \in Events :
    /\ moves[e] <= 1 /\ results[e] <= 1
    /\ moves[e] + results[e] > 0 => e \in inbound /\ status[e] # None

(* What the user reads is what happened: "je n'ai pas pu suivre" means     *)
(* that his message has had no effect, so that he may write it again; a    *)
(* tontine is announced if and only if this message created or joined it;  *)
(* a question follows from his answer having been taken.                   *)
ReplyTruthful ==
  \A e \in Events : delivered[e] > 0 =>
    CASE reply[e] = "conflict" -> moves[e] = 0 /\ results[e] = 0
      [] reply[e] = "done" -> moves[e] = 1 /\ results[e] = 1
      [] reply[e] \in {"asked", "refused"} -> moves[e] = 1 /\ results[e] = 0
      [] reply[e] = "told" -> results[e] = 0

(* Messaging's model of its composer is right: with the conversations in   *)
(* place of it, Messaging is still implemented, so all that is proved of   *)
(* Messaging holds of the bot.                                             *)
RefinesMessaging == M!Spec

(* A message that is being handled reaches a final status, whatever the    *)
(* conversation it meets, unless something fails from then on.             *)
HandledIsSettled ==
  \A e \in Events, n \in 0..MaxFaults :
    M!BeingHandled(e) /\ faults = n ~> status[e] \in M!Final \/ faults > n

=============================================================================
