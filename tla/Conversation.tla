---------------------------- MODULE Conversation ----------------------------
(***************************************************************************)
(* ConversationService.reply_to and ConversationRepository                 *)
(* (app/modules/conversations): the messages of one user, each handled by  *)
(* a coroutine of its own, concurrently, against the user's single         *)
(* document of the collection conversation_states.                         *)
(*                                                                         *)
(* An action is one await: a database operation and the code up to the     *)
(* next one.  Documents of different users are disjoint, so one user       *)
(* suffices.  The tontines themselves are TontineStore's: here a preview,  *)
(* a creation and a join succeed or not.                                   *)
(***************************************************************************)
EXTENDS CommandRouter, FiniteSets

CONSTANTS
  Handlers,          \* coroutines handling messages, reused
  Texts,             \* the texts the user may send
  MaxConversations,  \* bound: conversations begun
  None

ASSUME MaxConversationsAssumption == MaxConversations \in Nat

VARIABLES
  doc,       \* the user's document, or None
  pc,        \* pc[h]: the operation handler h is about to await
  text,      \* text[h]: the message h handles
  read,      \* read[h]: the state h got, or None
  begun,     \* number of conversations begun
  lives,     \* number of times the document was inserted
  outcomes   \* outcomes[i]: tontines created or joined by conversation i

vars == <<doc, pc, text, read, begun, lives, outcomes>>

Work == INSTANCE Workflow WITH
  stage <- IF doc = None THEN None ELSE doc.step,
  answers <- IF doc = None THEN {} ELSE DOMAIN doc.data,
  fresh <- IF doc = None THEN TRUE ELSE ~doc.expired

Steps == {"CREATE_NAME", "CREATE_AMOUNT", "CREATE_FREQUENCY",
          "CREATE_MEMBERS", "CREATE_CONFIRM", "JOIN_CODE", "JOIN_CONFIRM"}

Fields == {"name", "amount", "frequency", "expected_members", "invite_code"}

(* An answer: the conversation it was given in, and whether TontineDraft   *)
(* will accept it.                                                         *)
Answers == [conversation : 1..MaxConversations, valid : BOOLEAN]

Documents ==
  [step : Steps, version : Nat \ {0}, expired : BOOLEAN,
   data : UNION {[fields -> Answers] : fields \in SUBSET Fields},
   conversation : 1..MaxConversations,   \* history: which conversation
   life : 1..MaxConversations]           \* history: which insertion

(* None is not one of the values it stands for the absence of. *)
ASSUME ConversationNoneAssumption == None \notin Steps \union Documents

Operations == {"clear", "get", "list", "begin", "preview", "advance",
               "finish", "create", "join", "discard"}

TypeOK ==
  /\ doc \in Documents \union {None}
  /\ pc \in [Handlers -> Operations \union {"free"}]
  /\ text \in [Handlers -> Texts \union {None}]
  /\ read \in [Handlers -> Documents \union {None}]
  /\ begun \in 0..MaxConversations
  /\ lives \in 0..begun
  /\ outcomes \in [1..MaxConversations -> Nat]

Init ==
  /\ doc = None
  /\ pc = [h \in Handlers |-> "free"]
  /\ text = [h \in Handlers |-> None]
  /\ read = [h \in Handlers |-> None]
  /\ begun = 0
  /\ lives = 0
  /\ outcomes = [i \in 1..MaxConversations |-> 0]

Await(h, operation) == pc' = [pc EXCEPT ![h] = operation]

(* The reply is returned, or an exception propagates. *)
Return(h) ==
  /\ Await(h, "free")
  /\ text' = [text EXCEPT ![h] = None]
  /\ read' = [read EXCEPT ![h] = None]

-----------------------------------------------------------------------------
(* reply_to: global commands come before the state is even read.           *)
Receive(h) ==
  /\ pc[h] = "free"
  /\ \E t \in Texts :
       /\ GlobalCommand(t) # "HELP"   \* answered without any await
       /\ text' = [text EXCEPT ![h] = t]
       /\ Await(h, IF GlobalCommand(t) = "UNKNOWN" THEN "get" ELSE "clear")
  /\ UNCHANGED <<doc, read, begun, lives, outcomes>>

Clear(h) ==
  /\ pc[h] = "clear"
  /\ doc' = None
  /\ Return(h)
  /\ UNCHANGED <<begun, lives, outcomes>>

(* Mutant of Live: the TTL monitor is relied on to delete in time. *)
LiveUntilDeleted == doc

(* The document of get and begin, for whom an expired one is none. *)
Live == IF doc = None THEN None ELSE IF doc.expired THEN None ELSE doc

DraftValid(state) == \A f \in DOMAIN state.data : state.data[f].valid

(* What the text leads to, at rest and at each step; "free" is a reply     *)
(* that needs nothing more from the database.                              *)
AtRest(t) ==
  CASE MenuCommand(t) \in {"CREATE_TONTINE", "JOIN_TONTINE"} -> "begin"
    [] MenuCommand(t) = "MY_TONTINES" -> "list"
    [] OTHER -> "free"

Accepts(step, t) ==
  \/ step = "CREATE_NAME" /\ IsName(t)
  \/ step = "CREATE_AMOUNT" /\ IsAmount(t)
  \/ step = "CREATE_FREQUENCY" /\ IsFrequency(t)
  \/ step = "CREATE_MEMBERS" /\ IsMembers(t)
  \/ step = "JOIN_CODE" /\ IsInviteCode(t)

InWorkflow(state, t) ==
  CASE state.step \in DOMAIN Work!Asks ->
         IF ~Accepts(state.step, t) THEN "free"
         ELSE IF state.step = "JOIN_CODE" THEN "preview" ELSE "advance"
    [] state.step = "CREATE_CONFIRM" ->
         IF ~IsConfirmation(t) THEN "free"
         ELSE IF DraftValid(state) THEN "finish" ELSE "discard"
    [] state.step = "JOIN_CONFIRM" ->
         IF IsConfirmation(t) THEN "finish" ELSE "preview"

Get(h) ==
  /\ pc[h] = "get"
  /\ LET operation == IF Live = None THEN AtRest(text[h])
                      ELSE InWorkflow(Live, text[h])
     IN IF operation = "free" THEN Return(h)
        ELSE /\ Await(h, operation)
             /\ read' = [read EXCEPT ![h] = Live]
             /\ UNCHANGED text
  /\ UNCHANGED <<doc, begun, lives, outcomes>>

ListTontines(h) ==
  /\ pc[h] = "list"
  /\ Return(h)
  /\ UNCHANGED <<doc, begun, lives, outcomes>>

-----------------------------------------------------------------------------
(* Mutant of Restarted: the answers of the expired conversation are kept. *)
RestartedWithOldAnswers(t) ==
  [step |-> IF MenuCommand(t) = "CREATE_TONTINE" THEN "CREATE_NAME"
            ELSE "JOIN_CODE",
   version |-> IF doc = None THEN 1 ELSE doc.version + 1,
   expired |-> FALSE,
   data |-> IF doc = None THEN <<>> ELSE doc.data,
   conversation |-> begun + 1,
   life |-> IF doc = None THEN lives + 1 ELSE lives]

(* The document after begin: an insertion, or an expired one started over. *)
Restarted(t) ==
  [step |-> IF MenuCommand(t) = "CREATE_TONTINE" THEN "CREATE_NAME"
            ELSE "JOIN_CODE",
   version |-> IF doc = None THEN 1 ELSE doc.version + 1,
   expired |-> FALSE,
   data |-> <<>>,
   conversation |-> begun + 1,
   life |-> IF doc = None THEN lives + 1 ELSE lives]

(* begin: an upsert whose filter accepts no document or an expired one.    *)
(* (The filter also accepts the step IDLE, which nothing ever stores.)     *)
Begin(h) ==
  /\ pc[h] = "begin"
  /\ Live = None
  /\ begun < MaxConversations
  /\ begun' = begun + 1
  /\ lives' = IF doc = None THEN lives + 1 ELSE lives
  /\ doc' = Restarted(text[h])
  /\ Return(h)
  /\ UNCHANGED outcomes

(* DuplicateKeyError: a live document exists. *)
BeginConflict(h) ==
  /\ pc[h] = "begin"
  /\ Live # None
  /\ Return(h)
  /\ UNCHANGED <<doc, begun, lives, outcomes>>

(* find_by_invite_code, for the preview of a tontine before joining it. *)
PreviewFound(h) ==
  /\ pc[h] = "preview"
  /\ IF read[h].step = "JOIN_CODE"
     THEN Await(h, "advance") /\ UNCHANGED <<text, read>>
     ELSE Return(h)
  /\ UNCHANGED <<doc, begun, lives, outcomes>>

PreviewUnknown(h) ==
  /\ pc[h] = "preview"
  /\ Return(h)
  /\ UNCHANGED <<doc, begun, lives, outcomes>>

(* Mutant of Matches: a document at the same step. *)
MatchesStep(h) == doc # None /\ doc.step = read[h].step

(* The filter of transition and finish: the step and version that h read.  *)
Matches(h) ==
  /\ doc # None
  /\ doc.step = read[h].step
  /\ doc.version = read[h].version

(* Mutant of Filled: only the new answer is written. *)
FilledAlone(h) ==
  LET field == Work!Asks[read[h].step]
  IN [f \in {field} |-> [conversation |-> read[h].conversation,
                         valid |-> TRUE]]

(* {**state.data, field: answer} *)
Filled(h) ==
  LET field == Work!Asks[read[h].step]
      answer == [conversation |-> read[h].conversation,
                 valid |-> field = "amount" => IsDraftAmount(text[h])]
  IN [f \in DOMAIN read[h].data \union {field} |->
       IF f = field THEN answer ELSE read[h].data[f]]

Advance(h) ==
  /\ pc[h] = "advance"
  /\ Matches(h)
  /\ doc' = [doc EXCEPT !.step = Work!Follows[read[h].step],
                        !.version = @ + 1,
                        !.expired = FALSE,
                        !.data = Filled(h)]
  /\ Return(h)
  /\ UNCHANGED <<begun, lives, outcomes>>

(* Mutant of AdvanceConflict: it is tried again until it is accepted. *)
AdvanceRetried(h) == pc[h] = "advance" /\ ~Matches(h) /\ UNCHANGED vars

AdvanceConflict(h) ==
  /\ pc[h] = "advance"
  /\ ~Matches(h)
  /\ Return(h)
  /\ UNCHANGED <<doc, begun, lives, outcomes>>

-----------------------------------------------------------------------------
(* A confirmation first closes the conversation ...                        *)
Finish(h) ==
  /\ pc[h] = "finish"
  /\ Matches(h)
  /\ doc' = None
  /\ Await(h, IF read[h].step = "CREATE_CONFIRM" THEN "create" ELSE "join")
  /\ UNCHANGED <<text, read, begun, lives, outcomes>>

(* Mutant of FinishConflict: the deleted count is not looked at. *)
FinishUnchecked(h) ==
  /\ pc[h] = "finish"
  /\ ~Matches(h)
  /\ Await(h, IF read[h].step = "CREATE_CONFIRM" THEN "create" ELSE "join")
  /\ UNCHANGED <<doc, text, read, begun, lives, outcomes>>

FinishConflict(h) ==
  /\ pc[h] = "finish"
  /\ ~Matches(h)
  /\ Return(h)
  /\ UNCHANGED <<doc, begun, lives, outcomes>>

(* ... then creates or joins the tontine.                                  *)
CreateOrJoin(h) ==
  /\ pc[h] \in {"create", "join"}
  /\ outcomes' = [outcomes EXCEPT ![read[h].conversation] = @ + 1]
  /\ Return(h)
  /\ UNCHANGED <<doc, begun, lives>>

(* TontineFull, AlreadyMember, TontineClosed, TontineNotFound: told to the *)
(* user; the conversation is over all the same.                            *)
JoinRefused(h) ==
  /\ pc[h] = "join"
  /\ Return(h)
  /\ UNCHANGED <<doc, begun, lives, outcomes>>

(* The draft is refused: the document, whatever it is now, is cleared. *)
Discard(h) ==
  /\ pc[h] = "discard"
  /\ doc' = None
  /\ Return(h)
  /\ UNCHANGED <<begun, lives, outcomes>>

(* The operation fails (PyMongoError, InviteCodeGenerationFailed) or the   *)
(* process dies: nothing undoes what the handler did before.               *)
Fail(h) ==
  /\ pc[h] # "free"
  /\ Return(h)
  /\ UNCHANGED <<doc, begun, lives, outcomes>>

-----------------------------------------------------------------------------
(* STATE_TTL passes; the TTL monitor deletes some time later.              *)
Expire ==
  /\ Live # None
  /\ doc' = [doc EXCEPT !.expired = TRUE]
  /\ UNCHANGED <<pc, text, read, begun, lives, outcomes>>

TTLDelete ==
  /\ doc # None
  /\ doc.expired
  /\ doc' = None
  /\ UNCHANGED <<pc, text, read, begun, lives, outcomes>>

-----------------------------------------------------------------------------
Handle(h) ==
  \/ Receive(h) \/ Clear(h) \/ Get(h) \/ ListTontines(h)
  \/ Begin(h) \/ BeginConflict(h)
  \/ PreviewFound(h) \/ PreviewUnknown(h)
  \/ Advance(h) \/ AdvanceConflict(h)
  \/ Finish(h) \/ FinishConflict(h)
  \/ CreateOrJoin(h) \/ JoinRefused(h) \/ Discard(h)

Next ==
  \/ \E h \in Handlers : Handle(h) \/ Fail(h)
  \/ Expire
  \/ TTLDelete

Spec == Init /\ [][Next]_vars
-----------------------------------------------------------------------------
(* Properties                                                              *)

(* A stored state, and every state a handler still holds, has exactly the  *)
(* answers its step relies on: state.data["name"] and its like never raise *)
(* KeyError, however stale the handler is.                                 *)
Required ==
  [CREATE_NAME |-> {},
   CREATE_AMOUNT |-> {"name"},
   CREATE_FREQUENCY |-> {"name", "amount"},
   CREATE_MEMBERS |-> {"name", "amount", "frequency"},
   CREATE_CONFIRM |-> {"name", "amount", "frequency", "expected_members"},
   JOIN_CODE |-> {},
   JOIN_CONFIRM |-> {"invite_code"}]

DataMatchesStep ==
  \A s \in {doc} \union {read[h] : h \in Handlers} :
    s # None => DOMAIN s.data = Required[s.step]

(* "si deux confirmations se croisent, une seule remporte le               *)
(* compare-and-swap, donc une seule tontine nait": a conversation creates  *)
(* or joins at most once.                                                  *)
OneOutcomePerConversation ==
  \A i \in 1..MaxConversations : outcomes[i] <= 1

(* What holds of it: the version starts again with the document, so a late *)
(* confirmation may win against a later conversation, but never without    *)
(* one, and a conversation never against more than have begun since.       *)
OutcomesBounded ==
  \A i \in 1..begun : outcomes[i] <= begun - i + 1

(* "Un conflit n'ecrase jamais l'etat recent", as long as the document is  *)
(* not deleted: a transition or a closing that takes effect applies to the *)
(* very state its handler read, which the version, continued by a restart  *)
(* on an expired document, tells from every other.                         *)
VersionProtects ==
  [][\A h \in Handlers : pc[h] \in {"advance", "finish"} /\ doc' # doc
       /\ pc'[h] # pc[h] /\ doc # None /\ doc.life = read[h].life =>
       /\ doc.conversation = read[h].conversation
       /\ doc.data = read[h].data]_vars

(* What was cancelled, concluded or has expired stays so.  A deleted       *)
(* document is followed by a new conversation only.  An expired one is     *)
(* "traite comme inexistant", whether the TTL monitor has passed or not:   *)
(* no message read after that resumes or concludes it.  What does come     *)
(* back to life is begun over, or answered by a handler that had read it   *)
(* alive: transition and finish do not look at expires_at again.           *)
Begun == begun' = begun + 1 /\ doc'.conversation = begun'
Acts(h) == pc[h] \in {"advance", "finish"} /\ pc'[h] # pc[h] /\ doc' # doc

GoneStaysGone ==
  [][/\ doc = None /\ doc' # None => Begun
     /\ \A h \in Handlers : Acts(h) => ~read[h].expired
     /\ doc # None /\ doc.expired /\ doc' # None /\ ~doc'.expired =>
          Begun \/ \E h \in Handlers : Acts(h)]_vars

(* Whatever messages cross, the document only moves as Workflow promises.  *)
RefinesWorkflow == Work!Spec
=============================================================================
