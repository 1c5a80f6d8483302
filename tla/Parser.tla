------------------------------- MODULE Parser -------------------------------
(***************************************************************************)
(* parse_webhook_payload (app/infrastructure/whatsapp/parser.py) and the   *)
(* events of app/modules/messaging/schemas.py: the body Meta posts, in     *)
(* which any part may be missing, and the events MessagingService gets.    *)
(*                                                                         *)
(* A payload is the sequence of its changes, the entries one after the     *)
(* other.  None stands for a value _as_str refuses: absent, empty, or of   *)
(* another type; an item whose fields are None for one that is no object.  *)
(* The payload grows an item at a time: a property of each step says what  *)
(* one item does to the events of the others.                              *)
(***************************************************************************)
EXTENDS SequencesExt, Text

CONSTANTS
  MessageIds,      \* identifiers of messages
  Senders,  \* wa_id's
  Profiles,    \* profile names
  MaxItems, \* bound: contacts, messages and statuses of a payload
  MaxChanges \* bound: changes of a payload

VARIABLE payload

WhatsAppMessageType == {"text", "image", "audio", "unknown"}

Contacts == [wa_id : Senders \union {None}, name : Profiles \union {None}]
Messages == [id : MessageIds \union {None}, from : Senders \union {None},
             type : {"text", "undocumented"}, body : {"some text", None}]
Statuses == [id : MessageIds \union {None}, status : {"sent", None}]
Changes == [contacts : Seq(Contacts), messages : Seq(Messages),
            statuses : Seq(Statuses)]

(* The events of the items that are recognised: None is not one of them. *)
Events ==
  [external_id : Seq(MessageIds), sender : Senders,
   sender_name : Profiles \union {None}, type : WhatsAppMessageType,
   text : {"some text", None}]
  \union [external_id : Seq(MessageIds \union {"sent"})]

ASSUME ParserAssumption == None \notin Events

Size(change) ==
  Len(change.contacts) + Len(change.messages) + Len(change.statuses)

Items == FoldSeq(LAMBDA change, n : n + Size(change), 0, payload)

PayloadInit == payload = <<>>

AddChange ==
  /\ Len(payload) < MaxChanges
  /\ payload' =
       Append(payload, [contacts |-> <<>>, messages |-> <<>>, statuses |-> <<>>])

AddItem ==
  /\ payload # <<>>
  /\ Items < MaxItems
  /\ LET n == Len(payload)
     IN \/ \E c \in Contacts :
             payload' = [payload EXCEPT ![n].contacts = Append(@, c)]
        \/ \E m \in Messages :
             payload' = [payload EXCEPT ![n].messages = Append(@, m)]
        \/ \E s \in Statuses :
             payload' = [payload EXCEPT ![n].statuses = Append(@, s)]

PayloadNext == AddChange \/ AddItem

PayloadSpec == PayloadInit /\ [][PayloadNext]_payload
-----------------------------------------------------------------------------
(* Mutant of profile_name: the first contact is taken for the sender. *)
profile_name_first(contacts, wa_id) ==
  IF contacts = <<>> THEN None ELSE Head(contacts).name

(* The first contact with that wa_id, named or not. *)
profile_name(contacts, wa_id) ==
  LET n == SelectInSeq(contacts, LAMBDA c : c.wa_id = wa_id)
  IN IF n = 0 THEN None ELSE contacts[n].name

parse_type(type) == IF type \in WhatsAppMessageType THEN type ELSE "unknown"

(* None, or the event. *)
parse_message(m, contacts) ==
  IF None \in {m.id, m.from} THEN None
  ELSE [external_id |-> <<m.id>>,
        sender |-> m.from,
        sender_name |-> profile_name(contacts, m.from),
        type |-> parse_type(m.type),
        text |-> IF m.type = "text" THEN m.body ELSE None]

parse_status(s) ==
  IF None \in {s.id, s.status} THEN None
  ELSE [external_id |-> <<s.id, s.status>>]

Recognised(parsed) == Without(parsed, {None})

(* Mutant of parse_change: the first unrecognised item ends the loop. *)
parse_change_until_unrecognised(change) ==
  LET parsed ==
        [i \in DOMAIN change.messages |->
           parse_message(change.messages[i], change.contacts)]
        \o [i \in DOMAIN change.statuses |-> parse_status(change.statuses[i])]
      n == SelectInSeq(parsed, LAMBDA e : e = None)
  IN IF n = 0 THEN parsed ELSE SubSeq(parsed, 1, n - 1)

parse_change(change) ==
  Recognised([i \in DOMAIN change.messages |->
                parse_message(change.messages[i], change.contacts)]
             \o [i \in DOMAIN change.statuses |->
                   parse_status(change.statuses[i])])

Unknown == [external_id |-> <<"sha256", payload>>]

events == FlattenSeq([i \in DOMAIN payload |-> parse_change(payload[i])])

parse_webhook_payload == IF events = <<>> THEN <<Unknown>> ELSE events
-----------------------------------------------------------------------------
(* Properties                                                              *)

Keys == LET all == parse_webhook_payload
        IN [i \in DOMAIN all |-> all[i].external_id]

(* The name a user is created under is never somebody else's: it comes     *)
(* from a contact with the sender's wa_id, in the change of the message.   *)
NameIsOwn ==
  \A e \in ToSet(parse_webhook_payload) :
    "sender_name" \in DOMAIN e /\ e.sender_name # None =>
      \E change \in ToSet(payload) :
        /\ \E m \in ToSet(change.messages) : <<m.id>> = e.external_id
        /\ [wa_id |-> e.sender, name |-> e.sender_name] \in ToSet(change.contacts)

(* "aucun d'eux ne doit provoquer d'erreur": an item of a payload, however *)
(* odd, adds its own event or none, and neither hides nor reorders those   *)
(* of the other items; "renvoie toujours au moins un evenement", an        *)
(* unknown one only when it is alone.                                      *)
OneMoreEvent ==
  [][\E before \in {IF events = <<>> THEN <<>> ELSE Keys}, after \in {Keys'} :
       \/ after = IF before = <<>> THEN <<Unknown.external_id>>' ELSE before
       \/ \E i \in DOMAIN after : RemoveAt(after, i) = before]_payload
=============================================================================
