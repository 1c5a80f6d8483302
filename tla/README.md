# Tontine bot: verification project

TLA+ modules, TLC configurations and TLAPS proofs for the KEFRICO tontine bot
(`src/app`): a FastAPI process that receives WhatsApp messages from Meta's
webhook, leads each user through short conversations (create a tontine, join
one by its invite code, list one's tontines) and keeps everything in MongoDB.

There is no lock and no queue in the process. Every POST of Meta is a coroutine;
the coroutines of one process (and those of several processes) interleave at
each `await`, and what keeps the system correct is what MongoDB guarantees:
unique indexes, atomic updates of one document, and transactions. The models
are about exactly that: each action is one database operation, or one call to
Meta, with the code up to the next `await`.

## 1. Inventory

| Component (`src/app/...`) | State it keeps | Operations | What makes it correct |
| --- | --- | --- | --- |
| Tontine repository (`modules/tontines/repository.py`) | collections `tontines` (with the denormalised `active_members_count`) and `tontine_members` | `create_with_owner`, `join_by_code`, `list_for_user`, reads | counter = members, capacity never exceeded, unique codes, one membership per user, tontine and owner together or not at all, truthful answers, whole lists |
| Tontine service, drafts, permissions (`modules/tontines/service.py`, `schemas.py`, `permissions.py`) | none | delegation, bounds of a draft, who may see a code | a code goes to the owner only |
| Invite codes (`modules/tontines/invite_code.py`) | none | draw, normalise | what a user types names the code he means or none |
| Conversation service and repository (`modules/conversations/service.py`, `repository.py`, `schemas.py`) | collection `conversation_states`, one document per user: step, version, answers, expiry | `reply_to`; `get`, `begin`, `transition`, `clear`, `finish` | a late or concurrent message never overwrites a newer state; one conversation, one tontine; what is gone or expired does not come back |
| Command router and answer parsers (`modules/conversations/router.py`, `service.py`) | none | `parse_global_command`, `parse_menu_command`, `is_confirmation`, `_parse_amount`, `_parse_members` | a command or an answer is recognised where it is meant to be, and only there |
| Messaging service and repository (`modules/messaging`) | collections `webhook_events` (a status per event) and `messages` | `handle_events`; `claim_event`, `mark_event`, `store_*` | a message is processed and answered once, whatever Meta posts again; a status says what was done |
| Webhook endpoint and startup (`api/webhooks/whatsapp.py`, `main.py`, `infrastructure/database/indexes.py`) | `app.state.indexes_ready`, the indexes | `verify_webhook`, `receive_webhook`, `lifespan`, `ensure_indexes` | nothing is handled before the indexes exist; a 200 only for what is recorded |
| Payload parser (`infrastructure/whatsapp/parser.py`, `messaging/schemas.py`) | none | `parse_webhook_payload` | total; one event per recognised item, at least one in all; names of the right people |
| WhatsApp client (`infrastructure/whatsapp/client.py`) | none | `send_text_message` | a failure is a failure |
| Users (`modules/users`) | collection `users` | `get_or_create_from_whatsapp` | one user per number, the same for concurrent callers |
| Configuration, health (`core/config.py`, `api/health.py`, `infrastructure/database/mongodb.py`) | the settings of a process | `Settings`, `/health`, `/ready`, `ping` | an incomplete production does not start; `/ready` tells whether posts are taken |
| Signature, logging, middleware, texts | none | refusals, wording | |

How they interact. `receive_webhook` checks the configuration, that the process is
ready, the signature and the JSON, parses the body and awaits
`MessagingService.handle_events`, which takes the events of the batch one after
the other: claim (unique index), store the message, await the composer, send,
store the reply, mark. The composer finds or creates the user and calls
`ConversationService.reply_to`, which reads the user's conversation and makes at
most one conditional write on it; a confirmation then awaits the tontine
repository. No transaction spans two components. Each claim, conversation write
and tontine transaction takes effect on its own, and a failure between two of
them leaves the first one done.

What is hard here: two messages of one user handled at the same time; two users
and one seat; the same event posted twice, at once or after a crash; an
operation whose answer is lost (a commit, an insert, a send); state that expires
or is deleted while a handler holds a copy; reads outside of a transaction; a
process started while the database is down, or half way through its indexes;
texts that almost mean something. `PROJECT.json` lists each of these hazards at
its line, with the properties aimed at it.

## 2. Modules

| Module | Models | Extends / uses |
| --- | --- | --- |
| `TontineRegistry` | abstract: what the tontine repository promises (a register of tontines and seats, creation and joining indivisible) | |
| `TontineStore` | the tontine repository and the MongoDB transactions it runs in | refines `TontineRegistry` |
| `Listing` | "mes tontines": the two reads of a list beside those transactions | extends `TontineStore` |
| `Workflow` | abstract: what a user is promised about a conversation (two forms filled in order) | |
| `CommandRouter` | the keyword tables and the parsers of answers | |
| `Conversation` | the conversation service and repository, concurrent handlers of one user | extends `CommandRouter`, refines `Workflow` |
| `AtMostOnce` | abstract: what a user is promised about his messages | |
| `Gate` | abstract: what is taken for granted of the processes that handle posts | |
| `Messaging` | the webhook, the messaging service and repository, Meta's redelivery | refines `AtMostOnce`, `Gate` |
| `Bot` | both composed: the composer that `Messaging` calls is `Conversation` | instantiates both, refines `Messaging` |
| `Deployment` | configuration, startup, indexes, requests, probes, while the database comes and goes | refines `Gate` |
| `Text`, `Users`, `InviteCode`, `Amounts`, `Parser` | what arrives (a sender, a code, an amount, a payload) and what the code makes of it | |
| `Intake` | these four readers side by side, for one run | extends them |
| `TontineStoreProofs`, `TontineOutcomesProofs`, `ListingProofs`, `ConversationProofs`, `MessagingProofs`, `BotProofs`, `DeploymentProofs`, `IntakeProofs` | theorems | |
| `MC...` | finite instances: value sets and symmetry | |

An operator whose comment begins with "Mutant of" is a plausible wrong version
of the definition that follows it; no specification uses it. Substituting it
must break the property it is listed with in `PROJECT.json`, which shows that
the property can see such an error.

### TontineStore

One call `c` of the repository is a program counter `pc[c]`, its arguments, and
what its open transaction has staged (`txn[c]`: one tontine document and one
member). `tontines` and `members` are the committed collections.

* `join_by_code`: `CallJoin`, then `Reserve` (the `find_one_and_update` with its
  three-part filter: code, `OPEN`, a seat left), or `ReserveNothing` and
  `Diagnose` (not found / closed / full, on the snapshot of the failed
  reservation), then `InsertMember` or `InsertMemberDuplicate`.
* `create_with_owner`: `CallCreate`, `DrawCode` (a turn of the bounded loop),
  `InsertTontine` or `InsertTontineDuplicate` (next turn) and `InsertOwner`;
  `DrawExhausted` after `MAX_GENERATION_ATTEMPTS`.
* `_in_transaction`: `ServerCommit` applies the staged writes together;
  `CommitAcknowledged` is the client learning it; `Transient` is
  `with_transaction` running the callback again while its 120 s window
  (`window`) is open; `Fail` is any other error, an unresolved commit or the
  death of the process, after which the server may still commit, or aborts
  (`ServerAbort`).
* MongoDB: writing a document or unique key another open transaction has staged
  is a write conflict (`ReserveConflict`, `InsertTontineConflict`), a transient
  error.

`CloseTontine` has no code under `app/` yet. The join path handles a tontine
that is not `OPEN`, the integration tests make one by a direct update, and so
does the model (external).

### Listing

`list_for_user` and the text made of it. A listing `r` is asked for
(`Ask`), reads the memberships of the user (`FindMemberships`), then their
tontines (`FindTontines`), each outside of any transaction; the calls of
`TontineStore` go on in between. A line has the seats, capacity, status and code
of the second read and the role of the first one, which decides whether the code
is shown (`CanViewInviteCode`). `kept` is what the user had been told before he
asked, a history no guard reads.

### Conversation

`doc` is the user's document: step, version, `expired`, the answers (each with
the conversation it was given in and whether `TontineDraft` will accept it), and
two history fields, `conversation` and `life` (which beginning, which insertion),
that no guard reads. A handler `h` holds the message `text[h]` and the state
`read[h]` it got; `pc[h]` is the operation it will await next. `Get` is the read
with the whole decision that follows it (`AtRest`, `InWorkflow`). `Begin` is the
upsert, `Advance` and `Finish` the writes under `Matches`, the filter on step and
version; each has its `...Conflict` counterpart. `Clear` and `Discard` are
unconditional deletes, `Expire` and `TTLDelete` the passing of time, `Fail` an
exception or the death of the process at any await. Documents of different users
are disjoint, so one user is enough. A preview, creation or join is one step here
that succeeds or not; `TontineStore` is its detail.

Texts are model inputs chosen to reach every branch: `"1"` is at once the menu
entry of creation, a frequency, a confirmation and an amount, `"creer"` is a
command and a valid name, `"200000000"` passes the amount step and not the draft.

### Messaging

`status[e]` is the document of event `e` in `webhook_events`, `inbound` and
`outbound` the `messages` collection, `composed[e]` and `delivered[e]` count what
happened in the world: the composer ran, the user got a reply. A handler holds
its `batch` and the events `left`. `Claim`/`Duplicate`, `Ignore`, `StoreInbound`,
`Compose`, `SendAccepted`/`SendRefused`/`SendUncertain`, `StoreOutbound`,
`MarkReplied`, `MarkFailed` are the awaits of `_handle_event`; `NextEvent` is the
loop. `Fail` is an exception anywhere but in the send (which the service
catches): the operation may or may not have been applied (`PerhapsDone`), the
answer is a 500 and the rest of the batch is dropped. `StartReady`,
`StartNotReady`, `Stop` and `Crash` are the life of the process. `Post` may be any
batch at any time, also one already acknowledged: Meta may repeat itself. The process is one of those
of `Gate`: ready with the unique indexes only, which no step takes away (`Door`).

### Bot

`M` and `C` are instances of `Messaging` and `Conversation` on one state. A
handler about to compose starts the composer on its message (`ComposerStarts`),
the composer takes its steps (`ComposerGoesOn`), and its last one is `Messaging`'s
`Compose` (`ComposerReplies`); an exception in it fails the post
(`ComposerFails`), and a crash kills both (`Killed`). `moves`, `results` and
`reply` record, for each message, what it changed and what it was answered
(`Told`), which is what neither component can say alone. `RefinesMessaging` shows
that the model of the composer inside `Messaging` (one step, or a failure) is
right. In `Conversation`, `MaxConversations` stands for the fact that a message
begins at most one conversation.

### Deployment

A process `p` starts with some environment variables (`Start`: `Settings`, its
production checks, blanks as absent), pings the database, creates the eight indexes
in their order (`CreateIndex`, `CreateIndexFails`), serves, and answers requests
(`Verify`, `Post`) in the order of the code's checks. `indexes` belongs to the
database and outlives processes. `Outage` and `Recovery` are MongoDB's, `Stop` and
`Crash` end a process. Messaging takes over where a post is handled, and `Gate` is the
seam: a process that is ready, or has handled a post, is open in it (`Handling`), and the
unique indexes are one fact there (`Door`). `Messaging`, whose single process starts in one step, implements the same
module, so that nothing is taken for granted in it that `Deployment` does not provide.

### Users, InviteCode, Amounts, Parser

The readers of what arrives. The input is built step by step (a character, an item
of a payload), and the properties are about what the code would make of it as it
stands, so that every prefix is an input too. `Text` holds what they share; `Without`
(a text without some characters, a list without its `None`s) is a recursive function,
since what `SelectSeq` computes cannot be proved here.

* `Users`: `get_or_create` is `Insert`, or `InsertDuplicate` and then `Find`; `Fail`
  may have inserted all the same. Senders are sequences of characters, since
  `normalize_whatsapp_phone` makes different ones the same number.
* `InviteCode`: a code is drawn, and copied in one of three forms, in either case,
  with separators; `normalize_invite_code` reads the text.
* `Amounts`: an amount is typed, with or without separators of groups, cents or a
  sign that has no place there; `step_create_amount` is what becomes of it,
  `"sup2"` standing for the superscript two.
* `Parser`: a payload gets changes, contacts, messages and statuses, each field of
  which may be missing; `parse_webhook_payload` is the list of its events with their
  identifiers.

`Intake` puts the four side by side. They share no variable, so that every behaviour
of one among steps of the others is one of its own with stuttering; each behaviour of
`Intake` is therefore about one of them, its `subject`.

## 3. Runs

| Run | Instance | Distinct states | Shows |
| --- | --- | --- | --- |
| `store_safety` | 3 calls, 3 users, 2 tontines, 2 codes, capacity 2, 2 attempts | 226,557 | the seven invariants of the repository, that nothing is undone, that it implements `TontineRegistry` |
| `listing_calls` | 2 calls, 2 users, 2 tontines, 2 codes, 1 attempt, 1 listing | 358,367 | lists are whole, agree with what was answered before, show seats of one moment and codes to owners; every call ends and every reserved seat is resolved |
| `conversation_restart` | 3 handlers, 2 conversations, all texts | 1,614,025 | answers match steps; versions protect a document while it is not deleted; what is deleted or expired does not come back; outcomes are bounded; `Workflow` is implemented |
| `messaging_safety` | 2 handlers, 2 overlapping batches of 3 events, 2 faults | 72,980 | answered once, statuses and acknowledgements mean what is stored, `AtMostOnce` is implemented, every batch is acknowledged in the end if the process is ready again and again |
| `bot_crossing` | 3 messages, 2 handlers, 2 conversations, 1 fault | 891,017 | each message acts once, and its reply is true |
| `bot_faults` | 4 messages in one batch, 1 handler, 1 fault | 70,768 | `Messaging` is implemented; a message that is handled is settled |
| `deployment_start` | 2 processes, 6 environments, 2 faults | 231,226 | posts are handled with all unique indexes only, which stay (`Gate` is implemented); a production process lacks nothing; a start ends in service, database or not |
| `intake_readers` | payloads of 2 changes and 3 items; 3 calls, 4 senders; 256 suffixes, 1 separator; 7 amounts | 364,748 | names, events and users are those meant; a code is the one meant or none (and which are none); what an amount is read as |
| `conversation_twice`, `messaging_lost`, `amounts_raise`, `deployment_probe` | small | counterexamples | findings 1 to 4 |

Why the bounds are enough.

* *Store.* Two calls can compete for a seat; a third makes the third party that
  commits between a read and a write, or holds the other code. Capacity 2 is the
  smallest the code allows: the owner and one seat, so the last seat is always
  the one contended. Two codes and two attempts give collision, retry and
  exhaustion.
* *Listing.* One call that creates and one that joins; a listing relies on nothing
  that another listing does. One attempt makes exhaustion frequent.
* *Conversation.* A stale handler, the one that overtook it and a third message;
  a second conversation is what a stale handler can hit. `MaxConversations`
  bounds the beginnings, hence the versions. The version keeps counting within a
  document, so nothing else is cut off.
* *Messaging.* An event on its own after another one in its batch, and shared by
  two batches. `MaxFaults` bounds failures and crashes together; two are a failure
  and a second one during the replay.
* *Bot.* Two posts at a time, a message that begins and one that confirms, a fault
  at any await; in `bot_faults` a message (`aide`) that reads nothing as well. The
  second conversation is where a late message can land.
* *Deployment.* Two processes that create the same indexes, two faults among them,
  environments that start and environments that must not.
* *Intake.* Three calls with two numbers; suffixes over the letters of the prefix and
  one more, where the prefix can hide; amounts of one to seven digits, with every
  length of the first group; payloads where one odd item is before, after or between
  the others, or in the other change.

The theorems of section 5 hold for any number of calls, handlers, messages,
listings and processes; for the safety properties the runs are there to show that
the instances are what they seem, and to break the mutants.

`CHECK_DEADLOCK FALSE` is set for the store and the listings, where all calls end;
for conversations, where a handler about to begin one conversation more than
`MaxConversations` may be all that is left; and for the texts and payloads of
`Intake` and `Amounts`, which are finite. Messaging, Bot and Deployment cannot stop,
and TLC checks that they do not.

### Fairness

* *Listing* (`ListingFairSpec`, with the fairness of `TontineStore`): the event loop
  runs every ready coroutine (weak fairness of `Step(c)` for each call); the server
  aborts abandoned transactions (`transactionLifetimeLimitSeconds`: weak fairness of
  `ServerAbort`); time passes (weak fairness of `CloseWindow`, the 120 s of
  `with_transaction`). Nothing is assumed of callers, faults or closings.
  `EveryCallEnds` holds because the window closes: without it, two calls could make
  each other conflict for ever.
* *Messaging* (`FairSpec`): weak fairness of each handler (event loop); strong fairness
  of posting each batch that has no 200 yet (Meta retries until it gets one; strong,
  because the process may be down or busy in between). `EveryBatchAcknowledged` is
  conditional: if the process is ready again and again, every batch is acknowledged.
  That it is ready again is not assumed, because nothing in the code or the deployment
  sees to it: the flag is set at startup only, the container's health check asks
  `/health`, and nothing restarts a process that refuses posts (finding 4).
* *Bot* (`FairSpec`): weak fairness of each handler, through all the awaits of the
  composer too.
* *Deployment* (`FairSpec`): weak fairness of each `Lifespan`: the event loop, and the
  driver, whose operations end with a result or a timeout. The database need not come
  back, and nobody restarts anything.

Fairness is never put on faults, restarts, users or the recovery of the database.

## 4. Findings

Each is a run expected to be violated, whose trace is the scenario.

1. `conversation_twice` (`OneOutcomePerConversation`). The version starts at 1 again
   when the document has been deleted, so the (step, version) a late handler read may
   match another conversation. Two confirmations of one conversation both succeed when
   a second conversation stands at its confirmation when the late one is executed: two
   tontines are created from the first conversation, and the second is gone. In the
   same way a late answer overwrites a newer conversation, contrary to "un conflit
   n'écrase jamais l'état récent" (`service.py:168`). What does hold is proved:
   `VersionProtects` while the document lives, and `OutcomesBounded`. Keeping the
   version over a deletion would repair it.
2. `messaging_lost` (`NothingLost`). A database error after the claim: Meta posts
   again, the event is a duplicate, it is acknowledged, and nobody ever handles
   it, although the README says that nothing is lost when MongoDB is unavailable.
   It is a 500 rather than the 503 of the README, too. It is the price of at-most-once
   processing, which does hold (`RepliedOnce`, `ActsOnce`).
3. `amounts_raise` (`BadAmountAskedAgain`). `isdigit` is true of a superscript, which
   `int` refuses: an exception instead of the question. So does a number of more than
   eight bytes, when it is written. An amount above `MAX_AMOUNT` is taken, and three
   answers later reaches the branch of the confirmation that the code takes for
   unreachable, which ends in an unconditional `clear`. And a point is removed wherever it
   stands: `100.50` is read as 10050 francs, although "un montant décimal est refusé"
   (`tontines/schemas.py:69`), which `test_router_and_codes.py:187-190` says of this very
   amount; the validator cannot see a decimal any more. TLC's trace is the shortest of these
   cases. `AmountReadExactly` has what becomes of cents as it is.
4. `deployment_probe` (`ReadyTruthful`). `/ready` pings the database; the flag that
   makes the webhook refuse every post is set at startup only. A process started while
   the database was down answers 200 to `/ready` once it is back, and 503 to every post
   until somebody restarts it, although `main.py:29-30` leaves it to the readiness check
   to report this.

### Disagreements that no run shows

In these the code is modelled as it is, the properties say what does hold, and the texts
of the repository say more. They have no counterexample of their own, as each follows from
one action of a module.

* *An expired conversation goes on.* "Un état expiré est traité comme inexistant"
  (`conversations/repository.py:46`) is so of `get` and `begin`, and so is
  `test_conversation_flow.py:278`: a message read after the expiry resumes nothing. But
  `transition` and `finish` (lines 101-105 and 124-133) do not look at `expires_at`: a
  handler that read the state just before takes it up again, with a new time to live, or
  concludes it. `GoneStaysGone` says both; `Workflow` lets such an answer come late.
* *A reply said not to be sent was.* A read timeout, or an answer of Meta without a
  message id, is a failure to the code even if the reply was delivered (`SendUncertain`).
  The event is `REPLY_FAILED`, of which `messaging/schemas.py:66-70` and
  `messaging/service.py:136-138` say that only the send failed and that the reply may be
  sent later: a recovery written after these lines sends some replies twice. `StatusTruthful`
  says of such an event that the message was stored and composed once and that no reply is
  stored, and nothing of its delivery; `RepliedOnce` holds as long as nothing sends again.
* *A suffix that begins with KFT.* `normalize_invite_code` cuts these letters from any
  text, also from a bare suffix that begins with them, and refuses what is left, although
  the three forms "donnent tous le même code" (`invite_code.py:27`). `CodeOrNothing` and
  `CodeReadExactly` say exactly which texts are read and which are refused.
* *A conversation cleared without an order.* `clear` is unconditional because "seul un
  ordre explicite l'appelle" (`conversations/repository.py:120`); the confirmation of a
  draft that `TontineDraft` refuses calls it without any (`Discard`; an amount above
  `MAX_AMOUNT` is enough). If the user has begun another conversation meanwhile, that one
  is deleted. No property bounds deletions.

A confirmation closes the conversation before it creates or joins, so that an error in
between loses the answers. The code does so on purpose, and no text promises that a
confirmed conversation has its tontine: there is a hazard and no property about it.

## 5. Proofs

All theorems are checked by TLAPS for every value of the constants. Assumptions
are the named `ASSUME`s of the modules only: the bounds are natural numbers,
`None` is none of the values it stands for the absence of, capacities lie in
2..100, text messages are events, a batch is a non-empty sequence of events (a theorem
about the parser, `BatchesAreOfEvents`, says that it is), environments have the shape of
`Settings`; suffixes have six letters of the alphabet, no letter is a separator, those of
the prefix are in the alphabet, and an upper case letter is its own upper case; an amount
meant is a sequence of digits that does not begin with zero nor has exactly nineteen
(some of those fit in the eight bytes of MongoDB and some do not). The sets of calls,
users, codes, readers, handlers, events, batches, processes, suffixes, amounts and of the
fields of a payload need not be finite.

**TontineStoreProofs.** `CounterMatchesMembers` is not inductive alone: a commit
replaces the whole document by the one staged earlier. `IInv` adds what makes
that harmless: where a call stands determines what it has staged
(`ControlSound`); a staged document is still the committed one plus one seat, or
a new tontine under a code still unused, and the staged member is still no member
(`StagingSound`); no two open transactions stage one document or one code
(`StagingExclusive`). That last conjunct is what write conflicts buy, and why the
other two survive the commits of others. `CommittedSound` then gives, for
committed documents, the counter, the capacity and the uniqueness rules. Theorems:
`Invariant`, `TypeCorrect`, `CounterCorrect`, `CapacityHolds`, `CodesUnique`,
`OneMembership`, `NeverUndone`.

**TontineOutcomesProofs.** On top of `IInv`. Only commits and closings touch what is
committed (`ThreeKindsOfStep`), and a commit adds one member to one tontine
(`CommitAdds`). `OutcomesSound` says what a call has written at each point of its
coroutine; `RefusalsSound` that the snapshot a diagnosis reads is a reason that
cannot go away. The simulation of `TontineRegistry` has one step per `ServerCommit`
or `CloseTontine`, all others stutter. Theorems: `OwnedFromBirth`, `AnswersAreTrue`,
`RefusedForAReason`, `ImplementsRegistry`.

**ListingProofs.** Every step of `ListingSpec` is a step or a stutter of the calls, so
the invariants above hold of it too (`StoreInv`, with the fact that a membership is of
the tontine its call asked for). `ReaderSound` says what a listing relies on: what the
first read found is still so, since nobody leaves, and what the user had been told is
where the listing looks next. That the number of lines is the number of memberships
comes from `OneMembershipPerUser`, and the seats of a line from the counter.
`ListingsOnlyRead`: beside any listings the calls behave as `TontineStore`, and the
register is implemented. Theorems: `ListingsOnlyRead`, `ListingInvariant`,
`ListingTypeCorrect`, `NothingByHalf`, `OwnWritesAreRead`,
`SeatsAreRight`, `CodesToOwners`.

**ConversationProofs.** `IInv` says what a handler holds at each await (never a state that had expired), that every state
stored or held has the answers of its step, and that a state held of the document's
own life is never newer than it; `(life, version)` thus names one state, which is
`VersionProtects`. `Balanced` is the bookkeeping behind `OutcomesBounded`: the outcomes
of a conversation, the handlers that may still produce one and the document never add up
to more than the conversations begun since. Theorems: `Invariant`, `TypeCorrect`,
`AnswersComplete`, `FilterProtects`, `NeverBack`, `ImplementsWorkflow`,
`OutcomesAreBounded`.

**MessagingProofs.** `RepliedOnce` rests on the unique index being there whenever
a handler runs (`Gated`: readiness implies the index, and an index outlives the
process), hence at most one handler treats an event (`OneHandler`), where it
stands tells what has been done (`HandlersSound`), and an abandoned event has been
composed and delivered at most once (`CountersSound`). `BatchSound` (the events
passed have been recorded) carries `AcknowledgedIsRecorded`. Theorems:
`Invariant`, `TypeCorrect`, `NoSecondReply`, `NoSecondProcessing`, `StatusIsTrue`,
`AcknowledgedRecorded`, `ImplementsAtMostOnce`, `RunsBehindGate`, `SettledForGood`.

**BotProofs.** A proof by composition: the modules of proofs of `Messaging` and
`Conversation` are instantiated on the state of `Bot` (`MP`, `CP`), every step of `Bot`
is shown to be a step or a stutter of each, or a crash that ends the composers, and
their invariants carry over. What is left is about both: a composer runs only while `Messaging` has its handler about to
compose, and what the message of a handler has done follows from where its composer
stands. Then the theorems of the halves are theorems of the whole, though the composer
is many steps in `Bot` and one in `Messaging`, and a crash ends several handlers at once
(`Killed`) where `Conversation` loses them one by one: an invariant of a half is one of
`Bot`, a refinement is one after the simulation of the half. Theorems: `Invariant`,
`TypeCorrect`, `MessageActsOnce`, `RepliesAreTrue`, `ImplementsMessaging`; and, of the
halves, `ImplementsAtMostOnce`, `WebhookIsSound`, `ImplementsWorkflow`,
`AnswersComplete`, `OutcomesAreBounded`, `FilterProtects`, `NeverBack`.

**DeploymentProofs.** `SoundAt`: what a process has created is in the database, it is
ready after its last index only, and a production process has every variable. Theorems:
`Invariant`, `TypeCorrect`, `NeverWithoutIndexes`, `ProductionComplete`, `ProvidesGate`
(a process opens `Gate` in the step that creates its last index; `ReadyIndexed` says that
the unique ones are all there then).

**IntakeProofs.** What a loop over a text or a payload leaves, for texts and payloads of
any length, is induction over data. The induction theorems of the library take an
operator as a parameter, which the provers cannot instantiate; here induction is about
sets instead (`SetInduction`: a set with 0 and the successors of its elements has every
number, from the well-foundedness of `<`), and gives functions defined by recursion
(`Recursion`). From these: induction over sequences (`AppendInduction`), what
`Without` and `FlattenSeq` return (`WithoutAppend`, `WithoutConcat`, `WithoutElements`,
`FlattenAppend`, `FlattenElements`).

* *Codes.* `CodeIInv`: without separators and in upper case, the text is the beginning of
  the form copied, up to where the user is. `CodeInvariant`, `CodeReadExactly` (for any suffix and form, what is read and
  what is refused: the suffix that begins with KFT is part of the statement, as a refusal).
* *Amounts.* `AmountIInv`: without separators the text is the digits typed so far, until
  a sign or cents, which stay in it. `AmountInvariant`, `AmountIsRead` (what
  finding 3 says of cents after a point is part of the statement, as two more digits).
* *Payloads.* Appending an item to a list of a change, or a change to the payload, leaves
  the keys of the events as they are or inserts one (`OneMore`), through the removal of
  what is not recognised and the concatenation of what is; the event that stands for an
  empty payload goes when the first one comes. `NamesAreOfTheirSenders`,
  `ItemsDoNotInterfere`, `BatchesAreOfEvents`.
* *Users.* `IInv` adds to the uniqueness of numbers that a returned user is the one
  stored under the number asked, and that a collision can be read back.
  `UsersInvariant`, `UsersTypeCorrect`, `OneUser`, `SameUser`, `CollisionRead`,
  `UsersNeverLeave`.

`ReadersApart` shows that `Intake` is each of the four with stuttering, and
`IntakeIsRight` collects what its run checks.

The inductive invariants, and the type invariants of the modules other than `Bot`, are
no properties of the runs: they are proved.

## 6. Only model-checked, and not modelled

Only model-checked: everything that must eventually happen (`EveryCallEnds`,
`ReservationsResolved`, `EveryBatchAcknowledged`, `HandledIsSettled`, `StartNotBlocked`),
since fairness and ENABLED are out of the prover's reach. Every invariant, action property
and refinement that a run checks is proved. `Messaging`'s implementation of `Gate`
(`RunsBehindGate`) is proved and no property of a run: it is a fact about three actions. What is not so in the code, the four
properties of section 4, has counterexamples; the other disagreements are listed there.

Not modelled: the digest behind a signature (a verdict here), wording, logging and
correlation identifiers, timestamps (only "expired or not" matters), the decoding of
Meta's error bodies and `is_retryable`, which nothing reads, `can_view_tontine`, which
nothing calls. `get_by_id` and `find_by_invite_code` are reads of one document.
`normalize_text` (accents, case) is represented by its results on samples. An identifier
in `Parser` is the tuple of its parts, not the parts joined by colons.

Left out of the modelled parts: the order of documents in a collection, names beyond
valid or not, and MongoDB failing over to a node without the last majority-committed
writes.

## 7. Plan

Done, the most important behaviour first: the tontine store with its abstract register,
the conversations with the workflow they implement, messaging, users, each with
proofs; then the readers of what arrives, the abstract `AtMostOnce`, the composition
`Bot`, the deployment, the listings, and the proofs of all safety
properties; `Gate`, between the deployment and messaging, and what is proved of the halves
carried over to `Bot`.

Next: the tontine calls of a conversation composed with `TontineStore` itself, for
several users (a preview, then a confirmation of what may have filled up meanwhile);
payments and reminders when there is code for them.
