----------------------------- MODULE Deployment -----------------------------
(***************************************************************************)
(* Processes that start with some configuration while the database comes   *)
(* and goes, create the indexes one after the other, and answer Meta       *)
(* (app/core/config.py, app/main.py, infrastructure/database, api/health,  *)
(* api/webhooks/whatsapp.py).  Messaging takes over where a post is        *)
(* handled; here it is what has to be true before that.                    *)
(***************************************************************************)
EXTENDS Naturals, Sequences

CONSTANTS
  Processes,
  Environments,  \* what the environment variables of a process may hold
  MaxFaults,     \* bound: outages of the database, failures and crashes
  None

Fields == {"meta_verify_token", "meta_app_secret", "whatsapp_access_token",
           "whatsapp_phone_number_id"}

(* A variable may be missing, hold blanks, or be set. *)
ASSUME DeploymentAssumption ==
  /\ Environments \subseteq
       [environment : {"local", "staging", "production"}, remote : BOOLEAN,
        given : [Fields -> {"absent", "blank", "set"}]]
  /\ MaxFaults \in Nat
  /\ None \notin {"not_configured", "replied", "reply_failed"}

VARIABLES
  environ,   \* environ[p]: the environment process p was started with, or None
  settings,  \* settings[p]: the fields its Settings has a value for
  stage,     \* stage[p]: where its lifespan is
  created,   \* created[p]: how many of the indexes it has created
  ready,     \* ready[p]: app.state.indexes_ready
  answer,    \* answer[p]: to the last request it got, or None
  indexes,   \* the indexes of the database
  up,        \* the database answers
  faults

vars == <<environ, settings, stage, created, ready, answer, indexes, up, faults>>

(* In the order of ensure_indexes, and those created with unique=True. *)
Indexes == <<"webhook_event", "message", "user_phone", "invite_code", "member",
             "member_user", "conversation_user", "conversation_ttl">>
UniqueIndexes == {"webhook_event", "message", "user_phone", "invite_code",
                  "member", "conversation_user"}

Answers == {"not_configured", "not_ready", "forbidden", "malformed",
            "challenge", "replied", "reply_failed"}

TypeOK ==
  /\ environ \in [Processes -> Environments \union {None}]
  /\ settings \in [Processes -> SUBSET Fields]
  /\ stage \in [Processes -> {"down", "ping", "index", "serving"}]
  /\ created \in [Processes -> 0..8]
  /\ \A p \in Processes : stage[p] = "index" => created[p] < 8
  /\ ready \in [Processes -> BOOLEAN]
  /\ answer \in [Processes -> Answers \union {None}]
  /\ indexes \subseteq {Indexes[i] : i \in 1..8}
  /\ up \in BOOLEAN /\ faults \in 0..MaxFaults

Init ==
  /\ environ = [p \in Processes |-> None]
  /\ settings = [p \in Processes |-> {}]
  /\ stage = [p \in Processes |-> "down"]
  /\ created = [p \in Processes |-> 0]
  /\ ready = [p \in Processes |-> FALSE]
  /\ answer = [p \in Processes |-> None]
  /\ indexes = {} /\ up \in BOOLEAN /\ faults = 0

-----------------------------------------------------------------------------
(* _empty_string_is_none: blanks are no value. *)
Configured(e) == {f \in Fields : e.given[f] = "set"}

Required == Fields  \* WHATSAPP_REQUIRED_FIELDS

(* Mutant of Valid: any field will do. *)
ValidIfAny(e) ==
  e.environment = "production" => e.remote /\ Configured(e) # {}

Valid(e) ==
  e.environment = "production" => e.remote /\ Required \subseteq Configured(e)

(* create_app, with the environment of that moment: an invalid one raises  *)
(* and the process exits.                                                  *)
Start(p) ==
  /\ stage[p] = "down"
  /\ \E e \in Environments :
       /\ Valid(e)
       /\ environ' = [environ EXCEPT ![p] = e]
       /\ settings' = [settings EXCEPT ![p] = Configured(e)]
  /\ stage' = [stage EXCEPT ![p] = "ping"]
  /\ ready' = [ready EXCEPT ![p] = FALSE]
  /\ UNCHANGED <<created, answer, indexes, up, faults>>

Goto(p, s) == stage' = [stage EXCEPT ![p] = s]

(* Mutant of Ping: the database is waited for. *)
PingWaits(p) ==
  /\ stage[p] = "ping" /\ up
  /\ Goto(p, "index")
  /\ UNCHANGED <<environ, settings, created, ready, answer, indexes, up, faults>>

(* lifespan: an unreachable database does not prevent the start. *)
Ping(p) ==
  /\ stage[p] = "ping"
  /\ Goto(p, IF up THEN "index" ELSE "serving")
  /\ UNCHANGED <<environ, settings, created, ready, answer, indexes, up, faults>>

(* Mutant of CreateIndex: the flag is set with the first index. *)
CreateIndexReadyAtOnce(p) ==
  /\ stage[p] = "index" /\ up
  /\ created' = [created EXCEPT ![p] = @ + 1]
  /\ indexes' = indexes \union {Indexes[created'[p]]}
  /\ IF created'[p] = Len(Indexes) THEN Goto(p, "serving") ELSE UNCHANGED stage
  /\ ready' = [ready EXCEPT ![p] = TRUE]
  /\ UNCHANGED <<environ, settings, answer, up, faults>>

(* ensure_indexes; creating an index that exists changes nothing. *)
CreateIndex(p) ==
  /\ stage[p] = "index" /\ up
  /\ created' = [created EXCEPT ![p] = @ + 1]
  /\ indexes' = indexes \union {Indexes[created'[p]]}
  /\ IF created'[p] = Len(Indexes)
     THEN Goto(p, "serving") /\ ready' = [ready EXCEPT ![p] = TRUE]
     ELSE UNCHANGED <<stage, ready>>
  /\ UNCHANGED <<environ, settings, answer, up, faults>>

(* A PyMongoError is logged; the indexes that follow are not created. *)
CreateIndexFails(p) ==
  /\ stage[p] = "index"
  /\ \/ ~up /\ UNCHANGED faults
     \/ up /\ faults < MaxFaults /\ faults' = faults + 1
  /\ Goto(p, "serving")
  /\ UNCHANGED <<environ, settings, created, ready, answer, indexes, up>>

-----------------------------------------------------------------------------
Respond(p, a) ==
  /\ stage[p] = "serving"
  /\ answer' = [answer EXCEPT ![p] = a]
  /\ UNCHANGED <<environ, settings, stage, created, ready, indexes, up, faults>>

(* verify_webhook: a request with mode, token and challenge. *)
VerifyAnswer(p, valid) ==
  IF "meta_verify_token" \notin settings[p] THEN "not_configured"
  ELSE IF valid THEN "challenge" ELSE "forbidden"

(* What sending the reply needs: _authorization. *)
CanSend(p) ==
  {"whatsapp_access_token", "whatsapp_phone_number_id"} \subseteq settings[p]

(* receive_webhook, in the order of its checks.  (With the database down   *)
(* the post that passes them fails: Messaging's Fail.)                     *)
PostAnswer(p, signed, json) ==
  IF "meta_app_secret" \notin settings[p] THEN "not_configured"
  ELSE IF ~ready[p] THEN "not_ready"
  ELSE IF ~signed THEN "forbidden"
  ELSE IF ~json THEN "malformed"
  ELSE IF CanSend(p) THEN "replied" ELSE "reply_failed"

Verify(p) == \E valid \in BOOLEAN : Respond(p, VerifyAnswer(p, valid))

Post(p) ==
  \E signed, json \in BOOLEAN : Respond(p, PostAnswer(p, signed, json))

(* GET /ready.  (GET /health, which the container's HEALTHCHECK asks, is    *)
(* 200 whatever happens.)                                                  *)
ReadyAnswer == IF up THEN 200 ELSE 503

-----------------------------------------------------------------------------
Down(p) ==
  /\ stage[p] # "down"
  /\ Goto(p, "down")
  /\ answer' = [answer EXCEPT ![p] = None]
  /\ ready' = [ready EXCEPT ![p] = FALSE]
  /\ created' = [created EXCEPT ![p] = 0]
  /\ UNCHANGED <<environ, settings, indexes, up>>

(* An operator may: the code never looks at the indexes again. *)
Stop(p) == stage[p] = "serving" /\ ~ready[p] /\ Down(p) /\ UNCHANGED faults

Crash(p) == faults < MaxFaults /\ faults' = faults + 1 /\ Down(p)

Outage ==
  /\ up /\ faults < MaxFaults
  /\ up' = FALSE /\ faults' = faults + 1
  /\ UNCHANGED <<environ, settings, stage, created, ready, answer, indexes>>

Recovery ==
  /\ ~up /\ up' = TRUE
  /\ UNCHANGED <<environ, settings, stage, created, ready, answer, indexes, faults>>

Lifespan(p) == Ping(p) \/ CreateIndex(p) \/ CreateIndexFails(p)

Next ==
  \/ Outage \/ Recovery
  \/ \E p \in Processes :
       Start(p) \/ Lifespan(p) \/ Verify(p) \/ Post(p) \/ Stop(p) \/ Crash(p)

Spec == Init /\ [][Next]_vars

(* Startup goes on: the event loop, and the timeouts of the driver. *)
FairSpec == Spec /\ \A p \in Processes : WF_vars(Lifespan(p))
-----------------------------------------------------------------------------
(* Properties                                                              *)

(* "Sans index unique, l'idempotence n'est pas garantie": whoever created  *)
(* the indexes, and whatever failed among them, a process that handles a   *)
(* post does it with all the unique ones in place.                         *)
HandledIsDeduplicated ==
  \A p \in Processes : answer[p] \in {"replied", "reply_failed"} =>
    UniqueIndexes \subseteq indexes

(* "une production sans WhatsApp repondrait 503 a chaque message recu,     *)
(* autant refuser de demarrer": in production no request, and no reply,    *)
(* ever meets a missing variable, whichever of them it needs.              *)
ProductionConfigured ==
  \A p \in Processes :
    stage[p] = "serving" /\ environ[p].environment = "production" =>
      answer[p] \notin {"not_configured", "reply_failed"}

(* Who handles posts: who is ready to, or has just done it. *)
Handling ==
  {p \in Processes : ready[p] \/ answer[p] \in {"replied", "reply_failed"}}

Door == INSTANCE Gate WITH
  open <- Handling,
  indexed <- UniqueIndexes \subseteq indexes

(* What Messaging, Users and the stores take for granted of the process    *)
(* they run in: whichever processes start together and stop half way, each *)
(* is ready, and handles a post, with the unique indexes only, and no step *)
(* takes them away.                                                        *)
KeepsGate == Door!Spec

(* Why: a process sets its flag after the last index, each index is there  *)
(* once a process has created it, and none is ever dropped; a production   *)
(* process has been started with every variable.                           *)
SoundAt(p) ==
  /\ \A i \in 1..created[p] : Indexes[i] \in indexes
  /\ ready[p] => created[p] = 8
  /\ answer[p] \in {"replied", "reply_failed"} => ready[p]
  /\ stage[p] # "serving" => answer[p] = None
  /\ stage[p] \in {"down", "ping"} => created[p] = 0
  /\ stage[p] # "down" /\ environ[p].environment = "production" =>
       settings[p] = Fields /\ answer[p] \notin {"not_configured", "reply_failed"}

IInv == TypeOK /\ \A p \in Processes : SoundAt(p)

(* "Une base injoignable ne bloque pas le demarrage": a process that has   *)
(* started serves in the end, unless it is killed, even if the database    *)
(* goes away between the ping and the last index and never comes back.     *)
StartNotBlocked ==
  \A p \in Processes : stage[p] = "ping" ~> stage[p] \in {"serving", "down"}

(* "Une base injoignable ne bloque pas le demarrage : c'est le role du     *)
(* readiness check de le signaler": a process whose /ready answers 200     *)
(* does not refuse every post.                                             *)
ReadyTruthful ==
  \A p \in Processes : stage[p] = "serving" /\ ReadyAnswer = 200 => ready[p]
=============================================================================
