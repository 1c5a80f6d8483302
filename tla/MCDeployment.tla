---------------------------- MODULE MCDeployment ----------------------------
(* Finite instances of Deployment for TLC. *)
EXTENDS Deployment

Given(blank, absent) ==
  [f \in Fields |-> IF f = blank THEN "blank" ELSE IF f = absent THEN "absent"
                    ELSE "set"]
Environment(name, remote, given) ==
  [environment |-> name, remote |-> remote, given |-> given]

(* What starts: a complete production process, a local one that lacks a    *)
(* variable of the reply or holds blanks for one of the webhook.  What must *)
(* not: a production process that lacks one, or with a local database.     *)
SomeEnvironments ==
  {Environment("production", TRUE, Given(None, None)),
   Environment("local", FALSE, Given(None, "whatsapp_access_token")),
   Environment("local", TRUE, Given("meta_app_secret", None)),
   Environment("production", TRUE, Given(None, "whatsapp_phone_number_id")),
   Environment("production", TRUE, Given("meta_verify_token", None)),
   Environment("production", FALSE, Given(None, None))}

FewEnvironments == {Environment("production", TRUE, Given(None, None))}
=============================================================================
