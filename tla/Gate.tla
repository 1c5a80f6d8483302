-------------------------------- MODULE Gate --------------------------------
(***************************************************************************)
(* What the rest of the program takes for granted about the processes it   *)
(* runs in: posts are handled only while the unique indexes exist, and     *)
(* these, once created, stay.                                              *)
(*                                                                         *)
(* No startup, no configuration and no order of indexes here: Deployment   *)
(* implements this with eight indexes and a flag for each process, and     *)
(* Messaging, with one process, relies on nothing else.                    *)
(***************************************************************************)
CONSTANT Processes

VARIABLES
  open,    \* the processes that handle posts
  indexed  \* the unique indexes exist

vars == <<open, indexed>>

Init == open = {} /\ indexed = FALSE

(* Somebody, ready or not, creates the last of the unique indexes. *)
Index == indexed' = TRUE /\ UNCHANGED open

Open(p) == p \notin open /\ open' = open \union {p} /\ indexed' = TRUE

Close(p) == p \in open /\ open' = open \ {p} /\ UNCHANGED indexed

Next == Index \/ \E p \in Processes : Open(p) \/ Close(p)

Spec == Init /\ [][Next]_vars
=============================================================================
