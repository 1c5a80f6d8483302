--------------------------- MODULE MCTontineStore ---------------------------
(* Finite instances of TontineStore for TLC. *)
EXTENDS TontineStore, TLC

(* Callers, users, identifiers and codes are interchangeable. *)
Symmetry == Permutations(Calls) \union Permutations(Users)
            \union Permutations(Tontines) \union Permutations(Codes)
=============================================================================
