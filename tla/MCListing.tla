------------------------------ MODULE MCListing ------------------------------
(* Finite instances of Listing for TLC. *)
EXTENDS Listing, TLC

Symmetry == Permutations(Calls) \union Permutations(Users)
            \union Permutations(Tontines) \union Permutations(Codes)
=============================================================================
