---------------------------- MODULE MCFavorites ----------------------------
(* Constants for model checking Favorites. *)
EXTENDS Favorites, TLC

CONSTANT official

\* Every station has the same official name: names are compared, never shown.
MCDescription == [s \in Stop |-> official]

Symmetry == Permutations(User) \cup Permutations(GroupId) \cup Permutations(ItemId)
            \cup Permutations(Service) \cup Permutations(Stop)
=============================================================================
