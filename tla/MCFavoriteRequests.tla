------------------------ MODULE MCFavoriteRequests ------------------------
(* Constants for model checking FavoriteRequests. *)
EXTENDS FavoriteRequests, TLC

CONSTANT official

MCDescription == [s \in Stop |-> official]

Symmetry == Permutations(GroupId) \cup Permutations(ItemId)
            \cup Permutations(Req) \cup Permutations(User)
            \cup Permutations(Service) \cup Permutations(Stop)
=============================================================================
