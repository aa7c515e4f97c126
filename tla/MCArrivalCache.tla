--------------------------- MODULE MCArrivalCache ---------------------------
(* Symmetry for model checking ArrivalCache. *)
EXTENDS ArrivalCache, TLC

Symmetry == Permutations(Req)
=============================================================================
