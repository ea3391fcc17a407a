---------------------------- MODULE MCProvision ----------------------------
(* Provision for TLC: a gateway alone, and one with another thing.         *)
EXTENDS Provision, TLC

MCLayouts == {<<TRUE>>, <<TRUE, FALSE>>}
Symmetry == Permutations(Requests)
============================================================================
