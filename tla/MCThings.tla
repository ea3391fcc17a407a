------------------------------ MODULE MCThings ------------------------------
(* Things for TLC: the symmetries of its constants.  Used only in runs that *)
(* check no liveness property.                                              *)
EXTENDS Things, TLC

Symmetry ==
    Permutations(ThingIDs) \cup Permutations(ChannelIDs) \cup
    Permutations(Keys) \cup Permutations(Owners) \cup Permutations(Proc)
=============================================================================
