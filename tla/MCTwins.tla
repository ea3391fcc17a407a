------------------------------ MODULE MCTwins ------------------------------
(* Twins for TLC: definitions with an attribute that is persisted, one of   *)
(* another name on the wildcard, and one that is not persisted; messages    *)
(* with one record and with two.                                            *)
EXTENDS Twins, TLC

Attr(n, st, p) == [name |-> n, channel |-> "ch", subtopic |-> st, persist |-> p]

MCDefinitions ==
    {<<>>, <<Attr("x", "s", TRUE)>>, <<Attr("y", Wildcard, TRUE), Attr("x", "s", FALSE)>>}

MCMessages ==
    {[channel |-> "ch", subtopic |-> "s", recs |-> <<"far", "near">>],
     [channel |-> "ch", subtopic |-> "u", recs |-> <<"untimed">>]}

Symmetry == Permutations(Client)
=============================================================================
