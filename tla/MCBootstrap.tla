----------------------------- MODULE MCBootstrap -----------------------------
(* Bootstrap for TLC: a value for KeyOf, and the symmetries of the          *)
(* constants, which KeyOf maps onto each other.                             *)
EXTENDS Bootstrap, TLC

\* Keys and things are in the same order, whichever it is.
MCKeyOf == CHOOSE f \in [ThingIDs -> Keys] : \A t, u \in ThingIDs : f[t] = f[u] => t = u

ThingOf(k) == CHOOSE t \in ThingIDs : MCKeyOf[t] = k

\* A permutation of the things takes their keys along.
ThingSymmetry ==
    {[x \in ThingIDs \cup Keys |-> IF x \in ThingIDs THEN f[x] ELSE MCKeyOf[f[ThingOf(x)]]] :
        f \in Permutations(ThingIDs)}

Symmetry ==
    Permutations(ChannelIDs) \cup Permutations(ExtIDs) \cup Permutations(Proc)
        \cup ThingSymmetry
=============================================================================
