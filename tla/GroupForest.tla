---------------------------- MODULE GroupForest -----------------------------
(***************************************************************************)
(* What a groups repository promises, whichever way it stores the groups:  *)
(* a forest that grows by leaves and loses whole subtrees, and members     *)
(* that belong to groups of the forest.                                    *)
(***************************************************************************)
EXTENDS Naturals

CONSTANTS GroupIDs, MemberIDs, NoGroup

VARIABLES
    parent,   \* [groups in the forest -> their parent, NoGroup for a root]
    belongs   \* pairs <<member, group>>

forestVars == <<parent, belongs>>

(* h is n levels above g: there is a way from g to h in n steps, each from *)
(* a group to its parent.                                                  *)
Rises(f, g, h, n) ==
    \E way \in [0..n -> DOMAIN f] :
        /\ way[0] = g /\ way[n] = h
        /\ \A i \in 0..n-1 : f[way[i]] = way[i + 1]

Below(f, g, level) == {h \in DOMAIN f : \E n \in 0..level : Rises(f, h, g, n)}
Above(f, g, level) == {h \in DOMAIN f : \E n \in 0..level : Rises(f, g, h, n)}

(* The least set that has g and, with a group, its children.               *)
HasChildren(f, S) == \A h \in DOMAIN f : f[h] \in S => h \in S
Subtree(f, g) ==
    {h \in DOMAIN f : \A S \in SUBSET DOMAIN f : g \in S /\ HasChildren(f, S) => h \in S}

ForestInit == parent = <<>> /\ belongs = {}

Plant(g, p) ==
    /\ g \notin DOMAIN parent /\ p \in DOMAIN parent \cup {NoGroup}
    /\ parent' = [h \in DOMAIN parent \cup {g} |-> IF h = g THEN p ELSE parent[h]]
    /\ UNCHANGED belongs

Fell(g) ==
    LET cut == Subtree(parent, g) IN
    /\ g \in DOMAIN parent
    /\ parent' = [h \in DOMAIN parent \ cut |-> parent[h]]
    /\ belongs' = {b \in belongs : b[2] \notin cut}

Join(m, g) ==
    /\ g \in DOMAIN parent
    /\ belongs' = belongs \cup {<<m, g>>}
    /\ UNCHANGED parent

Leave(m, gs) ==
    /\ belongs' = {b \in belongs : ~(b[1] = m /\ b[2] \in gs)}
    /\ UNCHANGED parent

ForestNext ==
    \/ \E g \in GroupIDs : Fell(g) \/ \E p \in GroupIDs \cup {NoGroup} : Plant(g, p)
    \/ \E m \in MemberIDs :
          (\E g \in GroupIDs : Join(m, g) \/ Leave(m, {g})) \/ Leave(m, GroupIDs)

ForestSpec == ForestInit /\ [][ForestNext]_forestVars
=============================================================================
