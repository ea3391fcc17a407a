------------------------------- MODULE Groups -------------------------------
(***************************************************************************)
(* The three groups repositories: groups of things (things/postgres/       *)
(* groups.go), groups of the auth service (auth/postgres/groups.go) and    *)
(* groups of users (users/postgres/groups.go), each behind a service that  *)
(* identifies the caller and calls the repository.  They differ in how a   *)
(* group knows its place:                                                  *)
(*    things   an ltree path of group ids;                                 *)
(*    auth     an ltree path of group names, unique for an owner;          *)
(*    users    the parent's id alone, names unique.                        *)
(* A behaviour is about one of them, chosen at the start.  Each operation  *)
(* is one SQL statement and so one step.                                   *)
(*                                                                         *)
(* Not every operation of the auth repository can succeed.  Update and     *)
(* Delete look up the group's type, which their callers leave empty        *)
(* (toDBGroup: errInvalidGroupType); Assign and Unassign parse the group   *)
(* id, a ULID, as a UUID (toDBGroupRelation).  Members names a table alias *)
(* g, and Memberships' count a table, that do not exist.  They change      *)
(* nothing.                                                                *)
(***************************************************************************)
EXTENDS Naturals, FiniteSets, Sequences

CONSTANTS GroupIDs, MemberIDs, Owners, Names,
          NoGroup,   \* the parent of a root
          Levels,    \* levels asked for in lists
          maxLevel

ASSUME GroupsAssumption ==
    /\ IsFiniteSet(GroupIDs) /\ NoGroup \notin GroupIDs
    /\ Levels \subseteq Nat /\ maxLevel \in Nat

VARIABLES
    repo,      \* "things", "auth" or "users"
    groups,    \* [ids of the rows -> row]
    relations, \* rows <<member, group>>
    members    \* things (users, for the users repository) that exist

groupsVars == <<repo, groups, relations, members>>

Group == [parent : GroupIDs \cup {NoGroup}, owner : Owners, name : Names,
          path : Seq(GroupIDs \cup Names)]

parent == [g \in DOMAIN groups |-> groups[g].parent]

(* Where a group is in the forest, as the repository's own lists see it.   *)
placed ==
    [g \in DOMAIN groups |->
        IF repo # "things" THEN groups[g].parent
        ELSE LET p == groups[g].path IN IF Len(p) = 1 THEN NoGroup ELSE p[Len(p) - 1]]

F == INSTANCE GroupForest WITH parent <- placed, belongs <- relations

(***************************************************************************)
(* Writes                                                                  *)
(***************************************************************************)
NewPathOfParent(p, label) ==
    IF p = NoGroup THEN <<label>> ELSE <<groups[p].path[Len(groups[p].path)], label>>

(* The path of a new group: its parent's path followed by its own label.   *)
NewPath(p, label) == Append(IF p = NoGroup THEN <<>> ELSE groups[p].path, label)

(* The unique constraint (owner_id, path) of things' and auth's groups.    *)
UniquePath(r) == \A h \in DOMAIN groups : ~(groups[h].owner = r.owner /\ groups[h].path = r.path)

(* A row is inserted.  A child is inserted by a SELECT of its parent       *)
(* (users: with a foreign key to it), so a parent that is gone makes none. *)
Insert(g, r) ==
    /\ g \notin DOMAIN groups
    /\ r.parent \in DOMAIN groups \cup {NoGroup}
    /\ groups' = [h \in DOMAIN groups \cup {g} |-> IF h = g THEN r ELSE groups[h]]
    /\ UNCHANGED <<repo, relations, members>>

New(p, o, name, path) == [parent |-> p, owner |-> o, name |-> name, path |-> path]
Exists(p) == p \in DOMAIN groups \cup {NoGroup}

ThingsSave(g, p, o, name) ==
    /\ Exists(p)
    /\ LET r == New(p, o, name, NewPath(p, g))
       IN  UniquePath(r) /\ Insert(g, r)

AuthSave(g, p, o, name) ==
    /\ Exists(p)
    /\ LET r == New(p, o, name, NewPath(p, name))
       IN  UniquePath(r) /\ Insert(g, r)

UsersSave(g, p, o, name) ==
    /\ \A h \in DOMAIN groups : groups[h].name # name
    /\ Insert(g, New(p, o, name, <<>>))

(* Update sets name, description and metadata of the row; not its path.    *)
Rename(g, name) ==
    /\ g \in DOMAIN groups
    /\ groups' = [groups EXCEPT ![g].name = name]
    /\ UNCHANGED <<repo, relations, members>>

ThingsUpdate(g, name) == Rename(g, name)

UsersUpdate(g, name) ==
    /\ \A h \in DOMAIN groups \ {g} : groups[h].name # name
    /\ Rename(g, name)

CascadeChildren(g) == {h \in DOMAIN groups : h = g \/ groups[h].parent = g}

(* What a DELETE of g removes: parent_id cascades to the children of the   *)
(* children.                                                               *)
Cascade(g) == F!Subtree(parent, g)

RemoveRows(cut) ==
    /\ groups' = [h \in DOMAIN groups \ cut |-> groups[h]]
    /\ relations' = {r \in relations : r[2] \notin cut}
    /\ UNCHANGED <<repo, members>>

(* The relations of things' groups do not cascade: a member anywhere in    *)
(* the subtree makes the statement fail.                                   *)
ThingsDelete(g) ==
    /\ g \in DOMAIN groups
    /\ \A r \in relations : r[2] \notin Cascade(g)
    /\ RemoveRows(Cascade(g))

UsersDelete(g) == g \in DOMAIN groups /\ RemoveRows(Cascade(g))

(* Assign: foreign keys to both ends, a pair at most once.                 *)
InsertRelation(m, g) ==
    /\ m \in members /\ g \in DOMAIN groups
    /\ <<m, g>> \notin relations
    /\ relations' = relations \cup {<<m, g>>}
    /\ UNCHANGED <<repo, groups, members>>

ThingsAssign(m, g) == InsertRelation(m, g)
UsersAssign(m, g) == InsertRelation(m, g)

DeleteRelation(m, g) ==
    /\ <<m, g>> \in relations
    /\ relations' = relations \ {<<m, g>>}
    /\ UNCHANGED <<repo, groups, members>>

ThingsUnassign(m, g) == DeleteRelation(m, g)
UsersUnassign(m, g) == DeleteRelation(m, g)

(* A thing is removed by its owner: its memberships cascade.  Users are    *)
(* never removed.                                                          *)
RemoveThing(m) ==
    /\ m \in members
    /\ members' = members \ {m}
    /\ relations' = {r \in relations : r[1] # m}
    /\ UNCHANGED <<repo, groups>>

(***************************************************************************)
(* Reads                                                                   *)
(***************************************************************************)
IsPrefix(p, q) == Len(p) <= Len(q) /\ SubSeq(q, 1, Len(p)) = p
Capped(level) == IF level > maxLevel THEN maxLevel ELSE level

PathAbove(g, level) ==
    {h \in DOMAIN groups :
        /\ IsPrefix(groups[h].path, groups[g].path)
        /\ Len(groups[g].path) - Len(groups[h].path) <= Capped(level)}

PathBelow(g, level) ==
    {h \in DOMAIN groups :
        /\ IsPrefix(groups[g].path, groups[h].path)
        /\ Len(groups[h].path) - Len(groups[g].path) <= Capped(level)}

(* RetrieveAllParents and RetrieveAllChildren compare paths, of whatever   *)
(* owner; RetrieveAll takes the upper levels of every tree.                *)
ThingsRetrieveAllParents(g, level) == PathAbove(g, level)
ThingsRetrieveAllChildren(g, level) == PathBelow(g, level)
ThingsRetrieveAll(level) == {g \in DOMAIN groups : Len(groups[g].path) <= level}
ThingsMemberships(m) == {g \in DOMAIN groups : <<m, g>> \in relations}

(* The auth repository sets no created_at in a child's row, and a NULL     *)
(* does not scan into the time.Time of dbGroup: a page with a child in it  *)
(* is an error.                                                            *)
Scans(page) == \A g \in page : groups[g].parent = NoGroup
ScanFails == {NoGroup}
Scanned(page) == IF Scans(page) THEN page ELSE ScanFails

AuthRetrieveAllParents(g, level) == Scanned(PathAbove(g, level))
AuthRetrieveAllChildren(g, level) == Scanned(PathBelow(g, level))
AuthRetrieveAll(level) == Scanned({g \in DOMAIN groups : Len(groups[g].path) <= level})

(* The users repository: a recursive query over parent_id.  Its first      *)
(* round finds the group, each later one the children of the groups found  *)
(* before, so that the n-th has those n levels below; there is none after  *)
(* as many rounds as there are groups.  Every group when none is named.    *)
UsersRetrieveAllWithAncestors(g) ==
    IF g = NoGroup THEN DOMAIN groups ELSE F!Below(parent, g, Cardinality(GroupIDs))

(* buildGroupsResponseTree: under each group of the page its children of   *)
(* the page; on top, the groups whose parent is not one of the page.       *)
ChildrenIn(page, g) == {h \in page : groups[h].parent = g}

TopRootsOnly(page) == {g \in page : groups[g].parent = NoGroup}

TopIn(page) == {g \in page : groups[g].parent \notin page
                             \/ ChildrenIn(page, groups[g].parent) = {}}

Shown(page) == UNION {F!Subtree([g \in page |-> groups[g].parent], t) : t \in TopIn(page)}

(***************************************************************************)
GroupsInit ==
    /\ repo \in {"things", "auth", "users"}
    /\ groups = <<>> /\ relations = {}
    /\ members = MemberIDs

(* The services: any identified user may call any of these on any group;   *)
(* the caller becomes the owner of a group he creates.                     *)
ThingsGroups ==
    /\ repo = "things"
    /\ \/ \E g \in GroupIDs, p \in GroupIDs \cup {NoGroup}, o \in Owners, name \in Names : ThingsSave(g, p, o, name)
       \/ \E g \in GroupIDs, name \in Names : ThingsUpdate(g, name)
       \/ \E g \in GroupIDs : ThingsDelete(g)
       \/ \E g \in GroupIDs, m \in MemberIDs : ThingsAssign(m, g) \/ ThingsUnassign(m, g)

AuthGroups ==
    /\ repo = "auth"
    /\ \E g \in GroupIDs, p \in GroupIDs \cup {NoGroup}, o \in Owners, name \in Names : AuthSave(g, p, o, name)

UsersGroups ==
    /\ repo = "users"
    /\ \/ \E g \in GroupIDs, p \in GroupIDs \cup {NoGroup}, o \in Owners, name \in Names : UsersSave(g, p, o, name)
       \/ \E g \in GroupIDs, name \in Names : UsersUpdate(g, name)
       \/ \E g \in GroupIDs : UsersDelete(g)
       \/ \E g \in GroupIDs, m \in MemberIDs : UsersAssign(m, g) \/ UsersUnassign(m, g)

GroupsNext ==
    \/ ThingsGroups \/ AuthGroups \/ UsersGroups
    \/ repo = "things" /\ \E m \in MemberIDs : RemoveThing(m)

GroupsSpec == GroupsInit /\ [][GroupsNext]_groupsVars

(***************************************************************************)
(* Properties                                                              *)
(***************************************************************************)
GroupsTypeOK ==
    /\ repo \in {"things", "auth", "users"}
    /\ DOMAIN groups \subseteq GroupIDs
    /\ \A g \in DOMAIN groups : groups[g] \in Group
    /\ relations \subseteq MemberIDs \X GroupIDs
    /\ members \subseteq MemberIDs

(* Nothing dangles: a parent is a group, both ends of a membership exist.  *)
(* It rests on the cascades reaching the children of children and on the   *)
(* refusal of things' groups with members to go.                           *)
GroupIntegrity ==
    /\ \A g \in DOMAIN groups : groups[g].parent \in DOMAIN groups \cup {NoGroup}
    /\ relations \subseteq members \X DOMAIN groups

(* The path of a group spells its ancestors, whatever was saved, renamed   *)
(* and deleted: the pages of children and parents that things' groups take *)
(* by comparing paths are those the parent ids give, as is the page users' *)
(* groups take by recursion.  The auth repository's paths of names         *)
(* coincide between owners: there a page that scans misses nobody, but may *)
(* show more.                                                              *)
PathsSpellAncestors ==
    \A g \in DOMAIN groups, level \in Levels :
        LET below == F!Below(parent, g, Capped(level))
            above == F!Above(parent, g, Capped(level))
            Misses(page, family) == page # ScanFails /\ ~(family \subseteq page)
        IN  /\ repo = "things" => /\ ThingsRetrieveAllChildren(g, level) = below
                                  /\ ThingsRetrieveAllParents(g, level) = above
            /\ repo = "users" => UsersRetrieveAllWithAncestors(g) = F!Subtree(parent, g)
            /\ repo = "auth" => /\ ~Misses(AuthRetrieveAllChildren(g, level), below)
                                /\ ~Misses(AuthRetrieveAllParents(g, level), above)

Whole(page) == page = ScanFails \/ Shown(page) = page

(* The tree form of any page shows every group of the page, also when the  *)
(* page cuts a family in two (memberships, deep levels, lists of parents). *)
TreeShowsPage ==
    /\ repo = "things" =>
          /\ \A level \in Levels : Whole(ThingsRetrieveAll(level))
          /\ \A m \in MemberIDs : Whole(ThingsMemberships(m))
          /\ \A g \in DOMAIN groups, level \in Levels :
                Whole(ThingsRetrieveAllChildren(g, level)) /\ Whole(ThingsRetrieveAllParents(g, level))
    /\ repo = "auth" =>
          /\ \A level \in Levels : Whole(AuthRetrieveAll(level))
          /\ \A g \in DOMAIN groups, level \in Levels :
                Whole(AuthRetrieveAllChildren(g, level)) /\ Whole(AuthRetrieveAllParents(g, level))

(* Each repository implements the forest: what a statement does to its     *)
(* rows and relations is a change of the forest that the paths of things'  *)
(* groups, and the parent ids of the others, describe.                     *)
ImplementsForest == F!ForestSpec
=============================================================================
