---------------------------- MODULE ThingsStore ----------------------------
(***************************************************************************)
(* The PostgreSQL database of the things service: tables things, channels  *)
(* and connections (things/postgres/init.go) and the statements that       *)
(* change them (things/postgres/things.go, channels.go).  Each operator    *)
(* below is one statement or one transaction, hence one atomic step.       *)
(* A statement that PostgreSQL refuses (a duplicate key, a foreign-key     *)
(* violation) or that matches no row leaves the tables as they are.        *)
(***************************************************************************)
EXTENDS FiniteSets

CONSTANTS
    ThingIDs,       \* identifiers uuidProvider.ID() can return for things
    ChannelIDs,     \* identifiers uuidProvider.ID() can return for channels
    Keys,           \* thing keys
    Owners,         \* users (the owner column holds the user's e-mail)
    None            \* SQL: no such row; Redis: nil reply; Go: ""

ASSUME StoreAssumption ==
    /\ None \notin ThingIDs \cup ChannelIDs \cup Keys \cup Owners
    /\ ThingIDs \cap ChannelIDs = {}

VARIABLES
    thingOwner,     \* table things: id -> owner, None when there is no row
    thingKey,       \* table things: id -> key, None when there is no row
    chanOwner,      \* table channels: id -> owner, None when there is no row
    connections,    \* table connections: set of <<channel_id, thing_id>>
    issued          \* the ids uuidProvider has handed out so far

storeVars == <<thingOwner, thingKey, chanOwner, connections, issued>>

ThingExists(t) == thingOwner[t] # None

ChannelExists(c) == chanOwner[c] # None

\* SELECT id FROM things WHERE key = $1; key is UNIQUE, so at most one id.
Holders(k) == {t \in ThingIDs : thingKey[t] = k}

StoreTypeOK ==
    /\ thingOwner \in [ThingIDs -> Owners \cup {None}]
    /\ thingKey \in [ThingIDs -> Keys \cup {None}]
    /\ chanOwner \in [ChannelIDs -> Owners \cup {None}]
    /\ connections \subseteq ChannelIDs \X ThingIDs
    /\ issued \subseteq ThingIDs \cup ChannelIDs

StoreInit ==
    /\ thingOwner = [t \in ThingIDs |-> None]
    /\ thingKey = [t \in ThingIDs |-> None]
    /\ chanOwner = [c \in ChannelIDs |-> None]
    /\ connections = {}
    /\ issued = {}

-----------------------------------------------------------------------------
(* Transactions and statements.                                            *)

\* Save: one transaction inserts the whole batch S with the keys ks; a
\* duplicate key, in the table or within the batch, rolls all of it back.
\* The ids are spent either way.
SaveThings(o, S, ks) ==
    /\ S \cap issued = {}
    /\ issued' = issued \cup S
    /\ IF /\ \A t \in S : Holders(ks[t]) = {}
          /\ \A t, u \in S : ks[t] = ks[u] => t = u
         THEN /\ thingOwner' = [t \in ThingIDs |->
                                  IF t \in S THEN o ELSE thingOwner[t]]
              /\ thingKey' = [t \in ThingIDs |->
                                  IF t \in S THEN ks[t] ELSE thingKey[t]]
         ELSE UNCHANGED <<thingOwner, thingKey>>
    /\ UNCHANGED <<chanOwner, connections>>

\* UPDATE things SET key = :key WHERE owner = :owner AND id = :id
UpdateThingKey(o, t, k) ==
    /\ thingKey' = IF thingOwner[t] = o /\ Holders(k) \subseteq {t}
                     THEN [thingKey EXCEPT ![t] = k]
                     ELSE thingKey
    /\ UNCHANGED <<thingOwner, chanOwner, connections, issued>>

\* A seeded fault for StoreIntegrity: no cascade to connections.
DeleteThingNoCascade(o, t) ==
    /\ IF thingOwner[t] = o
         THEN /\ thingOwner' = [thingOwner EXCEPT ![t] = None]
              /\ thingKey' = [thingKey EXCEPT ![t] = None]
         ELSE UNCHANGED <<thingOwner, thingKey>>
    /\ UNCHANGED <<chanOwner, connections, issued>>

\* DELETE FROM things WHERE id = :id AND owner = :owner; the rows of
\* connections that refer to it go with it (ON DELETE CASCADE).
DeleteThing(o, t) ==
    /\ IF thingOwner[t] = o
         THEN /\ thingOwner' = [thingOwner EXCEPT ![t] = None]
              /\ thingKey' = [thingKey EXCEPT ![t] = None]
              /\ connections' = {x \in connections : x[2] # t}
         ELSE UNCHANGED <<thingOwner, thingKey, connections>>
    /\ UNCHANGED <<chanOwner, issued>>

\* Save of channels: one transaction, all fresh ids.
SaveChannels(o, S) ==
    /\ S \cap issued = {}
    /\ issued' = issued \cup S
    /\ chanOwner' = [c \in ChannelIDs |-> IF c \in S THEN o ELSE chanOwner[c]]
    /\ UNCHANGED <<thingOwner, thingKey, connections>>

\* DELETE FROM channels WHERE id = :id AND owner = :owner, cascading.
DeleteChannel(o, c) ==
    /\ IF chanOwner[c] = o
         THEN /\ chanOwner' = [chanOwner EXCEPT ![c] = None]
              /\ connections' = {x \in connections : x[1] # c}
         ELSE UNCHANGED <<chanOwner, connections>>
    /\ UNCHANGED <<thingOwner, thingKey, issued>>

\* What the foreign keys and the primary key of connections ask of a batch:
\* both ends exist and belong to the caller, and no pair is there already.
Connectable(o, C, T) ==
    /\ \A c \in C : chanOwner[c] = o
    /\ \A t \in T : thingOwner[t] = o
    /\ (C \X T) \cap connections = {}

\* Connect: one transaction inserts every pair of the batch, or none.
InsertConnections(o, C, T) ==
    /\ connections' = IF Connectable(o, C, T)
                        THEN connections \cup (C \X T)
                        ELSE connections
    /\ UNCHANGED <<thingOwner, thingKey, chanOwner, issued>>

\* A seeded fault for OnlyOwnerRemoves: the owners are not compared.
DeleteConnectionAnyOwner(o, c, t) ==
    /\ connections' = connections \ {<<c, t>>}
    /\ UNCHANGED <<thingOwner, thingKey, chanOwner, issued>>

\* DELETE FROM connections WHERE channel, thing and both owners match.  A row
\* has the owner of its channel and of its thing in its two owner columns.
DeleteConnection(o, c, t) ==
    /\ connections' = IF chanOwner[c] = o /\ thingOwner[t] = o
                        THEN connections \ {<<c, t>>}
                        ELSE connections
    /\ UNCHANGED <<thingOwner, thingKey, chanOwner, issued>>

-----------------------------------------------------------------------------
(* The database on its own: any user may issue any of the statements.      *)

StoreNext ==
    \E o \in Owners :
        \/ \E S \in SUBSET ThingIDs : \E ks \in [S -> Keys] : SaveThings(o, S, ks)
        \/ \E t \in ThingIDs, k \in Keys : UpdateThingKey(o, t, k)
        \/ \E t \in ThingIDs : DeleteThing(o, t)
        \/ \E S \in SUBSET ChannelIDs : SaveChannels(o, S)
        \/ \E c \in ChannelIDs : DeleteChannel(o, c)
        \/ \E C \in SUBSET ChannelIDs, T \in SUBSET ThingIDs :
               InsertConnections(o, C, T)
        \/ \E c \in ChannelIDs, t \in ThingIDs : DeleteConnection(o, c, t)

StoreSpec == StoreInit /\ [][StoreNext]_storeVars

\* Every connection joins a channel and a thing that exist and have the same
\* owner, and no two things share a key: what the foreign keys, the cascades
\* and the UNIQUE constraint of things/postgres/init.go are there for, under
\* every interleaving of removals, connects and key updates.
StoreIntegrity ==
    /\ \A x \in connections :
         ChannelExists(x[1]) /\ chanOwner[x[1]] = thingOwner[x[2]]
    /\ \A t \in ThingIDs : ThingExists(t) <=> thingKey[t] # None
    /\ \A t, u \in ThingIDs :
         thingKey[t] = thingKey[u] => t = u \/ thingKey[t] = None
=============================================================================
