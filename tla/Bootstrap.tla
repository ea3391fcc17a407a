------------------------------ MODULE Bootstrap ------------------------------
(***************************************************************************)
(* The bootstrap service (bootstrap/service.go, postgres/configs.go), the  *)
(* consumer that feeds it the events of the things service                 *)
(* (redis/consumer/streams.go, through the middleware of                   *)
(* redis/producer/streams.go), and the things service it provisions        *)
(* through the SDK (ThingsEvents).                                         *)
(*                                                                         *)
(* A request performs one call per step: a statement of its own database,  *)
(* or a call to the things service.  The transactions of the database run  *)
(* at READ COMMITTED: a statement sees what others have committed before   *)
(* it, and what a transaction decided from one statement may be stale when *)
(* it commits.  Users also call the things service directly, and the       *)
(* consumer runs beside them all.                                          *)
(***************************************************************************)
EXTENDS ThingsEvents, Naturals, FiniteSets

CONSTANTS
    Proc,           \* requests that may be in progress at the same time
    ExtIDs,         \* external ids of devices
    Requests,       \* operations of the bootstrap API that users call
    UserOps,        \* operations of the things API that users call
    BatchSize,      \* XREADGROUP Count
    MaxEvents,      \* bound: no new request while this many events are pending
    MaxFaults       \* bound on failed calls, lost events and crashes

ASSUME BootstrapAssumption ==
    /\ None \notin ExtIDs
    /\ BatchSize \in Nat \ {0} /\ MaxEvents \in Nat /\ MaxFaults \in Nat
    /\ Requests \subseteq {"Add", "Update", "ChangeState", "Remove"}
    /\ UserOps \subseteq {"RemoveThing", "RemoveChannel", "UpdateChannel",
                          "Connect", "Disconnect"}

VARIABLES
    cfgOwner,       \* table configs: mainflux_thing -> owner, None if no row
    cfgState,       \* table configs: column state
    cfgExt,         \* table configs: column external_id
    bsChannels,     \* table channels: mainflux_channel -> owner, or None
    bsConns,        \* table connections: set of <<channel_id, config_id>>
    req,            \* the request each process serves
    batch,          \* messages the consumer has read and not yet handled
    cleaning,       \* where the consumer is in the statements of RemoveThing
    doomed,         \* channels its cleanup has selected and not yet deleted
    lost,           \* history: things with a removal event in a batch given up
    raced,          \* history: the tables changed under a cleanup, see Overlap
    faults          \* failures so far, or Overflowed

tables == <<bsChannels, bsConns>>
configVars == <<cfgOwner, cfgState, cfgExt, tables>>
consumerVars == <<batch, cleaning, doomed, lost>>
vars == <<storeVars, eventVars, configVars, req, consumerVars, raced, faults>>

\* The service was stopped by its own stack overflow; no other failure is
\* injected after that.
Overflowed == MaxFaults + 1

States == {"Inactive", "Active"}

PCs == {"idle", "list", "fetch", "create", "get", "drop", "save", "undo",
        "load", "chans", "disc", "conn", "store", "tidy", "commit", "setstate",
        "del", "clean", "sweep"}

Ops == {"None", "Add", "Update", "ChangeState", "Remove"}

\* own, th, ext: owner, thing id (None for "") and external id; given: the
\* caller named the thing; want: channels asked for; known: ListExisting;
\* todo: channels still to fetch; from, to: channels the thing is connected
\* to, as far as the request knows, and is to be connected to; st: a state.
\* Inside a transaction, from: the connections it deletes, todo: the channels
\* its cleanup deletes.
Idle == [op |-> "None", pc |-> "idle", own |-> None, th |-> None, ext |-> None,
         given |-> FALSE, want |-> {}, known |-> {}, todo |-> {},
         from |-> {}, to |-> {}, st |-> "Inactive"]

RequestType ==
    [op : Ops, pc : PCs, own : Owners \cup {None}, th : ThingIDs \cup {None},
     ext : ExtIDs \cup {None}, given : BOOLEAN, want : SUBSET ChannelIDs,
     known : SUBSET ChannelIDs, todo : SUBSET ChannelIDs, from : SUBSET ChannelIDs,
     to : SUBSET ChannelIDs, st : States]

ConfigTypeOK ==
    /\ cfgOwner \in [ThingIDs -> Owners \cup {None}]
    /\ cfgState \in [ThingIDs -> States]
    /\ cfgExt \in [ThingIDs -> ExtIDs \cup {None}]
    /\ bsChannels \in [ChannelIDs -> Owners \cup {None}]
    /\ bsConns \subseteq ChannelIDs \X ThingIDs

TypeOK ==
    /\ StoreTypeOK
    /\ stream \in Seq(Events) /\ batch \in Seq(Events)
    /\ sending \subseteq (Proc \cup {None}) \X Events
    /\ ConfigTypeOK
    /\ req \in [Proc -> RequestType]
    /\ cleaning \in {"off", "clean", "sweep"} /\ doomed \subseteq ChannelIDs
    /\ lost \subseteq ThingIDs /\ raced \in BOOLEAN
    /\ faults \in 0..Overflowed

\* Users have provisioned the channels and some of the things; the bootstrap
\* service starts with an empty database.
Init ==
    /\ chanOwner \in [ChannelIDs -> Owners]
    /\ thingOwner \in [ThingIDs -> Owners \cup {None}]
    /\ thingKey = [t \in ThingIDs |-> IF ThingExists(t) THEN KeyOf[t] ELSE None]
    /\ connections = {}
    /\ issued = ChannelIDs \cup {t \in ThingIDs : ThingExists(t)}
    /\ stream = <<>> /\ sending = {}
    /\ cfgOwner = [t \in ThingIDs |-> None]
    /\ cfgState = [t \in ThingIDs |-> "Inactive"]
    /\ cfgExt = [t \in ThingIDs |-> None]
    /\ bsChannels = [c \in ChannelIDs |-> None]
    /\ bsConns = {}
    /\ req = [p \in Proc |-> Idle]
    /\ batch = <<>> /\ cleaning = "off" /\ doomed = {}
    /\ lost = {} /\ raced = FALSE
    /\ faults = 0

-----------------------------------------------------------------------------
(* The service's own database.                                             *)

ConfigExists(t) == cfgOwner[t] # None

ChannelsOf(t) == {c \in ChannelIDs : <<c, t>> \in bsConns}

\* What cleanupQuery selects: the channels no connection refers to.
Dangling(conns) == {c \in ChannelIDs : \A t \in ThingIDs : <<c, t>> \notin conns}

Without(chans, S) == [c \in ChannelIDs |-> IF c \in S THEN None ELSE chans[c]]

\* A transaction that inserts the channels new and connects them and the
\* channels known to the config of t: no channel of new may have a row yet,
\* and the foreign keys need every other channel to have one of owner o.  The
\* rows it inserts and refers to stay locked, so this holds when it commits.
Insertable(o, want, known) ==
    /\ \A c \in want \ known : bsChannels[c] = None
    /\ \A c \in want \cap known : bsChannels[c] = o

Inserted(o, want) == [c \in ChannelIDs |-> IF c \in want THEN o ELSE bsChannels[c]]

\* DELETE FROM configs ...; connections cascade.
DeleteConfig(t) ==
    /\ cfgOwner' = [cfgOwner EXCEPT ![t] = None]
    /\ cfgState' = [cfgState EXCEPT ![t] = "Inactive"]
    /\ cfgExt' = [cfgExt EXCEPT ![t] = None]
    /\ bsConns' = {x \in bsConns : x[2] # t}

\* A seeded fault for ConfigIntegrity: connections do not cascade.
SweepNoCascade(S) ==
    /\ bsChannels' = Without(bsChannels, S)
    /\ UNCHANGED <<cfgOwner, cfgState, cfgExt, bsConns>>

\* What cleanupQuery then deletes.  Its DELETE waits for a transaction that
\* refers to one of the channels and has not committed: the channel goes all
\* the same, and connections cascade.
Sweep(S) ==
    /\ bsChannels' = Without(bsChannels, S)
    /\ bsConns' = {x \in bsConns : x[1] \notin S}
    /\ UNCHANGED <<cfgOwner, cfgState, cfgExt>>

-----------------------------------------------------------------------------
(* Steps of requests.                                                      *)

Return(p) == req' = [req EXCEPT ![p] = Idle]

Goto(p, l) == req' = [req EXCEPT ![p].pc = l]

\* Inside a transaction that deletes the connections of its config to gone.
Enter(p, l, gone) ==
    req' = [req EXCEPT ![p].pc = l, ![p].from = gone, ![p].todo = {}]

\* Where request r goes on: the loops of Add, UpdateConnections and
\* ChangeState in the order the code has them.
NextPC(r) ==
    CASE r.todo # {}                       -> "fetch"
      [] r.todo = {} /\ r.op = "Add"       -> IF r.given THEN "get" ELSE "create"
      [] r.todo = {} /\ r.op # "Add"       ->
            CASE r.from \ r.to # {}                           -> "disc"
              [] r.from \subseteq r.to /\ r.to # r.from        -> "conn"
              [] r.from = r.to -> IF r.op = "Update" THEN "store" ELSE "setstate"

Continue(p, r) == req' = [req EXCEPT ![p] = [r EXCEPT !.pc = NextPC(r)]]

Fault == faults < MaxFaults /\ faults' = faults + 1

\* After an operation of the things service for a request, or for a user.
Notify(b, e) == Emit(b, e) /\ UNCHANGED faults

\* The things service is not asked, or refuses.
Unasked == UNCHANGED <<storeVars, eventVars, faults>>

\* The things service has answered the last call of request p.
Answered(p) == \A x \in sending : x[1] # p

RoomForEvents == Len(stream) + Len(batch) + Cardinality(sending) < MaxEvents

Arrive(p, r) ==
    /\ req[p].pc = "idle" /\ r.op \in Requests /\ RoomForEvents
    /\ req' = [req EXCEPT ![p] = r]
    /\ Unasked /\ UNCHANGED <<configVars, consumerVars>>

\* ListExisting: which of the channels asked for have a row already.  The
\* others are to be fetched from the things service.
ListExisting(p) ==
    /\ req[p].pc = "list"
    /\ LET known == {c \in req[p].want : bsChannels[c] = req[p].own}
       IN Continue(p, [req[p] EXCEPT !.known = known, !.todo = @ \ known])
    /\ Unasked /\ UNCHANGED <<configVars, consumerVars>>

\* connectionChannels: sdk.Channel for each of them, in the order of a map;
\* the caller must own it.
FetchChannel(p) ==
    /\ req[p].pc = "fetch"
    /\ \E c \in req[p].todo :
         IF chanOwner[c] = req[p].own
           THEN Continue(p, [req[p] EXCEPT !.todo = @ \ {c}])
           ELSE Return(p)
    /\ Unasked /\ UNCHANGED <<configVars, consumerVars>>

\* sdk.DisconnectThing for one channel of the loop.  A refusal is skipped.
DisconnectThing(p) ==
    /\ req[p].pc = "disc"
    /\ \E c \in req[p].from \ req[p].to :
         /\ IF Disconnectable(req[p].own, c, req[p].th)
              THEN /\ DeleteConnection(req[p].own, c, req[p].th)
                   /\ Notify(p, DisconnectEvent(c, req[p].th))
              ELSE Unasked
         /\ Continue(p, [req[p] EXCEPT !.from = @ \ {c}])
    /\ UNCHANGED <<configVars, consumerVars>>

\* sdk.Connect for one channel of the loop.  A refusal, and that includes a
\* pair that is connected already, ends the request where it is.
ConnectThing(p) ==
    /\ req[p].pc = "conn"
    /\ \E c \in req[p].to \ req[p].from :
         IF Connectable(req[p].own, {c}, {req[p].th})
           THEN /\ InsertConnections(req[p].own, {c}, {req[p].th})
                /\ Notify(p, ConnectEvent(c, req[p].th))
                /\ Continue(p, [req[p] EXCEPT !.from = @ \cup {c}])
           ELSE Unasked /\ Return(p)
    /\ UNCHANGED <<configVars, consumerVars>>

-----------------------------------------------------------------------------
(* Add.                                                                    *)

Add(p) ==
    \E o \in Owners, t \in ThingIDs \cup {None}, C \in SUBSET ChannelIDs, e \in ExtIDs :
        Arrive(p, [Idle EXCEPT !.op = "Add", !.pc = "list", !.own = o, !.th = t,
                               !.given = (t # None), !.ext = e,
                               !.want = C, !.todo = C])

\* sdk.CreateThing, when the caller named no thing.  Bound: it is refused once
\* every id of ThingIDs has been issued.
CreateThing(p) ==
    /\ req[p].pc = "create"
    /\ \/ \E t \in ThingIDs :
            /\ CreateOneThing(req[p].own, t)
            /\ Notify(p, CreateThingEvent(t))
            /\ req' = [req EXCEPT ![p].th = t, ![p].pc = "get"]
       \/ ThingIDs \subseteq issued /\ Unasked /\ Return(p)
    /\ UNCHANGED <<configVars, consumerVars>>

\* sdk.Thing: found, or an ErrFailedFetch that ends the request.
GetThing(p) ==
    /\ req[p].pc = "get"
    /\ IF thingOwner[req[p].th] = req[p].own THEN Goto(p, "save") ELSE Return(p)
    /\ Unasked /\ UNCHANGED <<configVars, consumerVars>>

\* A seeded fault for ConfigIntegrity: external_id is not UNIQUE.
SaveableSharedExt(r) ==
    /\ ~ConfigExists(r.th)
    /\ Insertable(r.own, r.want, r.known)

\* configs.Save: a transaction of INSERTs, which take effect together at its
\* commit.  mainflux_thing and external_id are UNIQUE, and the channels must
\* fit the tables.  mainflux_key is UNIQUE too; it is the key of the thing,
\* which no other thing has.
Saveable(r) ==
    /\ ~ConfigExists(r.th)
    /\ \A t \in ThingIDs : cfgExt[t] # r.ext
    /\ Insertable(r.own, r.want, r.known)

\* A seeded fault for AddLeavesNoOrphan: the test of the id is inverted, as
\* it is in the method thing.
SaveConfigInverted(p) ==
    /\ req[p].pc = "save"
    /\ LET r == req[p] IN
       IF Saveable(r)
         THEN /\ cfgOwner' = [cfgOwner EXCEPT ![r.th] = r.own]
              /\ cfgState' = [cfgState EXCEPT ![r.th] = "Inactive"]
              /\ cfgExt' = [cfgExt EXCEPT ![r.th] = r.ext]
              /\ bsChannels' = Inserted(r.own, r.want)
              /\ bsConns' = bsConns \cup (r.want \X {r.th})
              /\ Return(p)
         ELSE /\ IF r.given THEN Goto(p, "undo") ELSE Return(p)
              /\ UNCHANGED configVars
    /\ Unasked /\ UNCHANGED consumerVars

SaveConfig(p) ==
    /\ req[p].pc = "save"
    /\ LET r == req[p] IN
       IF Saveable(r)
         THEN /\ cfgOwner' = [cfgOwner EXCEPT ![r.th] = r.own]
              /\ cfgState' = [cfgState EXCEPT ![r.th] = "Inactive"]
              /\ cfgExt' = [cfgExt EXCEPT ![r.th] = r.ext]
              /\ bsChannels' = Inserted(r.own, r.want)
              /\ bsConns' = bsConns \cup (r.want \X {r.th})
              /\ Return(p)
         ELSE /\ IF r.given THEN Return(p) ELSE Goto(p, "undo")
              /\ UNCHANGED configVars
    /\ Unasked /\ UNCHANGED consumerVars

\* sdk.DeleteThing: "undo" after a failed Save of a thing that Add created,
\* "drop" after a failed fetch of a thing that the caller named.
DropThing(p) ==
    /\ req[p].pc \in {"undo", "drop"}
    /\ DeleteThing(req[p].own, req[p].th)
    /\ Notify(p, RemoveThingEvent(req[p].th))
    /\ Return(p)
    /\ UNCHANGED <<configVars, consumerVars>>

-----------------------------------------------------------------------------
(* UpdateConnections and ChangeState.                                      *)

UpdateConnections(p) ==
    \E o \in Owners, t \in ThingIDs, C \in SUBSET ChannelIDs :
        Arrive(p, [Idle EXCEPT !.op = "Update", !.pc = "load", !.own = o, !.th = t,
                               !.want = C, !.todo = C])

ChangeState(p) ==
    \E o \in Owners, t \in ThingIDs, s \in States :
        Arrive(p, [Idle EXCEPT !.op = "ChangeState", !.pc = "load", !.own = o,
                               !.th = t, !.st = s])

\* RetrieveByID, first query: the row of configs.  ChangeState has nothing to
\* do when the state is the one asked for.
LoadConfig(p) ==
    /\ req[p].pc = "load"
    /\ LET r == req[p] IN
       \/ /\ cfgOwner[r.th] = r.own
          /\ r.op = "Update"
          /\ req' = [req EXCEPT ![p].st = cfgState[r.th], ![p].pc = "chans"]
       \/ /\ cfgOwner[r.th] = r.own
          /\ r.op = "ChangeState" /\ cfgState[r.th] # r.st
          /\ Goto(p, "chans")
       \/ /\ \/ cfgOwner[r.th] # r.own
             \/ r.op = "ChangeState" /\ cfgState[r.th] = r.st
          /\ Return(p)
    /\ Unasked /\ UNCHANGED <<configVars, consumerVars>>

\* RetrieveByID, second query: its channels.  An Update of an Inactive
\* config leaves the things service alone.
LoadChannels(p) ==
    /\ req[p].pc = "chans"
    /\ LET r == req[p]
           C == {c \in ChannelsOf(r.th) : bsChannels[c] = r.own}
       IN \/ /\ r.op = "Update"
             /\ req' = [req EXCEPT ![p].pc = "list",
                          ![p].from = IF r.st = "Active" THEN C ELSE {},
                          ![p].to = IF r.st = "Active" THEN r.want ELSE {}]
          \/ /\ r.op = "ChangeState" /\ r.st = "Active"
             /\ Continue(p, [r EXCEPT !.to = C])
          \/ /\ r.op = "ChangeState" /\ r.st = "Inactive"
             /\ Continue(p, [r EXCEPT !.from = C])
    /\ Unasked /\ UNCHANGED <<configVars, consumerVars>>

\* Another UpdateConnections of the config of t is inside its transaction.
Contended(p, t) ==
    \E q \in Proc \ {p} : req[q].pc \in {"tidy", "commit"} /\ req[q].th = t

\* configs.UpdateConnections, first statements: the channels are inserted, all
\* connections of the config are deleted and the new ones inserted; others
\* see none of it yet.  The DELETE finds nothing when it waited for another
\* transaction that deleted the same rows.  An empty list changes nothing.
StoreConnections(p) ==
    /\ req[p].pc = "store"
    /\ LET r == req[p] IN
       IF r.want # {} /\ cfgOwner[r.th] = r.own /\ Insertable(r.own, r.want, r.known)
         THEN \/ Enter(p, "tidy", ChannelsOf(r.th)) /\ ChannelsOf(r.th) # {}
              \/ Enter(p, "commit", {}) /\ (ChannelsOf(r.th) = {} \/ Contended(p, r.th))
         ELSE Return(p)
    /\ Unasked /\ UNCHANGED <<configVars, consumerVars>>

\* The connections as the transaction of r sees them.
Replaced(r) ==
    {x \in bsConns : x[2] = r.th => x[1] \notin r.from} \cup (r.want \X {r.th})

\* Its cleanupQuery, which runs when any connection was deleted.
TidyChannels(p) ==
    /\ req[p].pc = "tidy"
    /\ req' = [req EXCEPT ![p].pc = "commit", ![p].todo = Dangling(Replaced(req[p]))]
    /\ Unasked /\ UNCHANGED <<configVars, consumerVars>>

\* The constraints of the tables admit what the transaction of r inserted.
Committable(r) ==
    /\ cfgOwner[r.th] = r.own
    /\ Insertable(r.own, r.want, r.known)
    /\ \A c \in r.want \ r.from : <<c, r.th>> \notin bsConns

\* A seeded fault for DanglingCleaned: the cleanup is left out.
CommitConnectionsOnly(p) ==
    /\ req[p].pc = "commit"
    /\ LET r == req[p] IN
       IF Committable(r)
         THEN /\ bsChannels' = Inserted(r.own, r.want)
              /\ bsConns' = Replaced(r)
              /\ UNCHANGED <<cfgOwner, cfgState, cfgExt>>
         ELSE UNCHANGED configVars
    /\ Return(p)
    /\ Unasked /\ UNCHANGED consumerVars

\* COMMIT.  A transaction that the constraints refuse has failed at one of
\* its statements, where it waited for the one that came before it.
CommitConnections(p) ==
    /\ req[p].pc = "commit"
    /\ LET r == req[p] IN
       IF Committable(r)
         THEN /\ bsChannels' = Without(Inserted(r.own, r.want), r.todo)
              /\ bsConns' = {x \in Replaced(r) : x[1] \notin r.todo}
              /\ UNCHANGED <<cfgOwner, cfgState, cfgExt>>
         ELSE UNCHANGED configVars
    /\ Return(p)
    /\ Unasked /\ UNCHANGED consumerVars

SetState(p) ==
    /\ req[p].pc = "setstate"
    /\ cfgState' = IF cfgOwner[req[p].th] = req[p].own
                     THEN [cfgState EXCEPT ![req[p].th] = req[p].st]
                     ELSE cfgState
    /\ Return(p)
    /\ Unasked /\ UNCHANGED <<cfgOwner, cfgExt, tables, consumerVars>>

-----------------------------------------------------------------------------
(* Remove.                                                                 *)

Remove(p) ==
    \E o \in Owners, t \in ThingIDs :
        Arrive(p, [Idle EXCEPT !.op = "Remove", !.pc = "del", !.own = o, !.th = t])

RemoveConfig(p) ==
    /\ req[p].pc = "del"
    /\ IF cfgOwner[req[p].th] = req[p].own
         THEN DeleteConfig(req[p].th) /\ UNCHANGED bsChannels
         ELSE UNCHANGED configVars
    /\ Goto(p, "clean")
    /\ Unasked /\ UNCHANGED consumerVars

\* cleanupQuery: select, and then delete.
RemoveCleanup(p) ==
    /\ req[p].pc = "clean"
    /\ req' = [req EXCEPT ![p].pc = "sweep", ![p].todo = Dangling(bsConns)]
    /\ Unasked /\ UNCHANGED <<configVars, consumerVars>>

RemoveSweep(p) ==
    /\ req[p].pc = "sweep"
    /\ Sweep(req[p].todo)
    /\ Return(p)
    /\ Unasked /\ UNCHANGED consumerVars

-----------------------------------------------------------------------------
(* Users of the things service.                                            *)

UserMay(op) == op \in UserOps /\ RoomForEvents

UserRemoveThing ==
    /\ UserMay("RemoveThing")
    /\ \E o \in Owners, t \in ThingIDs :
         DeleteThing(o, t) /\ Notify(None, RemoveThingEvent(t))
    /\ UNCHANGED <<configVars, req, consumerVars>>

UserRemoveChannel ==
    /\ UserMay("RemoveChannel")
    /\ \E o \in Owners, c \in ChannelIDs :
         DeleteChannel(o, c) /\ Notify(None, RemoveChannelEvent(c))
    /\ UNCHANGED <<configVars, req, consumerVars>>

UserUpdateChannel ==
    /\ UserMay("UpdateChannel")
    /\ \E c \in ChannelIDs : ChannelExists(c) /\ Notify(None, UpdateChannelEvent(c))
    /\ UNCHANGED <<storeVars, configVars, req, consumerVars>>

UserConnect ==
    /\ UserMay("Connect")
    /\ \E o \in Owners, c \in ChannelIDs, t \in ThingIDs :
         /\ Connectable(o, {c}, {t})
         /\ InsertConnections(o, {c}, {t})
         /\ Notify(None, ConnectEvent(c, t))
    /\ UNCHANGED <<configVars, req, consumerVars>>

UserDisconnect ==
    /\ UserMay("Disconnect")
    /\ \E o \in Owners, c \in ChannelIDs, t \in ThingIDs :
         /\ Disconnectable(o, c, t)
         /\ DeleteConnection(o, c, t)
         /\ Notify(None, DisconnectEvent(c, t))
    /\ UNCHANGED <<configVars, req, consumerVars>>

-----------------------------------------------------------------------------
(* The consumer.                                                           *)

\* XREADGROUP with ">": messages never delivered to the group before.
Read ==
    /\ batch = <<>> /\ stream # <<>>
    /\ LET n == IF Len(stream) < BatchSize THEN Len(stream) ELSE BatchSize
       IN /\ batch' = SubSeq(stream, 1, n)
          /\ stream' = SubSeq(stream, n + 1, Len(stream))
    /\ UNCHANGED <<storeVars, sending, configVars, req, cleaning, doomed, lost, faults>>

Handling(op) == batch # <<>> /\ Head(batch).op = op

\* XACK, and on to the next message of the batch.
Ack == batch' = Tail(batch)

\* RemoveConfigHandler: the two statements of configs.RemoveThing.
HandleRemoveThing ==
    /\ Handling("thing.remove") /\ cleaning = "off"
    /\ DeleteConfig(Head(batch).th) /\ UNCHANGED bsChannels
    /\ cleaning' = "clean"
    /\ Unasked /\ UNCHANGED <<req, batch, doomed, lost>>

HandleCleanup ==
    /\ cleaning = "clean"
    /\ cleaning' = "sweep" /\ doomed' = Dangling(bsConns)
    /\ Unasked /\ UNCHANGED <<configVars, req, batch, lost>>

HandleSweep ==
    /\ cleaning = "sweep"
    /\ Sweep(doomed)
    /\ cleaning' = "off" /\ doomed' = {}
    /\ Ack
    /\ Unasked /\ UNCHANGED <<req, lost>>

\* DisconnectThingHandler: the EXISTS of configs.DisconnectThing does not
\* refer to the row being updated, so it selects every config or none.
HandleDisconnectThing ==
    /\ Handling("thing.disconnect")
    /\ cfgState' = IF <<Head(batch).ch, Head(batch).th>> \in bsConns
                     THEN [t \in ThingIDs |-> "Inactive"]
                     ELSE cfgState
    /\ Ack
    /\ Unasked
    /\ UNCHANGED <<cfgOwner, cfgExt, tables, req, cleaning, doomed, lost>>

\* A seeded fault for RemoveEventApplied: the loop ends after this message.
HandleRemoveChannelBreak ==
    /\ Handling("channel.remove")
    /\ bsChannels' = [bsChannels EXCEPT ![Head(batch).ch] = None]
    /\ bsConns' = {x \in bsConns : x[1] # Head(batch).ch}
    /\ batch' = <<>>
    /\ Unasked /\ UNCHANGED <<cfgOwner, cfgState, cfgExt, req, cleaning, doomed, lost>>

HandleRemoveChannel ==
    /\ Handling("channel.remove")
    /\ bsChannels' = [bsChannels EXCEPT ![Head(batch).ch] = None]
    /\ bsConns' = {x \in bsConns : x[1] # Head(batch).ch}
    /\ Ack
    /\ Unasked /\ UNCHANGED <<cfgOwner, cfgState, cfgExt, req, cleaning, doomed, lost>>

\* The messages of the batch are given up: they stay pending in the group,
\* where ">" never looks.
GiveUp ==
    lost' = lost \cup {t \in ThingIDs :
                        \E i \in 1..Len(batch) : batch[i] = RemoveThingEvent(t)}

\* The process ends: its requests, its transactions and the rest of the batch
\* are gone.  The things service goes on with the calls it is serving.
Stop ==
    /\ req' = [p \in Proc |-> Idle]
    /\ batch' = <<>> /\ cleaning' = "off" /\ doomed' = {} /\ GiveUp
    /\ sending' = {<<None, x[2]>> : x \in sending}
    /\ UNCHANGED <<storeVars, stream, configVars>>

\* UpdateChannelHandler of the middleware calls itself: the stack overflows,
\* which a Go program does not survive.
HandleUpdateChannel ==
    /\ Handling("channel.update")
    /\ Stop
    /\ faults' = Overflowed

-----------------------------------------------------------------------------
(* Failures.                                                               *)

\* The next call of a request fails.  A transaction whose COMMIT fails is
\* reported as a success; a fetch of sdk.Thing that fails other than by a
\* status code leads to the deletion of a thing that the caller named; a
\* sdk.DisconnectThing that fails by a status code is skipped.
RequestFails(p) ==
    /\ req[p].pc # "idle"
    /\ Fault
    /\ \/ req[p].pc = "get" /\ req[p].given /\ Goto(p, "drop")
       \/ req[p].pc = "save" /\ ~req[p].given /\ Goto(p, "undo")
       \/ ~(req[p].pc = "get" /\ req[p].given) /\ Return(p)
       \/ /\ req[p].pc = "disc"
          /\ \E c \in req[p].from \ req[p].to :
               Continue(p, [req[p] EXCEPT !.from = @ \ {c}])
    /\ UNCHANGED <<storeVars, eventVars, configVars, consumerVars>>

\* A handler returns an error: the loop over the batch is left, without XACK.
\* configs.RemoveThing runs its cleanup all the same.
HandlerFails ==
    /\ batch # <<>> /\ Head(batch).op # "channel.update" /\ cleaning = "off"
    /\ Fault
    /\ GiveUp
    /\ IF Handling("thing.remove")
         THEN batch' = <<Head(batch)>> /\ cleaning' = "clean"
         ELSE batch' = <<>> /\ UNCHANGED cleaning
    /\ UNCHANGED <<storeVars, eventVars, configVars, req, doomed>>

\* The cleanup of RemoveThing fails, which is only logged.
HandleCleanupFails ==
    /\ cleaning # "off"
    /\ Fault
    /\ Ack /\ cleaning' = "off" /\ doomed' = {}
    /\ UNCHANGED <<storeVars, eventVars, configVars, req, lost>>

Crash == Fault /\ Stop

\* The XADD of an operation that has been done.
XAdd ==
    /\ \E x \in sending : (Send(x) /\ UNCHANGED faults) \/ (Lose(x) /\ Fault)
    /\ UNCHANGED <<storeVars, configVars, req, consumerVars>>

RequestStep(p) ==
    \/ ListExisting(p) \/ FetchChannel(p) \/ DisconnectThing(p) \/ ConnectThing(p)
    \/ CreateThing(p) \/ GetThing(p) \/ SaveConfig(p) \/ DropThing(p)
    \/ LoadConfig(p) \/ LoadChannels(p) \/ SetState(p)
    \/ StoreConnections(p) \/ TidyChannels(p) \/ CommitConnections(p)
    \/ RemoveConfig(p) \/ RemoveCleanup(p) \/ RemoveSweep(p)

Consume ==
    \/ Read \/ HandleRemoveThing \/ HandleCleanup \/ HandleSweep
    \/ HandleDisconnectThing \/ HandleRemoveChannel \/ HandleUpdateChannel

Users ==
    \/ UserRemoveThing \/ UserRemoveChannel \/ UserUpdateChannel
    \/ UserConnect \/ UserDisconnect

Steps ==
    \/ \E p \in Proc :
         \/ Add(p) \/ UpdateConnections(p) \/ ChangeState(p) \/ Remove(p)
         \/ Answered(p) /\ (RequestStep(p) \/ RequestFails(p))
    \/ Users \/ XAdd \/ Consume \/ HandlerFails \/ HandleCleanupFails \/ Crash

\* Request r has selected what it deletes.
Holds(r) == r.pc \in {"commit", "sweep"}

\* The tables change after a cleanup, or the transaction that it is part of,
\* selected its channels and before it deletes them.
Overlap ==
    /\ tables' # tables
    /\ \/ \E p \in Proc : Holds(req[p]) /\ req'[p] = req[p]
       \/ cleaning = "sweep" /\ cleaning' = "sweep"

Recorded == raced' = (raced \/ Overlap)

Next == Steps /\ Recorded

Spec == Init /\ [][Next]_vars

\* The consumer's loop never ends by itself, and its calls return.
FairSpec == Spec /\ WF_vars(Consume /\ Recorded)

-----------------------------------------------------------------------------
(* Properties.                                                             *)

\* Every connection joins a config and a channel that the service knows, of
\* one owner, and no two configs share an external id, so that Bootstrap
\* finds one config for a device: under every interleaving of Add,
\* UpdateConnections and Remove with the events, crashes included.
ConfigIntegrity ==
    /\ \A x \in bsConns :
         ConfigExists(x[2]) /\ bsChannels[x[1]] = cfgOwner[x[2]]
    /\ \A t \in ThingIDs : ConfigExists(t) <=> cfgExt[t] # None
    /\ \A t, u \in ThingIDs :
         ConfigExists(t) /\ cfgExt[t] = cfgExt[u] => t = u

\* No call has failed and the service has not crashed.
NoFailure == faults = 0

\* A channel that no config uses has a cleanup ahead of it: Remove,
\* RemoveThing and UpdateConnections leave no dangling channel behind, unless
\* a call failed or the tables changed between the statements by which one of
\* them selects and deletes.  That exception is real: two UpdateConnections
\* that take different configs off one channel each see the other's
\* connection, and the channel stays.
DanglingCleaned ==
    NoFailure /\ ~raced =>
        \/ \A c \in Dangling(bsConns) : bsChannels[c] = None
        \/ cleaning # "off" \/ \E p \in Proc : req[p].pc \in {"clean", "sweep"}

\* As long as nothing has failed, an Add that created a thing returns with
\* its config saved or with the thing gone again: two Adds for one external
\* id, or a channel removed meanwhile, leave no thing without a config.
AddLeavesNoOrphan ==
    [][\A p \in Proc :
         /\ NoFailure'
         /\ req[p].op = "Add" /\ ~req[p].given /\ req[p].th # None
         /\ req'[p].op = "None"
         => cfgOwner'[req[p].th] # None \/ thingOwner'[req[p].th] = None]_vars

\* RemoveConfigHandler "removes Configuration with id received from an
\* event" (bootstrap/service.go): a config whose thing has a removal event in
\* the stream goes, whatever requests and events come before and beside it,
\* unless the batch with the event is given up, which the overflow of
\* UpdateChannelHandler does to what follows a channel.update in its batch.
RemoveEventApplied ==
    \A t \in ThingIDs :
        (\E i \in 1..Len(stream) : stream[i] = RemoveThingEvent(t))
            ~> (~ConfigExists(t) \/ t \in lost)

-----------------------------------------------------------------------------
(* What the comments promise and the code does not do.                     *)

\* DisconnectThing "changes state of the Config when the corresponding Thing
\* is disconnected": a config stops being Active only through a request or an
\* event that names its thing.
DeactivatedByName ==
    [][\A t \in ThingIDs : cfgState[t] = "Active" /\ cfgState'[t] = "Inactive" =>
         \/ \E p \in Proc : req[p].th = t /\ req[p].pc \in {"setstate", "del"}
         \/ batch # <<>> /\ Head(batch).th = t]_vars

Quiescent ==
    /\ stream = <<>> /\ sending = {} /\ batch = <<>>
    /\ \A p \in Proc : req[p].pc = "idle"

\* RemoveConfigHandler "removes Configuration with id received from an
\* event": once requests and events are dealt with and nothing has failed,
\* every config has its thing.
ConfigsHaveThings ==
    Quiescent /\ NoFailure => \A t \in ThingIDs : ConfigExists(t) => ThingExists(t)

\* "Method thing retrieves Mainflux Thing creating one if an empty ID is
\* passed": Add never removes a thing that the caller named.
NamedThingKept ==
    [][\A p \in Proc :
         req[p].op = "Add" /\ req[p].given /\ req'[p] # req[p]
         => thingOwner'[req[p].th] = thingOwner[req[p].th]]_vars
=============================================================================
