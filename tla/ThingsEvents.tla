---------------------------- MODULE ThingsEvents ----------------------------
(***************************************************************************)
(* The HTTP API of the things service as the other services see it: an     *)
(* operation on the database (ThingsStore), and the event that the         *)
(* eventStore middleware (things/redis/streams.go) adds to the Redis       *)
(* stream "mainflux.things" once the operation has returned no error: the  *)
(* statement and the XADD are two steps, between which others may come.    *)
(* The reply to the caller follows the XADD, whether it failed or not.     *)
(***************************************************************************)
EXTENDS ThingsStore, Sequences

CONSTANTS
    Watched,        \* operations that the consumer of the stream acts on; it
                    \* acknowledges the others and does nothing
    KeyOf           \* the key uuidProvider makes for a thing created without one

Operations == {"thing.create", "thing.remove", "thing.connect", "thing.disconnect",
               "channel.create", "channel.update", "channel.remove"}

ASSUME EventsAssumption ==
    /\ Watched \subseteq Operations
    /\ KeyOf \in [ThingIDs -> Keys]
    /\ \A t, u \in ThingIDs : KeyOf[t] = KeyOf[u] => t = u

VARIABLES
    stream,         \* the events not yet delivered to the consumer group
    sending         \* <<caller, event>>: operations done, their XADD to come

eventVars == <<stream, sending>>

Event(op, c, t) == [op |-> op, ch |-> c, th |-> t]

Events == [op : Operations, ch : ChannelIDs \cup {None}, th : ThingIDs \cup {None}]

\* The operation of caller b has been done, and the middleware goes on to the
\* XADD.  Events that the consumer skips are left out of the model.  Bound:
\* one caller has not the same event under way twice.
Emit(b, e) ==
    /\ <<b, e>> \notin sending
    /\ sending' = IF e.op \in Watched THEN sending \cup {<<b, e>>} ELSE sending
    /\ UNCHANGED stream

\* XADD, in the order in which the callers get to it.
Send(x) ==
    /\ stream' = Append(stream, x[2])
    /\ sending' = sending \ {x}

\* XADD fails, its error is dropped and the caller still succeeds; or the
\* things service ends before it.
Lose(x) == sending' = sending \ {x} /\ UNCHANGED stream

-----------------------------------------------------------------------------
(* The operations; each comes with Emit of its event or, when it fails,    *)
(* with nothing.                                                           *)

\* CreateThings for one thing that has no key yet.
CreateOneThing(o, t) == SaveThings(o, {t}, [x \in {t} |-> KeyOf[x]])

CreateThingEvent(t) == Event("thing.create", None, t)

\* things.Remove reports no error when no row matched, so the event is sent
\* for any id, whoever owns it.
RemoveThingEvent(t) == Event("thing.remove", None, t)

RemoveChannelEvent(c) == Event("channel.remove", c, None)

UpdateChannelEvent(c) == Event("channel.update", c, None)

ConnectEvent(c, t) == Event("thing.connect", c, t)

DisconnectEvent(c, t) == Event("thing.disconnect", c, t)

\* channels.Disconnect answers ErrNotFound when it deletes no row.
Disconnectable(o, c, t) ==
    chanOwner[c] = o /\ thingOwner[t] = o /\ <<c, t>> \in connections
=============================================================================
