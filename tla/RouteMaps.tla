------------------------------ MODULE RouteMaps ------------------------------
(***************************************************************************)
(* The LoRa and the OPC-UA adapter: the consumer of the things service's   *)
(* event stream (lora/redis/streams.go, opcua/redis/streams.go), the route *)
(* maps it keeps in Redis (lora/redis/routemap.go, opcua/redis/routemap.go)*)
(* and the messages from devices that these maps address (lora/adapter.go, *)
(* opcua/gopcua/subscribe.go).  The OPC-UA adapter also subscribes to the  *)
(* node of a thing that is connected to a channel (opcua/adapter.go), and  *)
(* to all the nodes it has stored (opcua/db/subs.go) when it starts.       *)
(*                                                                         *)
(* The adapter is chosen at the start.  A device EUI or a node is a member *)
(* of Devices, an application or a server one of Apps.  The OPC-UA maps    *)
(* keep both directions under one prefix, which makes no difference, since *)
(* the ids of things and channels are uuids.                               *)
(*                                                                         *)
(* The things service executes the statement of a request and then sends   *)
(* the event (things/redis/streams.go): in between other requests do the   *)
(* same, and an event that XADD fails to send is lost without a trace.     *)
(*                                                                         *)
(* The two SETs of Save are one step when both succeed: the consumer is    *)
(* the only writer and the only reader of the first key, and the messages  *)
(* of devices read the second one.  A Save that fails, or is cut short by  *)
(* the end of the process, leaves what its SETs have done.  XACK has no    *)
(* influence on what the group reads next, and is no step of its own.      *)
(***************************************************************************)
EXTENDS Naturals, Sequences, FiniteSets

CONSTANTS
    Things, Channels,
    Devices,      \* device EUIs, OPC-UA nodes
    Apps,         \* LoRa applications, OPC-UA servers
    Requests,     \* requests of the things service in progress at a time
    BatchSize,    \* Count of XREADGROUP
    MaxEvents,    \* bound: events of the things service
    MaxFaults,    \* bound: failing Redis calls and restarts
    None

Entity == Things \cup Channels

(* The events of the things service, as the adapters decode them.          *)
Events ==
    [op : {"create", "update"}, id : Entity, ext : Devices \cup Apps \cup {None, "bad"}]
    \cup [op : {"remove"}, id : Entity]
    \cup [op : {"connect", "disconnect"}, chan : Channels, thing : Things]

(* Ids are uuids; the markers of the model are none of the ids.            *)
ASSUME RouteMapsAssumption ==
    /\ Things \cap Channels = {} /\ Devices \cap Apps = {}
    /\ None \notin Things \cup Channels \cup Devices \cup Apps \cup {"bad", "absent", "removed"}
    /\ {"bad", "absent", "removed"} \cap (Devices \cup Apps) = {}
    /\ None \notin Events
    /\ BatchSize \in Nat \ {0}

VARIABLES
    adapter,      \* "lora" or "opcua"
    meta,         \* the things service: metadata of each thing and channel
    sending,      \* the event a request has still to send, or None
    stream,       \* the events sent
    next,         \* the first event the consumer group has not been given
    batch,        \* numbers of the events read and not yet handled
    fwd, rev,     \* route maps: id -> external id, external id -> id
    conns,        \* connection route map: pairs <<channel, thing>>
    cfg,          \* shared Config of the service, and of the start-up loop
    pc,           \* "handle"; inside ConnectThing: "connect", "saved", "store"
    starting,     \* subscription goroutines that have not read the Config
    active,       \* subscriptions: [app, dev]
    nodes,        \* /store/nodes.csv
    booting,      \* nodes the start-up loop has still to go through
    last,         \* the message published last
    failed,       \* history: events that failed or were never handled
    astray,       \* history: entities with a lost event or overlapping requests
    faults

things_vars == <<meta, sending, astray>>
stream_vars == <<things_vars, stream>>
route_vars == <<fwd, rev, conns>>
sub_vars == <<cfg, starting, active, nodes, booting>>
vars == <<adapter, meta, sending, astray, stream, next, batch, fwd, rev, conns, cfg, pc,
          starting, active, nodes, booting, last, failed, faults>>

Exts(e) == IF e \in Things THEN Devices ELSE Apps
Range(s) == {s[i] : i \in DOMAIN s}
NoConfig == [app |-> None, dev |-> None]

(***************************************************************************)
(* The things service, as far as its events go.  The metadata of a thing   *)
(* has no field of the adapter (None), a malformed one ("bad"), or names   *)
(* an external id.                                                         *)
(***************************************************************************)
Gone == {"absent", "removed"}

IsAbout(ev, e) == ev.op \in {"create", "update", "remove"} /\ ev.id = e
IsPending(e) == \E r \in Requests : sending[r] # None /\ IsAbout(sending[r], e)

(* The statement of request r is executed, its event is still to be sent.  *)
Emit(r, ev) ==
    /\ sending[r] = None
    /\ Len(stream) + Cardinality({q \in Requests : sending[q] # None}) < MaxEvents
    /\ sending' = [sending EXCEPT ![r] = ev]
    /\ astray' = astray \cup {e \in Entity : IsPending(e) /\ IsAbout(ev, e)}

Create(r, e, x) ==
    /\ meta[e] = "absent"
    /\ meta' = [meta EXCEPT ![e] = x]
    /\ Emit(r, [op |-> "create", id |-> e, ext |-> x])

Update(r, e, x) ==
    /\ meta[e] \notin Gone \cup {x}
    /\ meta' = [meta EXCEPT ![e] = x]
    /\ Emit(r, [op |-> "update", id |-> e, ext |-> x])

(* The event is sent also when there is no row, and when it belongs to     *)
(* another user and stays.                                                 *)
Delete(r, e) ==
    /\ meta' \in {meta} \cup {[meta EXCEPT ![e] = "removed"] : d \in {meta[e]} \ Gone}
    /\ Emit(r, [op |-> "remove", id |-> e])

Connection(r, op, c, t) ==
    /\ meta[c] \notin Gone /\ meta[t] \notin Gone
    /\ Emit(r, [op |-> op, chan |-> c, thing |-> t])
    /\ UNCHANGED meta

Execute(r) ==
    /\ \/ \E e \in Entity :
             \/ Delete(r, e)
             \/ \E x \in Exts(e) \cup {None, "bad"} : Create(r, e, x) \/ Update(r, e, x)
       \/ \E c \in Channels, t \in Things, op \in {"connect", "disconnect"} : Connection(r, op, c, t)
    /\ UNCHANGED <<stream, faults>>

(* XADD                                                                    *)
Send(r) ==
    /\ sending[r] # None
    /\ stream' = Append(stream, sending[r])
    /\ sending' = [sending EXCEPT ![r] = None]
    /\ UNCHANGED <<meta, astray, faults>>

(* XADD fails and its error is ignored, or the service stops before it.    *)
Lose(r) ==
    /\ sending[r] # None /\ faults < MaxFaults
    /\ sending' = [sending EXCEPT ![r] = None]
    /\ astray' = astray \cup {e \in Entity : IsAbout(sending[r], e)}
    /\ faults' = faults + 1
    /\ UNCHANGED <<meta, stream>>

ThingsNext ==
    /\ \E r \in Requests : Execute(r) \/ Send(r) \/ Lose(r)
    /\ UNCHANGED <<adapter, next, batch, route_vars, sub_vars, pc, last, failed>>

(***************************************************************************)
(* The consumer                                                            *)
(***************************************************************************)
(* XREADGROUP with ">": only events that were never given to the group.    *)
ReadBatch ==
    /\ batch = <<>> /\ next <= Len(stream)
    /\ LET n == IF Len(stream) - next + 1 < BatchSize THEN Len(stream) - next + 1 ELSE BatchSize
       IN  /\ batch' = [i \in 1..n |-> next + i - 1]
           /\ next' = next + n
    /\ UNCHANGED <<adapter, stream_vars, route_vars, sub_vars, pc, last, failed, faults>>

Event == stream[Head(batch)]
Handling == batch # <<>> /\ pc = "handle"

(* The event is acknowledged and the loop goes on.                         *)
Ack ==
    /\ batch' = Tail(batch)
    /\ failed' = failed

(* An error leaves the loop: what remains of the batch is neither handled  *)
(* nor acknowledged, and will not be read again.                           *)
Break ==
    /\ batch' = <<>>
    /\ failed' = failed \cup Range(batch)

AckOnly == Event.op \in {"create", "update"} /\ Event.ext = None

(* Metadata without the adapter's field, or an event the adapter has no    *)
(* case for.                                                               *)
HandleOther ==
    /\ Handling
    /\ AckOnly \/ (adapter = "lora" /\ Event.op \in {"connect", "disconnect"})
    /\ Ack
    /\ UNCHANGED <<adapter, stream_vars, next, route_vars, sub_vars, pc, last, faults>>

HandleMalformed ==
    /\ Handling
    /\ Event.op \in {"create", "update"} /\ Event.ext = "bad"
    /\ Break
    /\ UNCHANGED <<adapter, stream_vars, next, route_vars, sub_vars, pc, last, faults>>

(* routerMap.Save, for a create and an update alike: nothing is done about *)
(* the external id the entity had before.                                  *)
SaveOneWay(e, x) ==
    /\ fwd' = [fwd EXCEPT ![e] = x]
    /\ rev' = IF fwd[e] = None THEN [rev EXCEPT ![x] = e] ELSE rev

Save(e, x) ==
    /\ fwd' = [fwd EXCEPT ![e] = x]
    /\ rev' = [rev EXCEPT ![x] = e]

HandleSave ==
    /\ Handling
    /\ Event.op \in {"create", "update"} /\ Event.ext \notin {None, "bad"}
    /\ Save(Event.id, Event.ext)
    /\ Ack
    /\ UNCHANGED <<adapter, stream_vars, next, conns, sub_vars, pc, last, faults>>

(* One of the SETs fails; what has failed may still have been done.        *)
HandleSaveFails ==
    /\ Handling /\ faults < MaxFaults
    /\ Event.op \in {"create", "update"} /\ Event.ext \notin {None, "bad"}
    /\ \/ UNCHANGED <<fwd, rev>>
       \/ fwd' = [fwd EXCEPT ![Event.id] = Event.ext] /\ UNCHANGED rev
       \/ Save(Event.id, Event.ext)
    /\ Break
    /\ faults' = faults + 1
    /\ UNCHANGED <<adapter, stream_vars, next, conns, sub_vars, pc, last>>

(* routerMap.Remove: GET of the forward route, DEL of both keys.  Without  *)
(* a route the GET is an error.                                            *)
Remove(e) ==
    /\ fwd' = [fwd EXCEPT ![e] = None]
    /\ rev' = [rev EXCEPT ![fwd[e]] = None]

HandleRemove ==
    /\ Handling /\ Event.op = "remove"
    /\ IF fwd[Event.id] # None
         THEN Remove(Event.id) /\ Ack
         ELSE UNCHANGED <<fwd, rev>> /\ Break
    /\ UNCHANGED <<adapter, stream_vars, next, conns, sub_vars, pc, last, faults>>

(* The GET or the DEL fails.                                               *)
HandleRemoveFails ==
    /\ Handling /\ faults < MaxFaults
    /\ Event.op = "remove" /\ fwd[Event.id] # None
    /\ UNCHANGED <<fwd, rev>> \/ Remove(Event.id)
    /\ Break
    /\ faults' = faults + 1
    /\ UNCHANGED <<adapter, stream_vars, next, conns, sub_vars, pc, last>>

(* ConnectThing: both routes are looked up and written to the Config that  *)
(* all subscriptions share, the node first.                                *)
ConnectEarly ==
    /\ Handling /\ adapter = "opcua" /\ Event.op = "connect"
    /\ IF fwd[Event.chan] # None /\ fwd[Event.thing] # None
         THEN /\ starting' = starting \cup {[of |-> "svc", n |-> Head(batch)]}
              /\ pc' = "connect"
              /\ UNCHANGED <<batch, failed>>
         ELSE Break /\ UNCHANGED <<starting, pc>>
    /\ UNCHANGED <<adapter, stream_vars, next, route_vars, cfg, active, nodes, booting,
                   last, faults>>

ConnectThing ==
    /\ Handling /\ adapter = "opcua" /\ Event.op = "connect"
    /\ IF fwd[Event.chan] # None /\ fwd[Event.thing] # None
         THEN /\ cfg' = [cfg EXCEPT !["svc"].dev = fwd[Event.thing]]
              /\ pc' = "connect"
              /\ UNCHANGED <<batch, failed>>
         ELSE Break /\ UNCHANGED <<cfg, pc>>
    /\ UNCHANGED <<adapter, stream_vars, next, route_vars, starting, active, nodes, booting,
                   last, faults>>

(* A GET of ConnectThing or of DisconnectThing fails, or a DEL that was    *)
(* not done.                                                               *)
LookupFails ==
    /\ Handling /\ faults < MaxFaults /\ adapter = "opcua"
    /\ Event.op \in {"connect", "disconnect"}
    /\ Break
    /\ faults' = faults + 1
    /\ UNCHANGED <<adapter, stream_vars, next, route_vars, sub_vars, pc, last>>

(* connectRM.Save(c, c): both SETs write the same key, so the pair is      *)
(* there with the first of them.                                           *)
Connected == conns \cup {<<Event.chan, Event.thing>>}

ConnectSaved ==
    /\ pc = "connect"
    /\ cfg' = [cfg EXCEPT !["svc"].app = fwd[Event.chan]]
    /\ conns' = Connected
    /\ pc' = "saved"
    /\ UNCHANGED <<adapter, stream_vars, next, batch, fwd, rev, starting, active, nodes, booting,
                   last, failed, faults>>

(* The first SET or the second one fails.                                  *)
ConnectSaveFails ==
    /\ pc = "connect" /\ faults < MaxFaults
    /\ cfg' = [cfg EXCEPT !["svc"].app = fwd[Event.chan]]
    /\ conns' \in {conns, Connected}
    /\ pc' = "handle"
    /\ Break
    /\ faults' = faults + 1
    /\ UNCHANGED <<adapter, stream_vars, next, fwd, rev, starting, active, nodes, booting, last>>

StartSubscription ==
    /\ pc = "saved"
    /\ starting' = starting \cup {[of |-> "svc", n |-> Head(batch)]}
    /\ pc' = "store"
    /\ UNCHANGED <<adapter, stream_vars, next, batch, route_vars, cfg, active, nodes, booting,
                   last, failed, faults>>

(* db.Save drops its errors: the event is acknowledged also when the node  *)
(* could not be stored.  The consumer has changed no route since it looked *)
(* them up.                                                                *)
StoreNode ==
    /\ pc = "store"
    /\ nodes' \in {nodes, Append(nodes, [app |-> fwd[Event.chan], dev |-> fwd[Event.thing]])}
    /\ pc' = "handle"
    /\ Ack
    /\ UNCHANGED <<adapter, stream_vars, next, route_vars, cfg, starting, active, booting,
                   last, faults>>

DisconnectIgnored ==
    /\ Handling /\ adapter = "opcua" /\ Event.op = "disconnect"
    /\ Ack
    /\ UNCHANGED <<adapter, stream_vars, next, route_vars, sub_vars, pc, last, faults>>

DisconnectThing ==
    LET pair == <<Event.chan, Event.thing>> IN
    /\ Handling /\ adapter = "opcua" /\ Event.op = "disconnect"
    /\ IF pair \in conns THEN conns' = conns \ {pair} /\ Ack
                         ELSE UNCHANGED conns /\ Break
    /\ UNCHANGED <<adapter, stream_vars, next, fwd, rev, sub_vars, pc, last, faults>>

(* The DEL is reported to fail, though it was done.                        *)
DisconnectFails ==
    /\ Handling /\ faults < MaxFaults /\ adapter = "opcua"
    /\ Event.op = "disconnect" /\ <<Event.chan, Event.thing>> \in conns
    /\ conns' = conns \ {<<Event.chan, Event.thing>>}
    /\ Break
    /\ faults' = faults + 1
    /\ UNCHANGED <<adapter, stream_vars, next, fwd, rev, sub_vars, pc, last>>

ConsumerNext ==
    \/ ReadBatch \/ HandleOther \/ HandleMalformed \/ HandleSave \/ HandleSaveFails
    \/ HandleRemove \/ HandleRemoveFails
    \/ ConnectThing \/ ConnectSaved \/ ConnectSaveFails \/ StartSubscription \/ StoreNode
    \/ DisconnectThing \/ DisconnectFails \/ LookupFails

(***************************************************************************)
(* OPC-UA subscriptions                                                    *)
(***************************************************************************)
(* A goroutine reads the Config as it is when it runs.                     *)
Subscribe(g) ==
    /\ g \in starting
    /\ starting' = starting \ {g}
    /\ active' = active \cup {cfg[g.of]}
    /\ UNCHANGED <<adapter, stream_vars, next, batch, route_vars, cfg, pc, nodes, booting,
                   last, failed, faults>>

(* The server does not answer, or refuses: only logged.                    *)
SubscribeFails(g) ==
    /\ g \in starting
    /\ starting' = starting \ {g}
    /\ UNCHANGED <<adapter, stream_vars, next, batch, route_vars, cfg, pc, active, nodes,
                   booting, last, failed, faults>>

(* The adapter stops in the middle of whatever it does, and starts again.  *)
Restart ==
    /\ faults < MaxFaults
    /\ faults' = faults + 1
    /\ failed' = failed \cup Range(batch)
    /\ batch' = <<>> /\ pc' = "handle"
    /\ starting' = {} /\ active' = {}
    /\ cfg' = [c \in {"svc", "boot"} |-> NoConfig]
    /\ booting' = nodes
    /\ UNCHANGED <<adapter, stream_vars, next, route_vars, nodes, last>>

(* subscribeToStoredSubs: the goroutines share the variable of the loop.   *)
Resubscribe ==
    /\ booting # <<>>
    /\ cfg' = [cfg EXCEPT !["boot"] = Head(booting)]
    /\ starting' = starting \cup {[of |-> "boot", n |-> Len(booting)]}
    /\ booting' = Tail(booting)
    /\ UNCHANGED <<adapter, stream_vars, next, batch, route_vars, pc, active, nodes, last,
                   failed, faults>>

(***************************************************************************)
(* Messages from devices                                                   *)
(***************************************************************************)
Message(d, a) == [thing |-> rev[d], channel |-> rev[a], dev |-> d, app |-> a]

(* LoRa: any uplink whose device and application are routed.               *)
PublishLora(d, a) ==
    /\ adapter = "lora"
    /\ rev[d] # None /\ rev[a] # None
    /\ last' = Message(d, a)
    /\ UNCHANGED <<adapter, stream_vars, next, batch, route_vars, sub_vars, pc, failed, faults>>

(* OPC-UA: a data change of an active subscription.  A missing route ends  *)
(* the subscription, a missing connection is only logged.                  *)
NotifyOpcua(s) ==
    /\ s \in active
    /\ IF rev[s.app] = None \/ rev[s.dev] = None
         THEN active' = active \ {s} /\ UNCHANGED last
         ELSE /\ <<rev[s.app], rev[s.dev]>> \in conns
              /\ last' = Message(s.dev, s.app)
              /\ UNCHANGED active
    /\ UNCHANGED <<adapter, stream_vars, next, batch, route_vars, cfg, pc, starting, nodes,
                   booting, failed, faults>>

(***************************************************************************)
ThingsInit ==
    /\ meta = [e \in Entity |-> "absent"]
    /\ sending = [r \in Requests |-> None] /\ astray = {}
    /\ stream = <<>>

AdapterInit ==
    /\ adapter \in {"lora", "opcua"}
    /\ next = 1 /\ batch = <<>>
    /\ fwd = [e \in Entity |-> None]
    /\ rev = [x \in Devices \cup Apps |-> None]
    /\ conns = {} /\ starting = {} /\ active = {} /\ nodes = <<>> /\ booting = <<>>
    /\ cfg = [c \in {"svc", "boot"} |-> NoConfig]
    /\ pc = "handle" /\ last = None /\ failed = {} /\ faults = 0

Init == ThingsInit /\ AdapterInit

DevicesNext ==
    \/ \E d \in Devices, a \in Apps : PublishLora(d, a)
    \/ \E s \in active : NotifyOpcua(s)

SubscriptionsNext == Restart \/ Resubscribe \/ \E g \in starting : Subscribe(g) \/ SubscribeFails(g)

Next == ThingsNext \/ ConsumerNext \/ SubscriptionsNext \/ DevicesNext

Spec == Init /\ [][Next]_vars

(***************************************************************************)
(* Properties                                                              *)
(***************************************************************************)
(* Event i, already given to the consumer, says that x is e's external id. *)
Says(i, e, x) ==
    /\ i < next
    /\ stream[i].op \in {"create", "update"} /\ stream[i].id = e /\ stream[i].ext = x

Said(e, x) == \E i \in DOMAIN stream : Says(i, e, x)

(* A message from a device is published as a thing and on a channel whose  *)
(* own metadata named this device and this application, and every route in *)
(* Redis comes from such an event, whatever was lost, half written or read *)
(* from a Config that another event has changed.  (A thing that named the  *)
(* device only in the past still counts: Remove and Save leave the reverse *)
(* route of an earlier external id behind.)                                *)
RouteProvenance ==
    /\ \A e \in Entity : fwd[e] # None => Said(e, fwd[e])
    /\ \A x \in DOMAIN rev : rev[x] # None => Said(rev[x], x)
    /\ last # None => Said(last.thing, last.dev) /\ Said(last.channel, last.app)
    /\ \A s \in active : (\E t \in Things : Said(t, s.dev)) /\ \E c \in Channels : Said(c, s.app)

CaughtUp == batch = <<>> /\ next > Len(stream)
IsOwn(i, e) == IsAbout(stream[i], e)
Latest(i, e) == IsOwn(i, e) /\ \A j \in 1..Len(stream) : IsOwn(j, e) => j <= i
Missed(e) == \E i \in failed : IsOwn(i, e)

RoutedBy(e, x) ==
    fwd[e] = x /\ (rev[x] = e \/ \E o \in Entity \ {e} : Said(o, x))

(* When the consumer has caught up, a thing or channel none of whose       *)
(* events failed, or stood behind a failed one, is routed by the last of   *)
(* its events in the stream: to the external id it names, and back unless  *)
(* somebody else ever named the same one; nowhere after a removal.  That   *)
(* is its current metadata when no event of it was lost or is still to be  *)
(* sent and no two requests about it overlapped.  (A thing a stranger      *)
(* asked to remove is still there, but its route is gone with the event.)  *)
CaughtUpRouted ==
    CaughtUp => \A e \in Entity : ~Missed(e) =>
        LET wasRemoved == \E i \in 1..Len(stream) : Latest(i, e) /\ stream[i].op = "remove"
        IN
        /\ wasRemoved => fwd[e] = None
        /\ \A i \in 1..Len(stream) : Latest(i, e) /\ ~wasRemoved /\ stream[i].ext \in Exts(e) =>
              RoutedBy(e, stream[i].ext)
        /\ e \notin astray /\ ~IsPending(e) =>
              /\ meta[e] \in Exts(e) /\ ~wasRemoved => RoutedBy(e, meta[e])
              /\ meta[e] \in Gone => fwd[e] = None

IsPair(i, c, t) ==
    stream[i].op \in {"connect", "disconnect"} /\ stream[i].chan = c /\ stream[i].thing = t

WasConnected(c, t) ==
    \E i \in 1..Len(stream) : i < next /\ IsPair(i, c, t) /\ stream[i].op = "connect"

(* An OPC-UA message is published only for a pair the consumer was told is *)
(* connected; and once the consumer is through with the last event about a *)
(* pair, and this one did not fail, the pair is in the connection map just *)
(* when that event connected it, whatever failed, half done or not, before.*)
ConnectionsKept ==
    adapter = "opcua" => \A c \in Channels, t \in Things :
        LET settled == {i \in 1..next - 1 : i \notin Range(batch) /\ IsPair(i, c, t)}
            connecting == pc \in {"saved", "store"} /\ IsPair(Head(batch), c, t)
        IN
        /\ <<c, t>> \in conns => WasConnected(c, t)
        /\ ~connecting => \A i \in settled \ failed :
              (\A j \in settled : j <= i) => (<<c, t>> \in conns <=> stream[i].op = "connect")
=============================================================================
