--------------------------- MODULE RouteMapsProofs ---------------------------
(***************************************************************************)
(* Proofs about the LoRa and OPC-UA adapters, for any things, channels,    *)
(* devices and applications, any stream of events, batches of any size,    *)
(* and any number of failing calls and restarts.                           *)
(***************************************************************************)
EXTENDS RouteMaps, TLAPS

USE RouteMapsAssumption

Changes == {"create", "update", "remove"}

(* The first event that is not handled yet, or next.                       *)
Done == next - Len(batch)

(* The consumer group: events are given to the consumer in order, and it   *)
(* handles those of a batch in order.                                      *)
LogOK ==
    /\ stream \in Seq(Events)
    /\ \A i \in 1..Len(stream) :
          stream[i].op \in {"create", "update"} => stream[i].ext \in Exts(stream[i].id) \cup {None, "bad"}
    /\ next \in 1..Len(stream) + 1
    /\ batch \in Seq(Nat) /\ Len(batch) < next
    /\ \A k \in 1..Len(batch) : batch[k] = Done + k - 1
    /\ failed \subseteq 1..Done - 1

(* The route maps.                                                         *)
RoutesOK ==
    /\ fwd \in [Entity -> Devices \cup Apps \cup {None}]
    /\ \A e \in Entity : fwd[e] \in Exts(e) \cup {None}
    /\ rev \in [Devices \cup Apps -> Entity \cup {None}]
    /\ \A e \in Entity : fwd[e] # None => Said(e, fwd[e])
    /\ \A x \in Devices \cup Apps : rev[x] # None => Said(rev[x], x)

(* A node to subscribe to, named by some thing, of a server named by some  *)
(* channel.                                                                *)
Node == [app : Apps, dev : Devices]
DevSaid(d) == d \in Devices /\ \E t \in Things : Said(t, d)
AppSaid(a) == a \in Apps /\ \E c \in Channels : Said(c, a)
NodeSaid(s) == DevSaid(s.dev) /\ AppSaid(s.app)

(* Whatever the goroutines find in the shared Config, whenever they run.   *)
SubsOK ==
    /\ cfg \in [{"svc", "boot"} -> [app : Apps \cup {None}, dev : Devices \cup {None}]]
    /\ \A k \in {"svc", "boot"} : /\ cfg[k].dev # None => DevSaid(cfg[k].dev)
                                  /\ cfg[k].app # None => AppSaid(cfg[k].app)
    /\ \A g \in starting : g.of \in {"svc", "boot"} /\ cfg[g.of].dev # None /\ cfg[g.of].app # None
    /\ \A s \in active : NodeSaid(s)
    /\ nodes \in Seq(Node) /\ \A i \in 1..Len(nodes) : NodeSaid(nodes[i])
    /\ booting \in Seq(Node) /\ \A i \in 1..Len(booting) : NodeSaid(booting[i])
    /\ last # None => Said(last.thing, last.dev) /\ Said(last.channel, last.app)

ConnectOK ==
    /\ pc \in {"handle", "connect", "saved", "store"}
    /\ pc # "handle" => /\ batch # <<>> /\ adapter = "opcua" /\ Event.op = "connect"
                        /\ fwd[Event.chan] # None /\ fwd[Event.thing] # None
                        /\ cfg["svc"].dev # None
    /\ pc \in {"saved", "store"} => cfg["svc"].app # None /\ <<Event.chan, Event.thing>> \in conns

(* The things service: the events under way, and what the last event of an *)
(* entity that did not go astray says of its metadata.                     *)
ExtOK(ev) == ev.op \in {"create", "update"} => ev.ext \in Exts(ev.id) \cup {None, "bad"}
OwnSend(r, e) == sending[r] # None /\ IsAbout(sending[r], e)
Matches(ev, e) == ev.op = "remove" \/ ev.ext = meta[e]

Agrees(e) ==
    /\ \A r, q \in Requests : OwnSend(r, e) /\ OwnSend(q, e) => r = q
    /\ \A r \in Requests : OwnSend(r, e) => Matches(sending[r], e)
    /\ ~IsPending(e) =>
          \/ meta[e] = "absent" /\ \A i \in 1..Len(stream) : ~IsOwn(i, e)
          \/ \E i \in 1..Len(stream) : Latest(i, e) /\ Matches(stream[i], e)

MetaOK ==
    /\ meta \in [Entity -> Devices \cup Apps \cup {None, "bad", "absent", "removed"}]
    /\ sending \in [Requests -> Events \cup {None}]
    /\ \A r \in Requests : sending[r] # None => ExtOK(sending[r])
    /\ \A e \in Entity : e \notin astray => Agrees(e)

(* An entity none of whose events was missed is routed by the last one of  *)
(* them that was handled.                                                  *)
LastDone(i, e) == IsOwn(i, e) /\ \A j \in 1..Done - 1 : IsOwn(j, e) => j <= i

Routed(e) ==
    /\ (\A i \in 1..Done - 1 : ~IsOwn(i, e)) => fwd[e] = None
    /\ \A i \in 1..Done - 1 : LastDone(i, e) =>
          /\ stream[i].op = "remove" => fwd[e] = None
          /\ stream[i].op # "remove" /\ stream[i].ext \in Exts(e) => RoutedBy(e, stream[i].ext)

RoutedOK == \A e \in Entity : ~Missed(e) => Routed(e)

(* A pair is in the connection map by the last event about it, when that   *)
(* one did not fail.                                                       *)
LastPair(i, c, t) == IsPair(i, c, t) /\ \A j \in 1..Done - 1 : IsPair(j, c, t) => j <= i
Busy(c, t) == batch # <<>> /\ pc \in {"saved", "store"} /\ IsPair(Done, c, t)

ConnOK(c, t) ==
    /\ <<c, t>> \in conns => WasConnected(c, t)
    /\ ~Busy(c, t) => \A i \in 1..Done - 1 : LastPair(i, c, t) /\ i \notin failed =>
          (<<c, t>> \in conns <=> stream[i].op = "connect")

ConnsOK == adapter = "opcua" => \A c \in Channels, t \in Things : ConnOK(c, t)

RoutesInv == LogOK /\ RoutesOK /\ SubsOK /\ ConnectOK

AdapterInv == RoutesInv /\ MetaOK /\ RoutedOK /\ ConnsOK

-----------------------------------------------------------------------------
(* Progress of the consumer.                                               *)

LEMMA EventsTyped ==
    ASSUME NEW ev \in Events
    PROVE  /\ ev.op \in Changes \cup {"connect", "disconnect"}
           /\ ev.op \in Changes => ev.id \in Entity
           /\ ev.op \in {"connect", "disconnect"} => ev.chan \in Channels /\ ev.thing \in Things
BY DEF Events, Changes

LEMMA BatchHead ==
    ASSUME LogOK, batch # <<>>
    PROVE  /\ Head(batch) = Done /\ Done \in 1..Len(stream) /\ Done < next
           /\ Event = stream[Done] /\ Event \in Events
           /\ Event.op \in {"create", "update"} => Event.ext \in Exts(Event.id) \cup {None, "bad"}
<1>1. Len(batch) \in Nat /\ Len(batch) > 0 /\ Head(batch) = batch[1]
    BY DEF LogOK
<1>2. Head(batch) = Done /\ Done \in 1..Len(stream) /\ Done < next
    BY <1>1 DEF LogOK, Done
<1>3. QED
    BY <1>2 DEF LogOK, Event

LEMMA BatchRange ==
    ASSUME LogOK
    PROVE  /\ Range(batch) = Done..next - 1 /\ Done \in 1..next
           /\ Range(batch) \cap failed = {}
<1>1. Len(batch) \in Nat /\ next \in Nat /\ Len(batch) < next /\ DOMAIN batch = 1..Len(batch)
    BY DEF LogOK
<1>2. \A i \in Done..next - 1 : i - Done + 1 \in 1..Len(batch) /\ batch[i - Done + 1] = i
    BY <1>1 DEF LogOK, Done
<1>3. \A k \in 1..Len(batch) : batch[k] \in Done..next - 1
    BY <1>1 DEF LogOK, Done
<1>4. Range(batch) = Done..next - 1
    BY <1>1, <1>2, <1>3 DEF Range
<1>5. QED
    BY <1>1, <1>4 DEF LogOK, Done

(* The head of the batch is acknowledged.                                  *)
LEMMA AckStep ==
    ASSUME LogOK, batch # <<>>, Ack, UNCHANGED <<stream, next>>
    PROVE  LogOK' /\ Done' = Done + 1
<1>1. Len(batch) \in Nat /\ Len(batch) > 0 /\ next \in Nat
    BY DEF LogOK
<1>2. batch' \in Seq(Nat) /\ Len(batch') = Len(batch) - 1
      /\ \A k \in 1..Len(batch') : batch'[k] = batch[k + 1]
    BY <1>1 DEF LogOK, Ack
<1>3. Done' = Done + 1
    BY <1>1, <1>2 DEF Done
<1>4. Done \in 1..next - 1
    BY <1>1 DEF LogOK, Done
<1>5. \A k \in 1..Len(batch') : batch'[k] = Done' + k - 1
    BY <1>1, <1>2, <1>3, <1>4 DEF LogOK
<1>6. LogOK'
    BY <1>1, <1>2, <1>3, <1>4, <1>5 DEF LogOK, Ack
<1>7. QED
    BY <1>3, <1>6

(* The rest of the batch is given up.                                      *)
LEMMA BreakStep ==
    ASSUME LogOK, batch' = <<>>, failed' = failed \cup Range(batch), UNCHANGED <<stream, next>>
    PROVE  /\ LogOK' /\ Done' = next
           /\ failed' = failed \cup Done..next - 1
<1>1. Done' = next /\ Done \in 1..next /\ next \in Nat
    BY BatchRange DEF Done, LogOK
<1>2. failed' = failed \cup Done..next - 1
    BY BatchRange
<1>3. LogOK'
  <2>1. batch' \in Seq(Nat) /\ Len(batch') = 0
      OBVIOUS
  <2>2. failed' \subseteq 1..next - 1
    <3>1. \A i \in failed : i \in 1..Done - 1
        BY DEF LogOK
    <3>2. \A i \in 1..Done - 1 : i \in 1..next - 1
        BY <1>1
    <3>3. \A i \in Done..next - 1 : i \in 1..next - 1
        BY <1>1
    <3>4. QED
        BY <1>2, <3>1, <3>2, <3>3
  <2>3. QED
      BY <1>1, <2>1, <2>2 DEF LogOK
<1>4. QED
    BY <1>1, <1>2, <1>3

LEMMA ReadStep ==
    ASSUME LogOK, ReadBatch
    PROVE  LogOK' /\ Done' = Done /\ next <= next'
<1> DEFINE n == IF Len(stream) - next + 1 < BatchSize THEN Len(stream) - next + 1 ELSE BatchSize
<1>1. /\ n \in 1..Len(stream) - next + 1 /\ next \in Nat /\ n \in Nat
      /\ batch = <<>> /\ Len(batch) = 0 /\ Done = next
    BY DEF LogOK, ReadBatch, Done
<1>2. batch' = [i \in 1..n |-> next + i - 1] /\ next' = next + n /\ UNCHANGED <<stream, failed>>
    BY DEF ReadBatch, stream_vars
<1> HIDE DEF n
<1>3. batch' \in Seq(Nat) /\ Len(batch') = n
    BY <1>1, <1>2
<1>4. Done' = next
    BY <1>1, <1>2, <1>3 DEF Done
<1>5. \A k \in 1..Len(batch') : batch'[k] = Done' + k - 1
    BY <1>1, <1>2, <1>3, <1>4
<1>6. LogOK'
    BY <1>1, <1>2, <1>3, <1>4, <1>5 DEF LogOK
<1>7. QED
    BY <1>1, <1>2, <1>4, <1>6

(* The stream grows, and keeps what it has.                                *)
Grows == Len(stream) \in Nat /\ Len(stream') \in Nat /\ Len(stream) <= Len(stream')
         /\ \A i \in 1..Len(stream) : stream'[i] = stream[i]

LEMMA SendStep ==
    ASSUME LogOK, NEW ev \in Events, stream' = Append(stream, ev), UNCHANGED <<next, batch, failed>>,
           ExtOK(ev)
    PROVE  /\ LogOK' /\ Done' = Done /\ Grows
           /\ Len(stream') = Len(stream) + 1 /\ stream'[Len(stream) + 1] = ev
<1>1. stream \in Seq(Events) /\ Len(stream) \in Nat
    BY DEF LogOK
<1>2. /\ stream' \in Seq(Events) /\ Len(stream') = Len(stream) + 1
      /\ stream'[Len(stream) + 1] = ev /\ \A i \in 1..Len(stream) : stream'[i] = stream[i]
    BY <1>1
<1>3. Done' = Done
    BY DEF Done
<1>4. LogOK'
    BY <1>1, <1>2, <1>3 DEF LogOK, ExtOK
<1>5. QED
    BY <1>1, <1>2, <1>3, <1>4 DEF Grows

(* What an event said stays said.                                          *)
LEMMA SaidKept ==
    ASSUME LogOK, Grows, next' \in Nat, next <= next', NEW e, NEW x, Said(e, x)
    PROVE  Said(e, x)'
BY DEF LogOK, Grows, Said, Says

LEMMA NodesSaidKept ==
    ASSUME LogOK, Grows, next' \in Nat, next <= next', NEW s, NodeSaid(s)
    PROVE  NodeSaid(s)'
BY SaidKept DEF NodeSaid, DevSaid, AppSaid

LEMMA RoutesKept ==
    ASSUME LogOK, RoutesOK, Grows, next' \in Nat, next <= next', UNCHANGED <<fwd, rev>>
    PROVE  RoutesOK'
BY SaidKept DEF RoutesOK

LEMMA SubsKept ==
    ASSUME LogOK, SubsOK, Grows, next' \in Nat, next <= next', UNCHANGED <<sub_vars, last>>
    PROVE  SubsOK'
<1>1. /\ \A d : DevSaid(d) => DevSaid(d)'
      /\ \A a : AppSaid(a) => AppSaid(a)'
    BY SaidKept DEF DevSaid, AppSaid
<1>2. last' # None => Said(last.thing, last.dev)' /\ Said(last.channel, last.app)'
    BY SaidKept DEF SubsOK
<1>3. QED
    BY <1>1, <1>2, NodesSaidKept DEF SubsOK, sub_vars

(* Who is routed stays routed while nothing is handled.                    *)
LEMMA RoutedKept ==
    ASSUME LogOK, RoutedOK, Grows, next' \in Nat, next <= next',
           Done' = Done, UNCHANGED <<failed, fwd, rev>>
    PROVE  RoutedOK'
<1>1. Done \in 1..Len(stream) + 1 /\ failed \subseteq 1..Done - 1 /\ Len(stream) \in Nat
    BY BatchRange DEF LogOK
<1>2. \A i \in 1..Done - 1, e \in Entity : stream'[i] = stream[i] /\ (IsOwn(i, e)' <=> IsOwn(i, e))
    BY <1>1 DEF Grows, IsOwn, IsAbout
<1>3. ASSUME NEW e \in Entity, ~Missed(e)' PROVE Routed(e)'
  <2>1. ~Missed(e)
      BY <1>1, <1>2, <1>3 DEF Missed
  <2>2. Routed(e)
      BY <2>1 DEF RoutedOK
  <2>3. \A x : RoutedBy(e, x) => RoutedBy(e, x)'
      BY SaidKept DEF RoutedBy
  <2>4. \A i \in 1..Done - 1 : LastDone(i, e)' <=> LastDone(i, e)
      BY <1>2 DEF LastDone
  <2>5. QED
      BY <1>2, <2>2, <2>3, <2>4 DEF Routed
<1>4. QED
    BY <1>3 DEF RoutedOK

(* An acknowledged event that is not about routes.                         *)
LEMMA RoutedAck ==
    ASSUME LogOK, RoutedOK, batch # <<>>, Done' = Done + 1,
           UNCHANGED <<stream, next, failed, fwd, rev>>,
           \/ Event.op \notin Changes
           \/ Event.op # "remove" /\ Event.ext = None
    PROVE  RoutedOK'
<1>1. Done \in 1..Len(stream) /\ Event = stream[Done] /\ Len(stream) \in Nat
    BY BatchHead DEF LogOK
<1>2. ASSUME NEW e \in Entity, ~Missed(e)' PROVE Routed(e)'
  <2>1. Routed(e) /\ (\A x : RoutedBy(e, x)' <=> RoutedBy(e, x))
      BY <1>2 DEF RoutedOK, Missed, IsOwn, RoutedBy, Said, Says
  <2>2. \A i \in 1..Done : IsOwn(i, e)' <=> IsOwn(i, e)
      BY DEF IsOwn, IsAbout
  <2>3. /\ \A i \in 1..Done : i # Done => i \in 1..Done - 1
        /\ \A i \in 1..Done - 1 : i \in 1..Done
        /\ 1..Done' - 1 = 1..Done
      BY <1>1
  <2>4. CASE IsOwn(Done, e)
    <3>1. stream[Done].op # "remove" /\ stream[Done].ext \notin Exts(e)
        BY <1>1, <2>4 DEF IsOwn, IsAbout, Exts, Changes
    <3>2. \A i \in 1..Done : LastDone(i, e)' => i = Done
        BY <1>1, <2>2, <2>4 DEF LastDone
    <3>3. QED
        BY <1>1, <2>2, <2>4, <3>1, <3>2 DEF Routed
  <2>5. CASE ~IsOwn(Done, e)
    <3>1. \A i \in 1..Done : LastDone(i, e)' => i \in 1..Done - 1 /\ LastDone(i, e)
        BY <1>1, <2>2, <2>3, <2>5 DEF LastDone
    <3>2. QED
        BY <1>1, <2>1, <2>2, <2>3, <2>5, <3>1 DEF Routed
  <2>6. QED
      BY <2>4, <2>5
<1>3. QED
    BY <1>2 DEF RoutedOK

(* The rest of a batch is given up, with a route written perhaps: only the *)
(* forward route of the entity at hand, and reverse routes it named.       *)
LEMMA RoutedBreak ==
    ASSUME LogOK, RoutedOK, Done' = next, failed' = failed \cup Done..next - 1,
           UNCHANGED <<stream, next>>,
           \/ UNCHANGED <<fwd, rev>>
           \/ /\ batch # <<>> /\ Event.op \in Changes /\ Event.id \in Entity
              /\ \A e \in Entity \ {Event.id} : fwd'[e] = fwd[e]
              /\ \A x \in Devices \cup Apps : rev'[x] = rev[x] \/ Said(Event.id, x)
    PROVE  RoutedOK'
<1>1. Done \in 1..next /\ next \in Nat /\ (batch # <<>> => Event = stream[Done] /\ Done < next)
    BY BatchRange, BatchHead DEF LogOK
<1>2. ASSUME NEW e \in Entity, ~Missed(e)' PROVE Routed(e)'
  <2>1. ~Missed(e) /\ \A i \in Done..next - 1 : ~IsOwn(i, e)
      BY <1>2 DEF Missed, IsOwn, IsAbout, Changes
  <2>2. fwd'[e] = fwd[e] /\ Exts(e) \subseteq Devices \cup Apps
      BY <1>1, <2>1 DEF IsOwn, IsAbout, Changes, Exts
  <2>3. Routed(e) /\ (\A x \in Devices \cup Apps : RoutedBy(e, x) => RoutedBy(e, x)')
    <3>1. Routed(e) /\ (\A o, x : Said(o, x)' <=> Said(o, x))
        BY <2>1 DEF RoutedOK, Said, Says
    <3>2. ASSUME NEW x \in Devices \cup Apps, RoutedBy(e, x) PROVE RoutedBy(e, x)'
      <4>1. CASE rev'[x] = rev[x]
          BY <2>2, <3>1, <3>2, <4>1 DEF RoutedBy
      <4>2. CASE rev'[x] # rev[x]
        <5>1. batch # <<>> /\ Event.op \in Changes /\ Event.id \in Entity /\ Said(Event.id, x)
            BY <4>2
        <5>2. Event.id # e
            BY <1>1, <2>1, <5>1 DEF IsOwn, IsAbout, Changes
        <5>3. QED
            BY <2>2, <3>1, <3>2, <5>1, <5>2 DEF RoutedBy
      <4>3. QED
          BY <4>1, <4>2
    <3>3. QED
        BY <3>1, <3>2
  <2>4. \A i \in 1..next - 1 : (IsOwn(i, e)' <=> IsOwn(i, e)) /\ (IsOwn(i, e) => i \in 1..Done - 1)
      BY <1>1, <2>1 DEF IsOwn, IsAbout
  <2>5. \A i \in 1..Done - 1 : i \in 1..next - 1
      BY <1>1
  <2>6. \A i \in 1..next - 1 : LastDone(i, e)' => i \in 1..Done - 1 /\ LastDone(i, e)
      BY <2>4, <2>5 DEF LastDone
  <2>7. QED
      BY <2>2, <2>3, <2>4, <2>5, <2>6 DEF Routed
<1>3. QED
    BY <1>2 DEF RoutedOK

(* The ways in which an event about an entity writes its routes.           *)
Writes ==
    \/ /\ Event.op \in {"create", "update"} /\ Event.ext \notin {None, "bad"}
       /\ Save(Event.id, Event.ext) \/ (fwd' = [fwd EXCEPT ![Event.id] = Event.ext] /\ UNCHANGED rev)
    \/ Event.op = "remove" /\ fwd[Event.id] # None /\ Remove(Event.id)

LEMMA RoutesWritten ==
    ASSUME LogOK, RoutesOK, batch # <<>>, Writes, UNCHANGED <<stream, next>>
    PROVE  /\ RoutesOK' /\ Event.op \in Changes /\ Event.id \in Entity
           /\ \A e \in Entity \ {Event.id} : fwd'[e] = fwd[e]
           /\ \A x \in Devices \cup Apps : rev'[x] = rev[x] \/ Said(Event.id, x)
<1>1. /\ Done \in 1..Len(stream) /\ Done < next /\ Event = stream[Done] /\ Event \in Events
      /\ Event.op \in {"create", "update"} => Event.ext \in Exts(Event.id) \cup {None, "bad"}
    BY BatchHead
<1>2. Event.op \in Changes /\ Event.id \in Entity
    BY <1>1, EventsTyped DEF Writes, Changes
<1>3. \A e, x : Said(e, x)' <=> Said(e, x)
    BY DEF Said, Says
<1>4. CASE Event.op \in {"create", "update"}
  <2>1. /\ Event.ext \in Exts(Event.id) /\ Event.ext \in Devices \cup Apps
        /\ Save(Event.id, Event.ext) \/ (fwd' = [fwd EXCEPT ![Event.id] = Event.ext] /\ UNCHANGED rev)
      BY <1>1, <1>2, <1>4 DEF Writes, Exts
  <2>2. Said(Event.id, Event.ext)
      BY <1>1, <1>4 DEF Said, Says, LogOK
  <2>3. /\ fwd' \in [Entity -> Devices \cup Apps \cup {None}]
        /\ rev' \in [Devices \cup Apps -> Entity \cup {None}]
      BY <1>2, <2>1 DEF Save, RoutesOK
  <2>4. \A e \in Entity : fwd'[e] = IF e = Event.id THEN Event.ext ELSE fwd[e]
      BY <1>2, <2>1 DEF Save, RoutesOK
  <2>5. \A x \in Devices \cup Apps : \/ rev'[x] = rev[x]
                                     \/ x = Event.ext /\ rev'[x] = Event.id
      BY <1>2, <2>1 DEF Save, RoutesOK
  <2>6. \A e \in Entity : fwd'[e] \in Exts(e) \cup {None}
      BY <2>1, <2>4 DEF RoutesOK
  <2>7. ASSUME NEW e \in Entity, fwd'[e] # None PROVE \A x : x = fwd'[e] => Said(e, x)'
      BY <1>3, <2>2, <2>4, <2>7 DEF RoutesOK
  <2>8. ASSUME NEW x \in Devices \cup Apps, rev'[x] # None PROVE \A e : e = rev'[x] => Said(e, x)'
      BY <1>3, <2>2, <2>5, <2>8 DEF RoutesOK
  <2>9. RoutesOK'
      BY <2>3, <2>6, <2>7, <2>8 DEF RoutesOK
  <2>10. QED
      BY <1>2, <2>2, <2>4, <2>5, <2>9
<1>5. CASE Event.op = "remove"
  <2>1. fwd[Event.id] # None /\ Remove(Event.id)
      BY <1>5 DEF Writes
  <2>2. /\ fwd' \in [Entity -> Devices \cup Apps \cup {None}]
        /\ rev' \in [Devices \cup Apps -> Entity \cup {None}]
      BY <1>2, <2>1 DEF Remove, RoutesOK
  <2>3. /\ \A e \in Entity : fwd'[e] = IF e = Event.id THEN None ELSE fwd[e]
        /\ \A x \in Devices \cup Apps : rev'[x] = IF x = fwd[Event.id] THEN None ELSE rev[x]
      BY <1>2, <2>1 DEF Remove, RoutesOK
  <2>4. RoutesOK'
      BY <1>3, <2>2, <2>3 DEF RoutesOK
  <2>5. Said(Event.id, fwd[Event.id])
      BY <1>2, <2>1 DEF RoutesOK
  <2>6. QED
      BY <1>2, <2>3, <2>4, <2>5
<1>6. QED
    BY <1>2, <1>4, <1>5 DEF Changes

LEMMA RoutedSave ==
    ASSUME LogOK, RoutesOK, RoutedOK, batch # <<>>, Done' = Done + 1,
           UNCHANGED <<stream, next, failed>>,
           Event.op \in {"create", "update"}, Event.ext \notin {None, "bad"},
           Save(Event.id, Event.ext)
    PROVE  RoutedOK'
<1>0. Event \in Events /\ Event.op \in Changes
    BY BatchHead DEF Changes
<1>1. /\ Done \in 1..Len(stream) /\ Done < next /\ Event = stream[Done] /\ Len(stream) \in Nat
      /\ Event.id \in Entity /\ Event.ext \in Exts(Event.id)
    BY <1>0, BatchHead, EventsTyped DEF LogOK
<1>2. Said(Event.id, Event.ext)
    BY <1>1 DEF Said, Says, LogOK
<1>3. /\ fwd'[Event.id] = Event.ext /\ \A e \in Entity \ {Event.id} : fwd'[e] = fwd[e]
      /\ rev'[Event.ext] = Event.id
      /\ \A x \in Devices \cup Apps : x # Event.ext => rev'[x] = rev[x]
    BY <1>1 DEF Save, RoutesOK, Exts
<1>4. ASSUME NEW e \in Entity, ~Missed(e)' PROVE Routed(e)'
  <2>1. Routed(e) /\ (\A o, x : Said(o, x)' <=> Said(o, x))
      BY <1>4 DEF RoutedOK, Missed, IsOwn, Said, Says
  <2>2. \A i \in 1..Done : IsOwn(i, e)' <=> IsOwn(i, e)
      BY DEF IsOwn, IsAbout
  <2>3. /\ \A i \in 1..Done : i # Done => i \in 1..Done - 1
        /\ \A i \in 1..Done - 1 : i \in 1..Done
        /\ 1..Done' - 1 = 1..Done
      BY <1>1
  <2>4. CASE e = Event.id
    <3>1. IsOwn(Done, e)
        BY <1>1, <2>4 DEF IsOwn, IsAbout, Changes
    <3>2. \A i \in 1..Done : LastDone(i, e)' => i = Done
        BY <1>1, <2>2, <3>1 DEF LastDone
    <3>3. \A x : x = stream[Done].ext => RoutedBy(e, x)'
        BY <1>1, <1>3, <2>4 DEF RoutedBy
    <3>4. \A i \in 1..Done : i = Done => RoutedBy(e, stream[i].ext)'
        BY <3>3
    <3>5. QED
        BY <1>1, <2>2, <2>3, <3>1, <3>2, <3>4 DEF Routed
  <2>5. CASE e # Event.id
    <3>1. ~IsOwn(Done, e)
        BY <1>1, <2>5 DEF IsOwn, IsAbout
    <3>2. \A i \in 1..Done : LastDone(i, e)' => i \in 1..Done - 1 /\ LastDone(i, e)
        BY <1>1, <2>2, <2>3, <3>1 DEF LastDone
    <3>3. ASSUME NEW x \in Devices \cup Apps, RoutedBy(e, x) PROVE RoutedBy(e, x)'
      <4>1. fwd'[e] = fwd[e] /\ (x # Event.ext => rev'[x] = rev[x])
          BY <1>3, <2>5
      <4>2. CASE x = Event.ext
          BY <1>1, <1>2, <2>1, <2>5, <3>3, <4>1, <4>2 DEF RoutedBy
      <4>3. CASE x # Event.ext
          BY <2>1, <3>3, <4>1, <4>3 DEF RoutedBy
      <4>4. QED
          BY <4>2, <4>3
    <3>4. fwd'[e] = fwd[e] /\ Exts(e) \subseteq Devices \cup Apps
        BY <1>3, <2>5 DEF Exts
    <3>5. QED
        BY <1>1, <2>1, <2>2, <2>3, <3>1, <3>2, <3>3, <3>4 DEF Routed
  <2>6. QED
      BY <2>4, <2>5
<1>5. QED
    BY <1>4 DEF RoutedOK

LEMMA RoutedRemove ==
    ASSUME LogOK, RoutesOK, RoutedOK, batch # <<>>, Done' = Done + 1,
           UNCHANGED <<stream, next, failed>>,
           Event.op = "remove", fwd[Event.id] # None, Remove(Event.id)
    PROVE  RoutedOK'
<1>0. Event \in Events /\ Event.op \in Changes
    BY BatchHead DEF Changes
<1>1. /\ Done \in 1..Len(stream) /\ Done < next /\ Event = stream[Done] /\ Len(stream) \in Nat
      /\ Event.id \in Entity
    BY <1>0, BatchHead, EventsTyped DEF LogOK
<1> DEFINE y == fwd[Event.id]
<1>2. Said(Event.id, y) /\ y \in Devices \cup Apps
    BY <1>1 DEF RoutesOK
<1>3. /\ fwd'[Event.id] = None /\ \A e \in Entity \ {Event.id} : fwd'[e] = fwd[e]
      /\ \A x \in Devices \cup Apps : x # y => rev'[x] = rev[x]
    BY <1>1 DEF Remove, RoutesOK
<1> HIDE DEF y
<1>4. ASSUME NEW e \in Entity, ~Missed(e)' PROVE Routed(e)'
  <2>1. Routed(e) /\ (\A o, x : Said(o, x)' <=> Said(o, x))
      BY <1>4 DEF RoutedOK, Missed, IsOwn, Said, Says
  <2>2. \A i \in 1..Done : IsOwn(i, e)' <=> IsOwn(i, e)
      BY DEF IsOwn, IsAbout
  <2>3. /\ \A i \in 1..Done : i # Done => i \in 1..Done - 1
        /\ \A i \in 1..Done - 1 : i \in 1..Done
        /\ 1..Done' - 1 = 1..Done
      BY <1>1
  <2>4. CASE e = Event.id
    <3>1. IsOwn(Done, e)
        BY <1>1, <2>4 DEF IsOwn, IsAbout, Changes
    <3>2. \A i \in 1..Done : LastDone(i, e)' => i = Done
        BY <1>1, <2>2, <3>1 DEF LastDone
    <3>3. QED
        BY <1>1, <1>3, <2>2, <2>4, <3>1, <3>2 DEF Routed
  <2>5. CASE e # Event.id
    <3>1. ~IsOwn(Done, e)
        BY <1>1, <2>5 DEF IsOwn, IsAbout
    <3>2. \A i \in 1..Done : LastDone(i, e)' => i \in 1..Done - 1 /\ LastDone(i, e)
        BY <1>1, <2>2, <2>3, <3>1 DEF LastDone
    <3>3. ASSUME NEW x \in Devices \cup Apps, RoutedBy(e, x) PROVE RoutedBy(e, x)'
      <4>1. fwd'[e] = fwd[e] /\ (x # y => rev'[x] = rev[x])
          BY <1>3, <2>5
      <4>2. CASE x = y
          BY <1>1, <1>2, <2>1, <2>5, <3>3, <4>1, <4>2 DEF RoutedBy
      <4>3. CASE x # y
          BY <2>1, <3>3, <4>1, <4>3 DEF RoutedBy
      <4>4. QED
          BY <4>2, <4>3
    <3>4. fwd'[e] = fwd[e] /\ Exts(e) \subseteq Devices \cup Apps
        BY <1>3, <2>5 DEF Exts
    <3>5. QED
        BY <1>1, <2>1, <2>2, <2>3, <3>1, <3>2, <3>3, <3>4 DEF Routed
  <2>6. QED
      BY <2>4, <2>5
<1>5. QED
    BY <1>4 DEF RoutedOK

-----------------------------------------------------------------------------
(* Connections.                                                            *)

LEMMA ConnsKept ==
    ASSUME LogOK, ConnsOK, Grows, Done' = Done, next' \in Nat, next <= next',
           UNCHANGED <<adapter, conns, failed>>,
           \A c \in Channels, t \in Things : Busy(c, t) => Busy(c, t)'
    PROVE  ConnsOK'
<1>1. Done \in 1..next /\ next \in 1..Len(stream) + 1 /\ Len(stream) \in Nat
    BY BatchRange DEF LogOK
<1>2. ASSUME adapter = "opcua", NEW c \in Channels, NEW t \in Things PROVE ConnOK(c, t)'
  <2>1. ConnOK(c, t)
      BY <1>2 DEF ConnsOK
  <2>2. \A i \in 1..Len(stream) : stream'[i] = stream[i] /\ (IsPair(i, c, t)' <=> IsPair(i, c, t))
      BY DEF Grows, IsPair
  <2>3. \A i \in 1..Done - 1 : i \in 1..Len(stream)
      BY <1>1
  <2>4. \A i \in 1..Done - 1 : LastPair(i, c, t)' <=> LastPair(i, c, t)
      BY <2>2, <2>3 DEF LastPair
  <2>5. WasConnected(c, t) => WasConnected(c, t)'
      BY <1>1, <2>2 DEF WasConnected, Grows
  <2>6. QED
      BY <2>1, <2>2, <2>3, <2>4, <2>5 DEF ConnOK
<1>3. QED
    BY <1>2 DEF ConnsOK

(* The head of the batch is handled.                                       *)
LEMMA ConnsAck ==
    ASSUME LogOK, ConnsOK, batch # <<>>, Done' = Done + 1, pc' = "handle",
           UNCHANGED <<adapter, stream, next, failed>>,
           \/ adapter = "lora"
           \/ Event.op \notin {"connect", "disconnect"} /\ UNCHANGED conns
           \/ Event.op = "connect" /\ <<Event.chan, Event.thing>> \in conns /\ UNCHANGED conns
           \/ Event.op = "disconnect" /\ conns' = conns \ {<<Event.chan, Event.thing>>}
    PROVE  ConnsOK'
<1>1. Event = stream[Done] /\ Done \in 1..next - 1 /\ next \in Nat
  <2>1. Done \in Nat /\ Done > 0 /\ Done < next /\ next \in Nat /\ Event = stream[Done]
      BY BatchHead DEF LogOK
  <2>2. QED
      BY <2>1
<1>2. ASSUME adapter = "opcua", NEW c \in Channels, NEW t \in Things PROVE ConnOK(c, t)'
  <2>1. ConnOK(c, t)
      BY <1>2 DEF ConnsOK
  <2>2. \A i : IsPair(i, c, t)' <=> IsPair(i, c, t)
      BY DEF IsPair
  <2>3. /\ \A i \in 1..Done : i # Done => i \in 1..Done - 1
        /\ \A i \in 1..Done - 1 : i \in 1..Done
        /\ 1..Done' - 1 = 1..Done
      BY <1>1
  <2>4. <<c, t>> \in conns' => WasConnected(c, t)'
    <3>1. WasConnected(c, t)' <=> WasConnected(c, t)
        BY <2>2 DEF WasConnected
    <3>2. <<c, t>> \in conns' => <<c, t>> \in conns
        BY <1>2
    <3>3. QED
        BY <2>1, <3>1, <3>2 DEF ConnOK
  <2>5. CASE IsPair(Done, c, t)
    <3>1. <<c, t>> \in conns' <=> stream[Done].op = "connect"
        BY <1>1, <1>2, <2>5 DEF IsPair
    <3>2. \A i \in 1..Done : LastPair(i, c, t)' => i = Done
        BY <1>1, <2>2, <2>3, <2>5 DEF LastPair
    <3>3. QED
        BY <2>1, <2>2, <2>3, <2>4, <3>1, <3>2 DEF ConnOK
  <2>6. CASE ~IsPair(Done, c, t)
    <3>1. <<c, t>> \in conns' <=> <<c, t>> \in conns
        BY <1>1, <1>2, <2>6 DEF IsPair
    <3>2. \A i \in 1..Done : LastPair(i, c, t)' => i \in 1..Done - 1 /\ LastPair(i, c, t)
        BY <2>2, <2>3, <2>6 DEF LastPair
    <3>3. ~Busy(c, t)
        BY <2>6 DEF Busy
    <3>4. QED
        BY <2>1, <2>2, <2>3, <2>4, <3>1, <3>2, <3>3 DEF ConnOK
  <2>7. QED
      BY <2>5, <2>6
<1>3. QED
    BY <1>2 DEF ConnsOK

(* The rest of the batch is given up, after the event at the head has      *)
(* perhaps changed its own pair.                                           *)
LEMMA ConnsBreak ==
    ASSUME LogOK, ConnsOK, Done' = next, failed' = failed \cup Done..next - 1, pc' = "handle",
           UNCHANGED <<adapter, stream, next>>,
           \/ UNCHANGED conns
           \/ /\ batch # <<>> /\ Event.op = "connect"
              /\ conns' = conns \cup {<<Event.chan, Event.thing>>}
           \/ /\ batch # <<>> /\ Event.op = "disconnect"
              /\ conns' = conns \ {<<Event.chan, Event.thing>>}
    PROVE  ConnsOK'
<1>1. /\ Done \in 1..next /\ next \in Nat
      /\ batch # <<>> => Event = stream[Done] /\ Done \in Done..next - 1
    BY BatchRange, BatchHead DEF LogOK
<1>2. ASSUME adapter = "opcua", NEW c \in Channels, NEW t \in Things PROVE ConnOK(c, t)'
  <2>1. ConnOK(c, t)
      BY <1>2 DEF ConnsOK
  <2>2. \A i : IsPair(i, c, t)' <=> IsPair(i, c, t)
      BY DEF IsPair
  <2>3. /\ \A i \in 1..Done - 1 : i \in 1..next - 1
        /\ \A i \in Done..next - 1 : i \in 1..next - 1
        /\ \A i \in 1..next - 1 : i \in 1..Done - 1 \/ i \in Done..next - 1
        /\ \A i \in 1..Done - 1, j \in Done..next - 1 : ~(j <= i)
      BY <1>1
  <2>4. <<c, t>> \in conns' => WasConnected(c, t)'
    <3>1. WasConnected(c, t)' <=> WasConnected(c, t)
        BY <2>2 DEF WasConnected
    <3>2. CASE <<c, t>> \in conns
        BY <2>1, <3>1, <3>2 DEF ConnOK
    <3>3. CASE <<c, t>> \notin conns /\ <<c, t>> \in conns'
      <4>1. batch # <<>> /\ Event.op = "connect" /\ Event.chan = c /\ Event.thing = t
          BY <3>3
      <4>2. Done \in 1..Len(stream) /\ Done < next /\ Event = stream[Done]
          BY <4>1, BatchHead
      <4>3. WasConnected(c, t)
          BY <4>1, <4>2 DEF IsPair, WasConnected
      <4>4. QED
          BY <3>1, <4>3
    <3>4. QED
        BY <3>2, <3>3
  <2>5. CASE \E j \in Done..next - 1 : IsPair(j, c, t)
    <3>1. \A i \in 1..next - 1 : LastPair(i, c, t)' => i \in failed'
        BY <2>2, <2>3, <2>5 DEF LastPair
    <3>2. QED
        BY <2>2, <2>4, <3>1 DEF ConnOK
  <2>6. CASE \A j \in Done..next - 1 : ~IsPair(j, c, t)
    <3>1. <<c, t>> \in conns' <=> <<c, t>> \in conns
      <4>1. batch # <<>> => ~(Event.op \in {"connect", "disconnect"} /\ Event.chan = c /\ Event.thing = t)
          BY <1>1, <2>6 DEF IsPair
      <4>2. QED
          BY <4>1
    <3>2. \A i \in 1..next - 1 : LastPair(i, c, t)' => i \in 1..Done - 1 /\ LastPair(i, c, t)
        BY <2>2, <2>3, <2>6 DEF LastPair
    <3>3. ~Busy(c, t)
        BY <1>1, <2>6 DEF Busy
    <3>4. QED
        BY <2>1, <2>2, <2>4, <3>1, <3>2, <3>3 DEF ConnOK
  <2>7. QED
      BY <2>5, <2>6
<1>3. QED
    BY <1>2 DEF ConnsOK

(* The pair of the event at the head is saved.                             *)
LEMMA ConnsSaved ==
    ASSUME LogOK, ConnsOK, batch # <<>>, Event.op = "connect", pc = "connect", pc' = "saved",
           conns' = conns \cup {<<Event.chan, Event.thing>>},
           UNCHANGED <<adapter, stream, next, batch, failed>>
    PROVE  ConnsOK'
<1>1. Event = stream[Done] /\ Done \in 1..Len(stream) /\ Done < next /\ Done' = Done
  <2>1. Done' = Done
      BY DEF Done
  <2>2. QED
      BY <2>1, BatchHead DEF LogOK
<1>2. ASSUME adapter = "opcua", NEW c \in Channels, NEW t \in Things PROVE ConnOK(c, t)'
  <2>1. ConnOK(c, t) /\ ~Busy(c, t)
      BY <1>2 DEF ConnsOK, Busy
  <2>2. \A i : (IsPair(i, c, t)' <=> IsPair(i, c, t)) /\ (LastPair(i, c, t)' <=> LastPair(i, c, t))
      BY <1>1 DEF IsPair, LastPair
  <2>0. WasConnected(c, t)' <=> WasConnected(c, t)
      BY <2>2 DEF WasConnected
  <2>3. CASE c = Event.chan /\ t = Event.thing
    <3>1. IsPair(Done, c, t) /\ stream[Done].op = "connect"
        BY <1>1, <2>3 DEF IsPair
    <3>2. Busy(c, t)'
        BY <1>1, <2>2, <3>1 DEF Busy
    <3>3. QED
        BY <1>1, <2>0, <3>1, <3>2 DEF ConnOK, WasConnected
  <2>4. CASE ~(c = Event.chan /\ t = Event.thing)
    <3>1. <<c, t>> \in conns' <=> <<c, t>> \in conns
        BY <2>4
    <3>2. QED
        BY <1>1, <2>0, <2>1, <2>2, <3>1 DEF ConnOK
  <2>5. QED
      BY <2>3, <2>4
<1>3. QED
    BY <1>2 DEF ConnsOK

-----------------------------------------------------------------------------
(* The steps.                                                              *)

LEMMA InitInv == Init => AdapterInv
<1> SUFFICES ASSUME Init PROVE AdapterInv
    OBVIOUS
<1> USE DEF Init, ThingsInit, AdapterInit
<1>1. LogOK /\ Done = 1
    BY DEF LogOK, Done
<1>2. RoutesOK
    BY DEF RoutesOK
<1>3. SubsOK /\ ConnectOK
    BY DEF SubsOK, ConnectOK, NoConfig
<1>4. MetaOK
    BY DEF MetaOK, Agrees, OwnSend
<1>5. RoutedOK /\ ConnsOK
    BY <1>1 DEF RoutedOK, Routed, ConnsOK, ConnOK
<1>6. QED
    BY <1>1, <1>2, <1>3, <1>4, <1>5 DEF AdapterInv, RoutesInv

(* Steps of the consumer and of the goroutines leave the stream alone.     *)
LEMMA SameStream ==
    ASSUME LogOK, UNCHANGED stream
    PROVE  Grows
BY DEF LogOK, Grows

LEMMA MetaKept ==
    ASSUME MetaOK, UNCHANGED <<things_vars, stream>>
    PROVE  MetaOK'
<1>1. \A e \in Entity : Agrees(e)' <=> Agrees(e)
    BY DEF Agrees, OwnSend, Matches, IsPending, IsOwn, Latest, things_vars
<1>2. QED
    BY <1>1 DEF MetaOK, things_vars

(* Subscriptions and messages come and go, routes and events stay.         *)
LEMMA StillInv ==
    ASSUME LogOK, RoutesOK, RoutedOK, ConnsOK,
           UNCHANGED <<adapter, stream, next, batch, fwd, rev, conns, failed>>,
           UNCHANGED pc \/ (pc = "handle" /\ pc' = "connect") \/ (pc = "saved" /\ pc' = "store")
    PROVE  LogOK' /\ RoutesOK' /\ RoutedOK' /\ ConnsOK'
<1>1. LogOK' /\ Done' = Done
    BY DEF LogOK, Done
<1>2. Grows /\ next' \in Nat /\ next <= next'
    BY SameStream DEF LogOK
<1>3. \A c \in Channels, t \in Things : Busy(c, t) => Busy(c, t)'
    BY <1>1 DEF Busy, IsPair
<1>4. QED
    BY <1>1, <1>2, <1>3, RoutesKept, RoutedKept, ConnsKept

(* The things service executes a statement.                                *)
LEMMA ExecuteEvent ==
    ASSUME NEW r \in Requests, Execute(r)
    PROVE  \E ev \in Events :
              /\ Emit(r, ev) /\ ExtOK(ev)
              /\ \/ ev.op \in {"create", "update"} /\ meta' = [meta EXCEPT ![ev.id] = ev.ext]
                 \/ ev.op = "remove" /\ meta' \in {meta, [meta EXCEPT ![ev.id] = "removed"]}
                 \/ ev.op \in {"connect", "disconnect"} /\ UNCHANGED meta
<1>1. ASSUME NEW e \in Entity PROVE [op |-> "remove", id |-> e] \in Events
    BY DEF Events
<1>2. ASSUME NEW e \in Entity, NEW x \in Exts(e) \cup {None, "bad"}, NEW op \in {"create", "update"}
      PROVE  [op |-> op, id |-> e, ext |-> x] \in Events
    BY DEF Events, Exts
<1>3. ASSUME NEW c \in Channels, NEW t \in Things, NEW op \in {"connect", "disconnect"}
      PROVE  [op |-> op, chan |-> c, thing |-> t] \in Events
    BY DEF Events
<1>4. ASSUME NEW e \in Entity, NEW x \in Exts(e) \cup {None, "bad"}, Create(r, e, x) \/ Update(r, e, x)
      PROVE  \E op \in {"create", "update"} :
                Emit(r, [op |-> op, id |-> e, ext |-> x]) /\ meta' = [meta EXCEPT ![e] = x]
    BY <1>4 DEF Create, Update
<1>5. ASSUME NEW e \in Entity, Delete(r, e)
      PROVE  Emit(r, [op |-> "remove", id |-> e]) /\ meta' \in {meta, [meta EXCEPT ![e] = "removed"]}
    BY <1>5 DEF Delete
<1>6. ASSUME NEW c \in Channels, NEW t \in Things, NEW op \in {"connect", "disconnect"},
             Connection(r, op, c, t)
      PROVE  Emit(r, [op |-> op, chan |-> c, thing |-> t]) /\ UNCHANGED meta
    BY <1>6 DEF Connection
<1>7. CASE \E e \in Entity : Delete(r, e)
    BY <1>1, <1>5, <1>7 DEF ExtOK
<1>8. CASE \E e \in Entity : \E x \in Exts(e) \cup {None, "bad"} : Create(r, e, x) \/ Update(r, e, x)
  <2>0. PICK e \in Entity : \E x \in Exts(e) \cup {None, "bad"} : Create(r, e, x) \/ Update(r, e, x)
      BY <1>8
  <2>1. PICK x \in Exts(e) \cup {None, "bad"} : Create(r, e, x) \/ Update(r, e, x)
      BY <2>0
  <2>2. PICK op \in {"create", "update"} :
           Emit(r, [op |-> op, id |-> e, ext |-> x]) /\ meta' = [meta EXCEPT ![e] = x]
      BY <1>4, <2>1
  <2>3. QED
      BY <1>2, <2>2 DEF ExtOK
<1>9. CASE \E c \in Channels, t \in Things, op \in {"connect", "disconnect"} : Connection(r, op, c, t)
    BY <1>3, <1>6, <1>9 DEF ExtOK
<1>10. QED
    BY <1>7, <1>8, <1>9 DEF Execute

LEMMA ExecuteMeta ==
    ASSUME MetaOK, NEW r \in Requests, Execute(r)
    PROVE  MetaOK'
<1>1. PICK ev \in Events :
              /\ Emit(r, ev) /\ ExtOK(ev)
              /\ \/ ev.op \in {"create", "update"} /\ meta' = [meta EXCEPT ![ev.id] = ev.ext]
                 \/ ev.op = "remove" /\ meta' \in {meta, [meta EXCEPT ![ev.id] = "removed"]}
                 \/ ev.op \in {"connect", "disconnect"} /\ UNCHANGED meta
    BY ExecuteEvent
<1>2. /\ sending[r] = None /\ sending' = [sending EXCEPT ![r] = ev] /\ UNCHANGED stream
      /\ astray' = astray \cup {e \in Entity : IsPending(e) /\ IsAbout(ev, e)}
    BY <1>1 DEF Emit, Execute
<1>3. /\ ev.op \in {"create", "update", "remove"} => ev.id \in Entity
      /\ ev.op \in {"create", "update"} => ev.ext \in Devices \cup Apps \cup {None, "bad"}
    BY <1>1, EventsTyped DEF Changes, ExtOK, Exts
<1>4. /\ meta' \in [Entity -> Devices \cup Apps \cup {None, "bad", "absent", "removed"}]
      /\ sending' \in [Requests -> Events \cup {None}]
      /\ sending'[r] = ev /\ \A q \in Requests \ {r} : sending'[q] = sending[q]
    BY <1>1, <1>2, <1>3 DEF MetaOK
<1>5. \A q \in Requests : sending'[q] # None => ExtOK(sending'[q])
    BY <1>1, <1>4 DEF MetaOK
<1>6. ASSUME NEW e \in Entity, e \notin astray' PROVE Agrees(e)'
  <2>1. Agrees(e) /\ ~(IsPending(e) /\ IsAbout(ev, e))
      BY <1>2, <1>6 DEF MetaOK
  <2>2. /\ \A q \in Requests \ {r} : OwnSend(q, e)' <=> OwnSend(q, e)
        /\ OwnSend(r, e)' => IsAbout(ev, e)
        /\ ~OwnSend(r, e)
      BY <1>2, <1>4 DEF OwnSend
  <2>3. CASE IsAbout(ev, e)
    <3>1. \A q \in Requests : OwnSend(q, e)' => q = r
        BY <2>1, <2>2, <2>3 DEF IsPending, OwnSend
    <3>2. Matches(ev, e)'
        BY <1>1, <1>3, <1>4, <2>3 DEF Matches, IsAbout, MetaOK
    <3>3. ev # None => IsPending(e)'
        BY <1>4, <2>3 DEF IsPending
    <3>4. ev # None
        OBVIOUS
    <3>5. QED
        BY <1>4, <3>1, <3>2, <3>3, <3>4 DEF Agrees
  <2>4. CASE ~IsAbout(ev, e)
    <3>1. meta'[e] = meta[e]
        BY <1>1, <1>3, <2>4 DEF IsAbout, MetaOK
    <3>2. \A q \in Requests : /\ OwnSend(q, e)' <=> OwnSend(q, e)
                              /\ OwnSend(q, e) => sending'[q] = sending[q]
        BY <1>4, <2>2, <2>4
    <3>3. IsPending(e)' <=> IsPending(e)
        BY <3>2 DEF IsPending, OwnSend
    <3>4. \A i : (IsOwn(i, e)' <=> IsOwn(i, e)) /\ (Latest(i, e)' <=> Latest(i, e))
        BY <1>2 DEF IsOwn, Latest
    <3>5. QED
        BY <1>2, <2>1, <3>1, <3>2, <3>3, <3>4 DEF Agrees, Matches
  <2>5. QED
      BY <2>3, <2>4
<1>7. QED
    BY <1>4, <1>5, <1>6 DEF MetaOK

(* The event of a request leaves it: it is sent, or lost.                  *)
LEMMA LeavesMeta ==
    ASSUME LogOK, MetaOK, NEW r \in Requests, Send(r) \/ Lose(r)
    PROVE  MetaOK'
<1>1. /\ sending[r] \in Events /\ sending' = [sending EXCEPT ![r] = None] /\ UNCHANGED meta
      /\ astray \subseteq astray'
    BY DEF MetaOK, Send, Lose
<1>2. /\ sending' \in [Requests -> Events \cup {None}]
      /\ sending'[r] = None /\ \A q \in Requests \ {r} : sending'[q] = sending[q]
      /\ \A q \in Requests : sending'[q] # None => ExtOK(sending'[q])
    BY <1>1 DEF MetaOK
<1>3. ASSUME NEW e \in Entity, e \notin astray' PROVE Agrees(e)'
  <2>1. Agrees(e)
      BY <1>1, <1>3 DEF MetaOK
  <2>2. \A q \in Requests : OwnSend(q, e)' <=> q # r /\ OwnSend(q, e)
      BY <1>2 DEF OwnSend
  <2>3. /\ \A p, q \in Requests : OwnSend(p, e)' /\ OwnSend(q, e)' => p = q
        /\ \A q \in Requests : OwnSend(q, e)' => Matches(sending[q], e)'
      BY <1>1, <1>2, <2>1, <2>2 DEF Agrees, Matches
  <2>4. CASE Send(r)
    <3>0. PICK n : n = Len(stream) + 1
        OBVIOUS
    <3>1. Len(stream) \in Nat /\ stream' = Append(stream, sending[r]) /\ stream \in Seq(Events)
          /\ sending[r] # None
        BY <2>4 DEF Send, LogOK
    <3>2. /\ Len(stream') = n /\ 1..n = 1..Len(stream) \cup {n} /\ n \in Nat /\ n > Len(stream)
          /\ stream'[n] = sending[r] /\ \A i \in 1..Len(stream) : stream'[i] = stream[i]
        BY <1>1, <3>0, <3>1
    <3>3. /\ \A i \in 1..Len(stream) : IsOwn(i, e)' <=> IsOwn(i, e)
          /\ IsOwn(n, e)' <=> OwnSend(r, e)
        BY <3>1, <3>2 DEF IsOwn, OwnSend
    <3>4. CASE OwnSend(r, e)
      <4>1. Latest(n, e)' /\ n \in 1..Len(stream')
          BY <3>2, <3>3, <3>4 DEF Latest
      <4>2. Matches(stream[n], e)'
          BY <1>1, <2>1, <3>2, <3>4 DEF Agrees, Matches
      <4>3. QED
          BY <2>3, <3>2, <4>1, <4>2 DEF Agrees
    <3>5. CASE ~OwnSend(r, e)
      <4>1. IsPending(e)' <=> IsPending(e)
          BY <1>2, <2>2, <3>5 DEF IsPending, OwnSend
      <4>2. \A i \in 1..Len(stream) : Latest(i, e) => Latest(i, e)'
          BY <3>2, <3>3, <3>5 DEF Latest
      <4>3. \A i \in 1..Len(stream) : i \in 1..Len(stream') /\ (Matches(stream[i], e) => Matches(stream[i], e)')
          BY <1>1, <3>2 DEF Matches
      <4>4. (\A i \in 1..Len(stream) : ~IsOwn(i, e)) => \A i \in 1..Len(stream') : ~IsOwn(i, e)'
          BY <3>2, <3>3, <3>5
      <4>5. ~IsPending(e)' =>
              \/ meta'[e] = "absent" /\ \A i \in 1..Len(stream') : ~IsOwn(i, e)'
              \/ \E i \in 1..Len(stream') : Latest(i, e)' /\ Matches(stream[i], e)'
          BY <1>1, <2>1, <4>1, <4>2, <4>3, <4>4 DEF Agrees
      <4>6. QED
          BY <2>3, <4>5 DEF Agrees
    <3>6. QED
        BY <3>4, <3>5
  <2>5. CASE Lose(r)
    <3>1. ~OwnSend(r, e) /\ UNCHANGED stream
        BY <1>3, <2>5 DEF Lose, OwnSend
    <3>2. IsPending(e)' <=> IsPending(e)
        BY <1>2, <2>2, <3>1 DEF IsPending, OwnSend
    <3>3. \A i : (IsOwn(i, e)' <=> IsOwn(i, e)) /\ (Latest(i, e)' <=> Latest(i, e))
        BY <3>1 DEF IsOwn, Latest
    <3>4. QED
        BY <1>1, <2>1, <2>3, <3>1, <3>2, <3>3 DEF Agrees, Matches
  <2>6. QED
      BY <2>4, <2>5
<1>4. QED
    BY <1>1, <1>2, <1>3 DEF MetaOK

LEMMA ThingsInv ==
    ASSUME AdapterInv, ThingsNext
    PROVE  AdapterInv'
<1>1. PICK r \in Requests : Execute(r) \/ Send(r) \/ Lose(r)
    BY DEF ThingsNext
<1>2. LogOK /\ RoutesOK /\ SubsOK /\ ConnectOK /\ MetaOK /\ RoutedOK /\ ConnsOK
    BY DEF AdapterInv, RoutesInv
<1>3. UNCHANGED <<adapter, next, batch, fwd, rev, conns, cfg, starting, active, nodes, booting,
                  pc, last, failed>>
    BY DEF ThingsNext, route_vars, sub_vars
<1>4. MetaOK'
    BY <1>1, <1>2, ExecuteMeta, LeavesMeta
<1>5. LogOK' /\ RoutesOK' /\ RoutedOK' /\ ConnsOK' /\ Grows /\ Done' = Done
  <2>1. CASE Send(r)
    <3>1. LogOK' /\ Done' = Done /\ Grows
        BY <1>2, <1>3, <2>1, SendStep DEF Send, MetaOK
    <3>2. next' \in Nat /\ next <= next'
        BY <1>2, <1>3 DEF LogOK
    <3>3. \A c \in Channels, t \in Things : Busy(c, t) => Busy(c, t)'
      <4>1. batch # <<>> => stream'[Done] = stream[Done]
          BY <1>2, <3>1, BatchHead DEF Grows
      <4>2. QED
          BY <1>3, <3>1, <4>1 DEF Busy, IsPair
    <3>4. QED
        BY <1>2, <1>3, <3>1, <3>2, <3>3, RoutesKept, RoutedKept, ConnsKept
  <2>2. CASE Execute(r) \/ Lose(r)
    <3>1. UNCHANGED stream
        BY <2>2 DEF Execute, Lose
    <3>2. QED
        BY <1>2, <1>3, <3>1, StillInv, SameStream DEF Done
  <2>3. QED
      BY <1>1, <2>1, <2>2
<1>6. SubsOK'
  <2>1. next' \in Nat /\ next <= next'
      BY <1>2, <1>3 DEF LogOK
  <2>2. QED
      BY <1>2, <1>3, <1>5, <2>1, SubsKept DEF sub_vars
<1>7. ConnectOK'
  <2>1. CASE batch = <<>>
      BY <1>2, <1>3, <2>1 DEF ConnectOK
  <2>2. CASE batch # <<>>
    <3>1. Event' = Event
        BY <1>2, <1>3, <1>5, <2>2, BatchHead DEF Grows, Event
    <3>2. QED
        BY <1>2, <1>3, <3>1 DEF ConnectOK
  <2>3. QED
      BY <2>1, <2>2
<1>8. QED
    BY <1>4, <1>5, <1>6, <1>7 DEF AdapterInv, RoutesInv

LEMMA ReadInv ==
    ASSUME AdapterInv, ReadBatch
    PROVE  AdapterInv'
<1>1. LogOK' /\ Done' = Done /\ next <= next' /\ next' \in Nat
    BY ReadStep DEF AdapterInv, RoutesInv, LogOK
<1>2. /\ UNCHANGED <<adapter, things_vars, stream, fwd, rev, conns, sub_vars, pc, last, failed>>
      /\ batch = <<>>
    BY DEF ReadBatch, stream_vars, route_vars
<1>3. Grows
    BY <1>2, SameStream DEF AdapterInv, RoutesInv
<1>4. RoutesOK' /\ SubsOK'
    BY <1>1, <1>2, <1>3, RoutesKept, SubsKept DEF AdapterInv, RoutesInv
<1>5. ConnectOK'
    BY <1>2 DEF AdapterInv, RoutesInv, ConnectOK
<1>6. \A c \in Channels, t \in Things : ~Busy(c, t)
    BY <1>2 DEF Busy
<1>7. MetaOK' /\ RoutedOK' /\ ConnsOK'
    BY <1>1, <1>2, <1>3, <1>6, MetaKept, RoutedKept, ConnsKept DEF AdapterInv, RoutesInv
<1>8. QED
    BY <1>1, <1>4, <1>5, <1>7 DEF AdapterInv, RoutesInv

(* The event at the head is handled and acknowledged.                      *)
LEMMA AckInv ==
    ASSUME AdapterInv, Handling, Ack,
           UNCHANGED <<adapter, things_vars, stream, next, sub_vars, pc, last>>,
           \/ /\ AckOnly \/ (adapter = "lora" /\ Event.op \in {"connect", "disconnect"})
              /\ UNCHANGED <<fwd, rev, conns>>
           \/ /\ Event.op \in {"create", "update"} /\ Event.ext \notin {None, "bad"}
              /\ Save(Event.id, Event.ext) /\ UNCHANGED conns
           \/ /\ Event.op = "remove" /\ fwd[Event.id] # None
              /\ Remove(Event.id) /\ UNCHANGED conns
           \/ /\ Event.op = "disconnect" /\ UNCHANGED <<fwd, rev>>
              /\ conns' = conns \ {<<Event.chan, Event.thing>>}
    PROVE  AdapterInv'
<1>1. LogOK /\ RoutesOK /\ SubsOK /\ MetaOK /\ RoutedOK /\ ConnsOK /\ batch # <<>> /\ pc = "handle"
    BY DEF AdapterInv, RoutesInv, Handling
<1>2. LogOK' /\ Done' = Done + 1 /\ UNCHANGED failed
    BY <1>1, AckStep DEF Ack
<1>3. Grows /\ next' \in Nat /\ next <= next'
    BY <1>1, <1>2, SameStream DEF LogOK
<1>4. SubsOK' /\ MetaOK' /\ ConnectOK'
    BY <1>1, <1>3, SubsKept, MetaKept DEF ConnectOK
<1>5. /\ Done \in 1..Len(stream) /\ Done < next /\ Event = stream[Done] /\ Event \in Events
      /\ Event.op \in {"create", "update"} => Event.ext \in Exts(Event.id) \cup {None, "bad"}
    BY <1>1, BatchHead
<1>6. RoutesOK'
  <2>1. CASE UNCHANGED <<fwd, rev>>
      BY <1>1, <1>3, <2>1, RoutesKept
  <2>2. CASE Writes
      BY <1>1, <2>2, RoutesWritten
  <2>3. QED
      BY <2>1, <2>2 DEF Writes
<1>7. RoutedOK'
  <2>1. CASE UNCHANGED <<fwd, rev>> /\ (Event.op \notin Changes \/ AckOnly)
    <3>1. Event.op \notin Changes \/ (Event.op # "remove" /\ Event.ext = None)
        BY <2>1 DEF AckOnly
    <3>2. QED
        BY <1>1, <1>2, <2>1, <3>1, RoutedAck
  <2>2. CASE /\ Event.op \in {"create", "update"} /\ Event.ext \notin {None, "bad"}
             /\ Save(Event.id, Event.ext)
      BY <1>1, <1>2, <2>2, RoutedSave
  <2>3. CASE Event.op = "remove" /\ fwd[Event.id] # None /\ Remove(Event.id)
      BY <1>1, <1>2, <2>3, RoutedRemove
  <2>4. QED
      BY <2>1, <2>2, <2>3 DEF Changes
<1>8. ConnsOK'
    BY <1>1, <1>2, ConnsAck DEF AckOnly
<1>9. QED
    BY <1>2, <1>4, <1>6, <1>7, <1>8 DEF AdapterInv, RoutesInv

(* The rest of the batch is given up: an error, or a restart.              *)
LEMMA BreakInv ==
    ASSUME AdapterInv, batch' = <<>>, failed' = failed \cup Range(batch), pc' = "handle",
           UNCHANGED <<adapter, things_vars, stream, next>>,
           UNCHANGED <<fwd, rev>> \/ (batch # <<>> /\ Writes),
           \/ UNCHANGED conns
           \/ /\ batch # <<>> /\ Event.op = "connect"
              /\ conns' = conns \cup {<<Event.chan, Event.thing>>}
           \/ /\ batch # <<>> /\ Event.op = "disconnect"
              /\ conns' = conns \ {<<Event.chan, Event.thing>>}
    PROVE  LogOK' /\ RoutesOK' /\ ConnectOK' /\ MetaOK' /\ RoutedOK' /\ ConnsOK'
<1>1. LogOK /\ RoutesOK /\ MetaOK /\ RoutedOK /\ ConnsOK
    BY DEF AdapterInv, RoutesInv
<1>2. LogOK' /\ Done' = next /\ failed' = failed \cup Done..next - 1
    BY <1>1, BreakStep
<1>3. Grows /\ next' \in Nat /\ next <= next'
    BY <1>1, SameStream DEF LogOK
<1>4. RoutesOK' /\ RoutedOK'
  <2>1. CASE UNCHANGED <<fwd, rev>>
      BY <1>1, <1>2, <1>3, <2>1, RoutesKept, RoutedBreak
  <2>2. CASE batch # <<>> /\ Writes
      BY <1>1, <1>2, <2>2, RoutesWritten, RoutedBreak
  <2>3. QED
      BY <2>1, <2>2
<1>5. MetaOK' /\ ConnectOK'
    BY <1>1, MetaKept DEF ConnectOK
<1>6. ConnsOK'
    BY <1>1, <1>2, ConnsBreak
<1>7. QED
    BY <1>2, <1>4, <1>5, <1>6

(* An error that leaves the subscriptions alone.                           *)
LEMMA FailInv ==
    ASSUME AdapterInv, Handling, Break,
           UNCHANGED <<adapter, things_vars, stream, next, sub_vars, pc, last>>,
           UNCHANGED <<fwd, rev>> \/ Writes,
           \/ UNCHANGED conns
           \/ Event.op = "disconnect" /\ conns' = conns \ {<<Event.chan, Event.thing>>}
    PROVE  AdapterInv'
<1>1. LogOK' /\ RoutesOK' /\ ConnectOK' /\ MetaOK' /\ RoutedOK' /\ ConnsOK'
    BY BreakInv DEF Break, Handling
<1>2. Grows /\ next' \in Nat /\ next <= next'
    BY SameStream DEF AdapterInv, RoutesInv, LogOK
<1>3. SubsOK'
    BY <1>2, SubsKept DEF AdapterInv, RoutesInv
<1>4. QED
    BY <1>1, <1>3 DEF AdapterInv, RoutesInv

(* What was said does not change while the stream and the group stay.      *)
LEMMA SaidStill ==
    ASSUME UNCHANGED <<stream, next>>
    PROVE  /\ \A e, x : Said(e, x)' <=> Said(e, x)
           /\ \A d : DevSaid(d)' <=> DevSaid(d)
           /\ \A a : AppSaid(a)' <=> AppSaid(a)
           /\ \A s : NodeSaid(s)' <=> NodeSaid(s)
BY DEF Said, Says, DevSaid, AppSaid, NodeSaid

LEMMA ConnectRoutes ==
    ASSUME AdapterInv, batch # <<>>, Event.op = "connect",
           fwd[Event.chan] # None, fwd[Event.thing] # None
    PROVE  AppSaid(fwd[Event.chan]) /\ DevSaid(fwd[Event.thing])
<1>1. Event.chan \in Channels /\ Event.thing \in Things
    BY BatchHead, EventsTyped DEF AdapterInv, RoutesInv
<1>2. fwd[Event.chan] \in Apps /\ fwd[Event.thing] \in Devices
    BY <1>1 DEF AdapterInv, RoutesInv, RoutesOK, Exts, Entity
<1>3. Said(Event.chan, fwd[Event.chan]) /\ Said(Event.thing, fwd[Event.thing])
    BY <1>1 DEF AdapterInv, RoutesInv, RoutesOK, Entity
<1>4. QED
    BY <1>1, <1>2, <1>3 DEF AppSaid, DevSaid

(* A new Config of the service, or of the start-up loop, whose fields are  *)
(* the old ones or come from events.                                       *)
LEMMA ConfigSet ==
    ASSUME SubsOK, NEW k \in {"svc", "boot"},
           NEW c \in [app : Apps \cup {None}, dev : Devices \cup {None}],
           cfg' = [cfg EXCEPT ![k] = c],
           c.dev \in {cfg[k].dev} \/ DevSaid(c.dev), c.app \in {cfg[k].app} \/ AppSaid(c.app),
           UNCHANGED <<stream, next>>
    PROVE  /\ cfg' \in [{"svc", "boot"} -> [app : Apps \cup {None}, dev : Devices \cup {None}]]
           /\ \A l \in {"svc", "boot"} : /\ cfg'[l].dev # None => DevSaid(cfg[l].dev)'
                                         /\ cfg'[l].app # None => AppSaid(cfg[l].app)'
           /\ \A g \in starting : /\ g.of \in {"svc", "boot"}
                                  /\ cfg'[g.of].dev # None /\ cfg'[g.of].app # None
<1>1. /\ cfg' \in [{"svc", "boot"} -> [app : Apps \cup {None}, dev : Devices \cup {None}]]
      /\ cfg'[k] = c /\ \A l \in {"svc", "boot"} \ {k} : cfg'[l] = cfg[l]
    BY DEF SubsOK
<1>2. ASSUME NEW l \in {"svc", "boot"}
      PROVE  /\ cfg'[l].dev # None => DevSaid(cfg'[l].dev)
             /\ cfg'[l].app # None => AppSaid(cfg'[l].app)
             /\ cfg[l].dev # None => cfg'[l].dev # None
             /\ cfg[l].app # None => cfg'[l].app # None
    BY <1>1 DEF SubsOK, DevSaid, AppSaid
<1>3. \A l \in {"svc", "boot"} : /\ cfg'[l].dev # None => DevSaid(cfg[l].dev)'
                                 /\ cfg'[l].app # None => AppSaid(cfg[l].app)'
    BY <1>2, SaidStill
<1>4. QED
    BY <1>1, <1>2, <1>3 DEF SubsOK

LEMMA ConnectInv ==
    ASSUME AdapterInv, ConnectThing
    PROVE  AdapterInv'
<1>1. CASE fwd[Event.chan] # None /\ fwd[Event.thing] # None
  <2> DEFINE c == [cfg["svc"] EXCEPT !.dev = fwd[Event.thing]]
  <2>1. /\ cfg' = [cfg EXCEPT !["svc"].dev = fwd[Event.thing]] /\ pc' = "connect"
        /\ Handling /\ adapter = "opcua" /\ Event.op = "connect"
        /\ UNCHANGED <<adapter, things_vars, stream, next, batch, fwd, rev, conns, failed, starting,
                       active, nodes, booting, last>>
      BY <1>1 DEF ConnectThing, stream_vars, route_vars
  <2>2. AppSaid(fwd[Event.chan]) /\ DevSaid(fwd[Event.thing]) /\ batch # <<>>
      BY <1>1, <2>1, ConnectRoutes DEF Handling
  <2>3. cfg["svc"] \in [app : Apps \cup {None}, dev : Devices \cup {None}] /\ SubsOK
      BY DEF AdapterInv, RoutesInv, SubsOK
  <2>4. /\ c \in [app : Apps \cup {None}, dev : Devices \cup {None}]
        /\ c.dev = fwd[Event.thing] /\ c.app = cfg["svc"].app
        /\ cfg' = [cfg EXCEPT !["svc"] = c]
      BY <2>1, <2>2, <2>3 DEF SubsOK, DevSaid
  <2> HIDE DEF c
  <2>5. SubsOK'
      BY <2>1, <2>2, <2>3, <2>4, ConfigSet, SaidStill DEF SubsOK
  <2>6. cfg'["svc"].dev # None
      BY <2>2, <2>3, <2>4 DEF SubsOK, DevSaid
  <2>7. ConnectOK'
      BY <1>1, <2>1, <2>2, <2>6 DEF ConnectOK, Event
  <2>8. LogOK' /\ RoutesOK' /\ MetaOK' /\ RoutedOK' /\ ConnsOK'
      BY <2>1, StillInv, MetaKept DEF AdapterInv, RoutesInv, Handling
  <2>9. QED
      BY <2>5, <2>7, <2>8 DEF AdapterInv, RoutesInv
<1>2. CASE ~(fwd[Event.chan] # None /\ fwd[Event.thing] # None)
    BY <1>2, FailInv DEF ConnectThing, stream_vars, route_vars, sub_vars
<1>3. QED
    BY <1>1, <1>2

(* The connection is saved, or not: the Config has both its fields.        *)
LEMMA ConnectConfig ==
    ASSUME AdapterInv, pc = "connect", UNCHANGED <<stream, next, active, nodes, booting, last, starting>>,
           cfg' = [cfg EXCEPT !["svc"].app = fwd[Event.chan]]
    PROVE  /\ SubsOK' /\ cfg'["svc"].dev # None /\ cfg'["svc"].app # None
<1>1. /\ LogOK /\ SubsOK /\ batch # <<>> /\ Event.op = "connect"
      /\ fwd[Event.chan] # None /\ fwd[Event.thing] # None /\ cfg["svc"].dev # None
    BY DEF AdapterInv, RoutesInv, ConnectOK
<1> DEFINE a == fwd[Event.chan]
           c == [cfg["svc"] EXCEPT !.app = a]
<1>2. AppSaid(a)
    BY <1>1, ConnectRoutes
<1>3. cfg["svc"] \in [app : Apps \cup {None}, dev : Devices \cup {None}]
    BY <1>1 DEF SubsOK
<1>4. /\ c \in [app : Apps \cup {None}, dev : Devices \cup {None}]
      /\ c.dev = cfg["svc"].dev /\ c.app = a /\ cfg' = [cfg EXCEPT !["svc"] = c]
    BY <1>1, <1>2, <1>3 DEF SubsOK, AppSaid
<1> HIDE DEF c
<1>5. cfg'["svc"].dev # None /\ cfg'["svc"].app # None
    BY <1>1, <1>4 DEF SubsOK
<1>6. SubsOK'
    BY <1>1, <1>2, <1>4, ConfigSet, SaidStill DEF SubsOK
<1>7. QED
    BY <1>5, <1>6

LEMMA ConnectSavedInv ==
    ASSUME AdapterInv, ConnectSaved
    PROVE  AdapterInv'
<1>1. /\ LogOK /\ RoutesOK /\ MetaOK /\ RoutedOK /\ ConnsOK /\ pc = "connect"
      /\ batch # <<>> /\ adapter = "opcua" /\ Event.op = "connect"
      /\ fwd[Event.chan] # None /\ fwd[Event.thing] # None
    BY DEF AdapterInv, RoutesInv, ConnectOK, ConnectSaved
<1>2. /\ cfg' = [cfg EXCEPT !["svc"].app = fwd[Event.chan]]
      /\ conns' = conns \cup {<<Event.chan, Event.thing>>} /\ pc' = "saved"
      /\ UNCHANGED <<adapter, things_vars, stream, next, batch, fwd, rev, starting, active, nodes,
                     booting, last, failed>>
    BY DEF ConnectSaved, Connected, stream_vars
<1>3. SubsOK' /\ cfg'["svc"].dev # None /\ cfg'["svc"].app # None
    BY <1>1, <1>2, ConnectConfig
<1>4. LogOK' /\ Done' = Done /\ Grows /\ next' \in Nat /\ next <= next'
    BY <1>1, <1>2, SameStream DEF LogOK, Done
<1>5. RoutesOK' /\ MetaOK' /\ RoutedOK'
    BY <1>1, <1>2, <1>4, RoutesKept, MetaKept, RoutedKept
<1>6. ConnsOK'
    BY <1>1, <1>2, ConnsSaved
<1>7. ConnectOK'
    BY <1>1, <1>2, <1>3 DEF ConnectOK, Event
<1>8. QED
    BY <1>3, <1>4, <1>5, <1>6, <1>7 DEF AdapterInv, RoutesInv

LEMMA StartInv ==
    ASSUME AdapterInv, StartSubscription
    PROVE  AdapterInv'
<1>1. /\ LogOK /\ RoutesOK /\ SubsOK /\ ConnectOK /\ MetaOK /\ RoutedOK /\ ConnsOK
      /\ pc = "saved" /\ cfg["svc"].dev # None /\ cfg["svc"].app # None
    BY DEF AdapterInv, RoutesInv, ConnectOK, StartSubscription
<1>2. /\ starting' = starting \cup {[of |-> "svc", n |-> Head(batch)]} /\ pc' = "store"
      /\ UNCHANGED <<adapter, things_vars, stream, next, batch, fwd, rev, conns, cfg, active, nodes,
                     booting, last, failed>>
    BY DEF StartSubscription, stream_vars, route_vars
<1>3. SubsOK'
  <2>1. \A g \in starting' : /\ g.of \in {"svc", "boot"}
                             /\ cfg'[g.of].dev # None /\ cfg'[g.of].app # None
      BY <1>1, <1>2 DEF SubsOK
  <2>2. QED
      BY <1>1, <1>2, <2>1, SaidStill DEF SubsOK
<1>4. ConnectOK'
    BY <1>1, <1>2 DEF ConnectOK, Event
<1>5. LogOK' /\ RoutesOK' /\ MetaOK' /\ RoutedOK' /\ ConnsOK'
    BY <1>1, <1>2, StillInv, MetaKept
<1>6. QED
    BY <1>3, <1>4, <1>5 DEF AdapterInv, RoutesInv

LEMMA StoreInv ==
    ASSUME AdapterInv, StoreNode
    PROVE  AdapterInv'
<1>1. /\ LogOK /\ RoutesOK /\ SubsOK /\ MetaOK /\ RoutedOK /\ ConnsOK
      /\ batch # <<>> /\ adapter = "opcua" /\ Event.op = "connect"
      /\ fwd[Event.chan] # None /\ fwd[Event.thing] # None
      /\ <<Event.chan, Event.thing>> \in conns
    BY DEF AdapterInv, RoutesInv, ConnectOK, StoreNode
<1> DEFINE nd == [app |-> fwd[Event.chan], dev |-> fwd[Event.thing]]
<1>2. /\ nodes' \in {nodes, Append(nodes, nd)} /\ pc' = "handle" /\ Ack
      /\ UNCHANGED <<adapter, things_vars, stream, next, fwd, rev, conns, cfg, starting, active,
                     booting, last>>
    BY DEF StoreNode, stream_vars, route_vars
<1>3. AppSaid(fwd[Event.chan]) /\ DevSaid(fwd[Event.thing])
    BY <1>1, ConnectRoutes
<1>4. nd \in Node /\ NodeSaid(nd)
    BY <1>3 DEF Node, NodeSaid, AppSaid, DevSaid
<1> HIDE DEF nd
<1>5. LogOK' /\ Done' = Done + 1 /\ UNCHANGED failed
    BY <1>1, <1>2, AckStep DEF Ack
<1>6. Grows /\ next' \in Nat /\ next <= next'
    BY <1>1, <1>2, SameStream DEF LogOK
<1>7. RoutesOK' /\ MetaOK'
    BY <1>1, <1>2, <1>6, RoutesKept, MetaKept
<1>8. RoutedOK'
    BY <1>1, <1>2, <1>5, RoutedAck DEF Changes
<1>9. ConnsOK'
    BY <1>1, <1>2, <1>5, ConnsAck
<1>10. SubsOK'
  <2>1. nodes' \in Seq(Node) /\ \A i \in 1..Len(nodes') : NodeSaid(nodes'[i])
    <3>1. nodes \in Seq(Node) /\ \A i \in 1..Len(nodes) : NodeSaid(nodes[i])
        BY <1>1 DEF SubsOK
    <3>2. CASE nodes' = nodes
        BY <3>1, <3>2
    <3>3. CASE nodes' = Append(nodes, nd)
      <4>1. /\ nodes' \in Seq(Node) /\ Len(nodes') = Len(nodes) + 1 /\ Len(nodes) \in Nat
            /\ \A i \in 1..Len(nodes') : nodes'[i] = IF i = Len(nodes) + 1 THEN nd ELSE nodes[i]
          BY <1>4, <3>1, <3>3
      <4>2. ASSUME NEW i \in 1..Len(nodes') PROVE NodeSaid(nodes'[i])
        <5>1. CASE i = Len(nodes) + 1
            BY <1>4, <4>1, <5>1
        <5>2. CASE i # Len(nodes) + 1
            BY <3>1, <4>1, <5>2
        <5>3. QED
            BY <5>1, <5>2
      <4>3. QED
          BY <4>1, <4>2
    <3>4. QED
        BY <1>2, <3>2, <3>3
  <2>2. \A i \in 1..Len(nodes') : NodeSaid(nodes[i])'
      BY <1>2, <2>1, SaidStill
  <2>3. QED
      BY <1>1, <1>2, <2>1, <2>2, SaidStill DEF SubsOK
<1>11. ConnectOK'
    BY <1>2 DEF ConnectOK
<1>12. QED
    BY <1>5, <1>7, <1>8, <1>9, <1>10, <1>11 DEF AdapterInv, RoutesInv

LEMMA ConnectSaveFailsInv ==
    ASSUME AdapterInv, ConnectSaveFails
    PROVE  AdapterInv'
<1>1. pc = "connect" /\ batch # <<>> /\ Event.op = "connect"
    BY DEF AdapterInv, RoutesInv, ConnectOK, ConnectSaveFails
<1>2. /\ cfg' = [cfg EXCEPT !["svc"].app = fwd[Event.chan]] /\ pc' = "handle" /\ Break
      /\ conns' \in {conns, conns \cup {<<Event.chan, Event.thing>>}}
      /\ UNCHANGED <<adapter, things_vars, stream, next, fwd, rev, starting, active, nodes, booting, last>>
    BY DEF ConnectSaveFails, Connected, stream_vars
<1>3. SubsOK'
    BY <1>1, <1>2, ConnectConfig
<1>4. LogOK' /\ RoutesOK' /\ ConnectOK' /\ MetaOK' /\ RoutedOK' /\ ConnsOK'
    BY <1>1, <1>2, BreakInv DEF Break
<1>5. QED
    BY <1>3, <1>4 DEF AdapterInv, RoutesInv

(* The goroutines, the start-up loop and a restart.                        *)
LEMMA SubscriptionsInv ==
    ASSUME AdapterInv, SubscriptionsNext
    PROVE  AdapterInv'
<1>1. LogOK /\ SubsOK /\ ConnectOK
    BY DEF AdapterInv, RoutesInv
<1>2. ASSUME NEW g \in starting, Subscribe(g) \/ SubscribeFails(g)
      PROVE  AdapterInv'
  <2>1. /\ UNCHANGED <<adapter, things_vars, stream, next, batch, fwd, rev, conns, failed, cfg, pc,
                       nodes, booting, last>>
        /\ starting' \subseteq starting /\ active' \subseteq active \cup {cfg[g.of]}
      BY <1>2 DEF Subscribe, SubscribeFails, stream_vars, route_vars
  <2>2. NodeSaid(cfg[g.of])
      BY <1>1 DEF SubsOK, NodeSaid
  <2>3. SubsOK'
    <3>1. \A s \in active' : NodeSaid(s)
        BY <1>1, <2>1, <2>2 DEF SubsOK
    <3>2. QED
        BY <1>1, <2>1, <3>1, SaidStill DEF SubsOK
  <2>4. ConnectOK'
      BY <1>1, <2>1 DEF ConnectOK, Event
  <2>5. QED
      BY <2>1, <2>3, <2>4, StillInv, MetaKept DEF AdapterInv, RoutesInv
<1>3. ASSUME Restart PROVE AdapterInv'
  <2>1. /\ UNCHANGED <<adapter, things_vars, stream, next, fwd, rev, conns, nodes, last>>
        /\ failed' = failed \cup Range(batch) /\ batch' = <<>> /\ pc' = "handle"
        /\ starting' = {} /\ active' = {} /\ booting' = nodes
        /\ cfg' = [c \in {"svc", "boot"} |-> NoConfig]
      BY <1>3 DEF Restart, stream_vars, route_vars
  <2>2. LogOK' /\ RoutesOK' /\ ConnectOK' /\ MetaOK' /\ RoutedOK' /\ ConnsOK'
      BY <2>1, BreakInv
  <2>3. SubsOK'
    <3>1. cfg' \in [{"svc", "boot"} -> [app : Apps \cup {None}, dev : Devices \cup {None}]]
        BY <2>1 DEF NoConfig
    <3>2. \A k \in {"svc", "boot"} : cfg'[k].dev = None /\ cfg'[k].app = None
        BY <2>1 DEF NoConfig
    <3>3. QED
        BY <1>1, <2>1, <3>1, <3>2, SaidStill DEF SubsOK
  <2>4. QED
      BY <2>2, <2>3 DEF AdapterInv, RoutesInv
<1>4. ASSUME Resubscribe PROVE AdapterInv'
  <2>1. /\ UNCHANGED <<adapter, things_vars, stream, next, batch, fwd, rev, conns, failed, pc, active,
                       nodes, last>>
        /\ booting # <<>> /\ cfg' = [cfg EXCEPT !["boot"] = Head(booting)]
        /\ starting' = starting \cup {[of |-> "boot", n |-> Len(booting)]}
        /\ booting' = Tail(booting)
      BY <1>4 DEF Resubscribe, stream_vars, route_vars
  <2>2. Head(booting) \in Node /\ NodeSaid(Head(booting))
      BY <1>1, <2>1 DEF SubsOK
  <2>3. /\ booting' \in Seq(Node) /\ \A i \in 1..Len(booting') : NodeSaid(booting'[i])
      BY <1>1, <2>1 DEF SubsOK
  <2>4. PICK c : c = Head(booting)
      OBVIOUS
  <2>5. /\ cfg' \in [{"svc", "boot"} -> [app : Apps \cup {None}, dev : Devices \cup {None}]]
        /\ \A l \in {"svc", "boot"} : /\ cfg'[l].dev # None => DevSaid(cfg[l].dev)'
                                      /\ cfg'[l].app # None => AppSaid(cfg[l].app)'
        /\ \A g \in starting : /\ g.of \in {"svc", "boot"}
                               /\ cfg'[g.of].dev # None /\ cfg'[g.of].app # None
    <3>1. c \in [app : Apps \cup {None}, dev : Devices \cup {None}] /\ DevSaid(c.dev) /\ AppSaid(c.app)
        BY <2>2, <2>4 DEF Node, NodeSaid
    <3>2. QED
        BY <1>1, <2>1, <2>4, <3>1, ConfigSet
  <2>6. cfg'["boot"].dev # None /\ cfg'["boot"].app # None
      BY <1>1, <2>1, <2>2 DEF SubsOK, Node
  <2>7. SubsOK'
    <3>1. \A g \in starting' : /\ g.of \in {"svc", "boot"}
                               /\ cfg'[g.of].dev # None /\ cfg'[g.of].app # None
        BY <2>1, <2>5, <2>6
    <3>2. \A i \in 1..Len(booting') : NodeSaid(booting[i])'
        BY <2>1, <2>3, SaidStill
    <3>3. /\ \A s \in active' : NodeSaid(s)'
          /\ nodes' \in Seq(Node) /\ \A i \in 1..Len(nodes') : NodeSaid(nodes[i])'
          /\ last' # None => Said(last.thing, last.dev)' /\ Said(last.channel, last.app)'
        BY <1>1, <2>1, SaidStill DEF SubsOK
    <3>4. QED
        BY <2>3, <2>5, <3>1, <3>2, <3>3 DEF SubsOK
  <2>8. ConnectOK'
    <3>1. cfg'["svc"] = cfg["svc"]
        BY <1>1, <2>1 DEF SubsOK
    <3>2. QED
        BY <1>1, <2>1, <3>1 DEF ConnectOK, Event
  <2>9. QED
      BY <2>1, <2>7, <2>8, StillInv, MetaKept DEF AdapterInv, RoutesInv
<1>5. QED
    BY <1>2, <1>3, <1>4 DEF SubscriptionsNext

(* Messages of devices.                                                    *)
LEMMA DevicesInv ==
    ASSUME AdapterInv, DevicesNext
    PROVE  AdapterInv'
<1>1. LogOK /\ RoutesOK /\ SubsOK /\ ConnectOK
    BY DEF AdapterInv, RoutesInv
<1>2. ASSUME NEW d \in Devices, NEW a \in Apps, rev[d] # None, rev[a] # None, last' = Message(d, a)
      PROVE  Said(last'.thing, last'.dev) /\ Said(last'.channel, last'.app)
    BY <1>1, <1>2 DEF Message, RoutesOK
<1>3. /\ UNCHANGED <<adapter, things_vars, stream, next, batch, fwd, rev, conns, failed, cfg, pc, starting,
                     nodes, booting>>
      /\ active' \subseteq active
    BY DEF DevicesNext, PublishLora, NotifyOpcua, stream_vars, route_vars, sub_vars
<1>4. last' = last \/ (Said(last'.thing, last'.dev) /\ Said(last'.channel, last'.app))
  <2>1. ASSUME NEW d \in Devices, NEW a \in Apps, PublishLora(d, a)
        PROVE  Said(last'.thing, last'.dev) /\ Said(last'.channel, last'.app)
      BY <1>2, <2>1 DEF PublishLora
  <2>2. ASSUME NEW s \in active, NotifyOpcua(s), last' # last
        PROVE  Said(last'.thing, last'.dev) /\ Said(last'.channel, last'.app)
    <3>1. s.dev \in Devices /\ s.app \in Apps
        BY <1>1 DEF SubsOK, NodeSaid, DevSaid, AppSaid
    <3>2. QED
        BY <1>2, <2>2, <3>1 DEF NotifyOpcua
  <2>3. QED
      BY <2>1, <2>2 DEF DevicesNext
<1>5. last' # None => Said(last.thing, last.dev)' /\ Said(last.channel, last.app)'
    BY <1>1, <1>3, <1>4, SaidStill DEF SubsOK
<1>6. SubsOK'
    BY <1>1, <1>3, <1>5, SaidStill DEF SubsOK
<1>7. ConnectOK'
    BY <1>1, <1>3 DEF ConnectOK, Event
<1>8. QED
    BY <1>3, <1>6, <1>7, StillInv, MetaKept DEF AdapterInv, RoutesInv

LEMMA NextInv == AdapterInv /\ [Next]_vars => AdapterInv'
<1> SUFFICES ASSUME AdapterInv, [Next]_vars PROVE AdapterInv'
    OBVIOUS
<1> USE DEF stream_vars, route_vars
<1>1. CASE HandleOther
  <2>1. /\ Handling /\ Ack /\ UNCHANGED <<fwd, rev, conns>>
        /\ AckOnly \/ (adapter = "lora" /\ Event.op \in {"connect", "disconnect"})
        /\ UNCHANGED <<adapter, things_vars, stream, next, sub_vars, pc, last>>
      BY <1>1 DEF HandleOther
  <2>2. QED
      BY <2>1, AckInv
<1>2. CASE HandleMalformed
    BY <1>2, FailInv DEF HandleMalformed
<1>3. CASE HandleSave
    BY <1>3, AckInv DEF HandleSave
<1>4. CASE HandleSaveFails
    BY <1>4, FailInv DEF HandleSaveFails, Writes
<1>5. CASE HandleRemove
  <2>1. CASE fwd[Event.id] # None
      BY <1>5, <2>1, AckInv DEF HandleRemove
  <2>2. CASE fwd[Event.id] = None
      BY <1>5, <2>2, FailInv DEF HandleRemove
  <2>3. QED
      BY <2>1, <2>2
<1>6. CASE HandleRemoveFails
    BY <1>6, FailInv DEF HandleRemoveFails, Writes
<1>7. CASE DisconnectThing
  <2>1. CASE <<Event.chan, Event.thing>> \in conns
      BY <1>7, <2>1, AckInv DEF DisconnectThing
  <2>2. CASE <<Event.chan, Event.thing>> \notin conns
      BY <1>7, <2>2, FailInv DEF DisconnectThing
  <2>3. QED
      BY <2>1, <2>2
<1>8. CASE DisconnectFails
    BY <1>8, FailInv DEF DisconnectFails
<1>9. CASE LookupFails
    BY <1>9, FailInv DEF LookupFails
<1>10. CASE UNCHANGED vars
  <2>1. UNCHANGED <<adapter, things_vars, stream, next, batch, fwd, rev, conns, failed, sub_vars,
                    pc, last>>
      BY <1>10 DEF vars, sub_vars, things_vars
  <2>2. SubsOK' /\ ConnectOK'
      BY <2>1, SaidStill DEF AdapterInv, RoutesInv, SubsOK, ConnectOK, Event, sub_vars
  <2>3. QED
      BY <2>1, <2>2, StillInv, MetaKept DEF AdapterInv, RoutesInv
<1>11. QED
    BY <1>1, <1>2, <1>3, <1>4, <1>5, <1>6, <1>7, <1>8, <1>9, <1>10, ThingsInv, ReadInv, ConnectInv,
       ConnectSavedInv, ConnectSaveFailsInv, StartInv, StoreInv, SubscriptionsInv, DevicesInv
       DEF Next, ConsumerNext

-----------------------------------------------------------------------------
(* Whatever fails or restarts, every route in Redis, every subscription    *)
(* and every message published goes back to events in which the thing and  *)
(* the channel named the device and the application (the route maps of     *)
(* lora/redis and opcua/redis, the shared Config of opcua/adapter.go).     *)
THEOREM RoutesComeFromEvents == Spec => []RouteProvenance
<1>1. AdapterInv => RouteProvenance
    BY DEF AdapterInv, RoutesInv, RoutesOK, SubsOK, NodeSaid, DevSaid, AppSaid, RouteProvenance
<1>2. QED
    BY InitInv, NextInv, <1>1, PTL DEF Spec

(* A consumer that has caught up routes everything none of whose events it *)
(* has missed by the last event about it, which is by its current metadata *)
(* unless an event was lost on the way to the stream or requests about it  *)
(* overlapped; and nothing that is gone (things/redis/streams.go, the      *)
(* handlers of lora/redis/streams.go and opcua/redis/streams.go).          *)
THEOREM RoutesCatchUp == Spec => []CaughtUpRouted
<1>1. AdapterInv => CaughtUpRouted
  <2> DEFINE WasRemoved(e) == \E i \in 1..Len(stream) : Latest(i, e) /\ stream[i].op = "remove"
  <2> SUFFICES ASSUME AdapterInv, CaughtUp, NEW e \in Entity, ~Missed(e)
               PROVE  /\ WasRemoved(e) => fwd[e] = None
                      /\ \A i \in 1..Len(stream) :
                            Latest(i, e) /\ ~WasRemoved(e) /\ stream[i].ext \in Exts(e) =>
                               RoutedBy(e, stream[i].ext)
                      /\ e \notin astray /\ ~IsPending(e) =>
                            /\ meta[e] \in Exts(e) /\ ~WasRemoved(e) => RoutedBy(e, meta[e])
                            /\ meta[e] \in Gone => fwd[e] = None
      BY DEF CaughtUpRouted
  <2>1. Done - 1 = Len(stream)
      BY DEF AdapterInv, RoutesInv, LogOK, CaughtUp, Done
  <2>2. Routed(e)
      BY DEF AdapterInv, RoutedOK
  <2>3. \A i \in 1..Len(stream) : Latest(i, e) => LastDone(i, e)
      BY <2>1 DEF Latest, LastDone
  <2>4. WasRemoved(e) => fwd[e] = None
      BY <2>1, <2>2, <2>3 DEF Routed
  <2>5. \A i \in 1..Len(stream) :
           Latest(i, e) /\ ~WasRemoved(e) /\ stream[i].ext \in Exts(e) => RoutedBy(e, stream[i].ext)
      BY <2>1, <2>2, <2>3 DEF Routed
  <2>6. ASSUME e \notin astray, ~IsPending(e)
        PROVE  /\ meta[e] \in Exts(e) /\ ~WasRemoved(e) => RoutedBy(e, meta[e])
               /\ meta[e] \in Gone => fwd[e] = None
    <3>1. \/ meta[e] = "absent" /\ \A i \in 1..Len(stream) : ~IsOwn(i, e)
          \/ \E i \in 1..Len(stream) : Latest(i, e) /\ Matches(stream[i], e)
        BY <2>6 DEF AdapterInv, MetaOK, Agrees
    <3>2. CASE meta[e] = "absent" /\ \A i \in 1..Len(stream) : ~IsOwn(i, e)
        BY <2>1, <2>2, <3>2 DEF Routed, Exts
    <3>3. CASE \E i \in 1..Len(stream) : Latest(i, e) /\ Matches(stream[i], e)
      <4>1. PICK i \in 1..Len(stream) : Latest(i, e) /\ Matches(stream[i], e)
          BY <3>3
      <4>2. CASE stream[i].op = "remove"
          BY <2>4, <4>1, <4>2
      <4>3. CASE stream[i].op # "remove"
        <5>1. /\ stream[i].op \in {"create", "update"} /\ stream[i].id = e /\ stream[i].ext = meta[e]
            BY <4>1, <4>3 DEF Matches, Latest, IsOwn, IsAbout
        <5>2. stream[i].ext \in Exts(e) \cup {None, "bad"}
            BY <5>1 DEF AdapterInv, RoutesInv, LogOK
        <5>3. meta[e] \notin Gone
            BY <5>1, <5>2 DEF Gone, Exts
        <5>4. QED
            BY <2>5, <4>1, <5>1, <5>3
      <4>4. QED
          BY <4>2, <4>3
    <3>4. QED
        BY <3>1, <3>2, <3>3
  <2>7. QED
      BY <2>4, <2>5, <2>6
<1>2. QED
    BY InitInv, NextInv, <1>1, PTL DEF Spec

(* Once the consumer is through with the last event about a pair, and this *)
(* one did not fail, the pair is in the connection map just when the event *)
(* connected it, whatever was half done before; and only pairs it was told *)
(* of are there (ConnectThing and DisconnectThing of opcua/adapter.go, the *)
(* two SETs of opcua/redis/routemap.go).                                   *)
THEOREM ConnectionsExact == Spec => []ConnectionsKept
<1>1. AdapterInv => ConnectionsKept
  <2> SUFFICES ASSUME AdapterInv, adapter = "opcua", NEW c \in Channels, NEW t \in Things
               PROVE  LET settled == {i \in 1..next - 1 : i \notin Range(batch) /\ IsPair(i, c, t)}
                          connecting == pc \in {"saved", "store"} /\ IsPair(Head(batch), c, t)
                      IN
                      /\ <<c, t>> \in conns => WasConnected(c, t)
                      /\ ~connecting => \A i \in settled \ failed :
                            (\A j \in settled : j <= i) => (<<c, t>> \in conns <=> stream[i].op = "connect")
      BY DEF ConnectionsKept
  <2>1. LogOK /\ ConnOK(c, t) /\ ConnectOK
      BY DEF AdapterInv, RoutesInv, ConnsOK
  <2>2. Range(batch) = Done..next - 1 /\ Done \in 1..next /\ next \in Nat
      BY <2>1, BatchRange DEF LogOK
  <2>3. /\ \A i \in 1..next - 1 : i \notin Range(batch) => i \in 1..Done - 1
        /\ \A i \in 1..Done - 1 : i \in 1..next - 1 /\ i \notin Range(batch)
      BY <2>2
  <2>4. Busy(c, t) => pc \in {"saved", "store"} /\ IsPair(Head(batch), c, t)
      BY <2>1, BatchHead DEF Busy
  <2>5. QED
      BY <2>1, <2>3, <2>4 DEF ConnOK, LastPair
<1>2. QED
    BY InitInv, NextInv, <1>1, PTL DEF Spec
=============================================================================
