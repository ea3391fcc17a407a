------------------------------ MODULE Messaging ------------------------------
(***************************************************************************)
(* A message's way through the platform: a thing publishes over HTTP, CoAP *)
(* or MQTT (http/adapter.go, coap/adapter.go, mqtt/handler.go), the        *)
(* adapter asks for access and publishes to NATS (pkg/messaging/nats), the *)
(* writer transforms it (pkg/transformers) and stores its records          *)
(* (writers), and the MQTT adapter forwards it to the MQTT broker          *)
(* (mqtt/forwarder.go).                                                    *)
(*                                                                         *)
(* There is one instance of the writer, which subscribes without a queue   *)
(* group, and any number of MQTT adapters, which share one: NATS makes one *)
(* copy of a message for each of the two.  A copy may be lost, as NATS     *)
(* core delivers at most once, and copies are handled in any order         *)
(* (several adapters, and a goroutine for each forwarded message).  The    *)
(* deployment's database and transformer are chosen at the start.          *)
(***************************************************************************)
EXTENDS Naturals, Sequences, FiniteSets

CONSTANTS
    Things, Channels,
    Subtopics,    \* raw subtopics of requests: sequences of elements
    Times,        \* readings of the adapters' clocks, in nanoseconds, in any order
    Grain,        \* nanoseconds that one float64 of seconds stands for
    Requests,     \* what is sent: records of a protocol, a raw subtopic and a payload
    MaxMsgs       \* bound: messages published in one behaviour

ASSUME MessagingAssumption ==
    /\ MaxMsgs \in Nat /\ Times \subseteq Nat /\ Grain \in Nat \ {0}

Protocols == {"http", "coap", "mqtt"}
Databases == {"postgres", "cassandra", "mongodb", "influxdb"}

\* What the transformers tell apart: an array of two records, which have two
\* names and no time ("pack"), one name and no time ("repeat") or one name and
\* a time each ("series"); a JSON object; anything else.
Payloads == {"pack", "repeat", "series", "object", "text"}

ASSUME RequestsAssumption ==
    Requests \subseteq [protocol : Protocols, raw : Subtopics, payload : Payloads]

VARIABLES
    db, transformer,  \* the deployment
    connected,        \* pairs <<thing, channel>> in the database of things
    cached,           \* pairs in the channel sets of the Redis cache
    accepted,         \* messages whose sender had access, not yet published
    bus,              \* copies in flight: [to |-> subscriber, msg |-> message]
    store,            \* rows: [table, key, msg, i]
    mqtt,             \* [message -> how often the MQTT broker has seen it]
    lost,             \* history: copies lost, or whose handling failed
    sent              \* history: messages accepted, by number

vars == <<db, transformer, connected, cached, accepted, bus, store, mqtt, lost, sent>>

Range(s) == {s[i] : i \in DOMAIN s}

(***************************************************************************)
(* Publishing                                                              *)
(***************************************************************************)
Wildcard(e) == e = "a*"

(* parseSubtopic, the same in the three adapters: empty elements are       *)
(* dropped, an element that only contains a wildcard is malformed.         *)
Malformed(raw) == \E e \in Range(raw) : Wildcard(e)
ParseSubtopic(raw) == SelectSeq(raw, LAMBDA e : e # "")

(* CanAccessByKey, or the Authorize of an MQTT session, grants what the    *)
(* cache or the database has, and then it is cached.  An entry may outlive *)
(* its row (module Things), and so does the access.                        *)
HasAccess(th, ch) == <<th, ch>> \in cached \cup connected

(* The request is decoded and its sender has access; the publisher of the  *)
(* message is the thing the things service named.                          *)
Accept(th, ch, q, t) ==
    /\ Len(sent) < MaxMsgs
    /\ HasAccess(th, ch)
    /\ LET m == [n |-> Len(sent) + 1, protocol |-> q.protocol, channel |-> ch, publisher |-> th,
                 subtopic |-> ParseSubtopic(q.raw), payload |-> q.payload,
                 bad |-> Malformed(q.raw), created |-> t]
       IN  /\ accepted' = accepted \cup {m}
           /\ sent' = Append(sent, m)
    /\ cached' = cached \cup {<<th, ch>>}

(* HTTP and CoAP refuse a malformed subtopic before they ask for access.   *)
AcceptHTTP(th, ch, q, t) ==
    /\ q.protocol = "http" /\ ~Malformed(q.raw)
    /\ Accept(th, ch, q, t)
    /\ UNCHANGED <<db, transformer, connected, bus, store, mqtt, lost>>

AcceptCoAP(th, ch, q, t) ==
    /\ q.protocol = "coap" /\ ~Malformed(q.raw)
    /\ Accept(th, ch, q, t)
    /\ UNCHANGED <<db, transformer, connected, bus, store, mqtt, lost>>

(* AuthPublish looks at the channel only; mProxy then passes the message   *)
(* on to the MQTT broker and calls the Publish hook.                       *)
AuthPublish(th, ch, q, t) ==
    /\ q.protocol = "mqtt"
    /\ Accept(th, ch, q, t)
    /\ mqtt' = [mqtt EXCEPT ![Len(sent) + 1] = @ + 1]
    /\ UNCHANGED <<db, transformer, connected, bus, store, lost>>

Copies(m) == {[to |-> "writers", msg |-> m], [to |-> "mqtt", msg |-> m]}

PublishStored(m) ==
    /\ m \in accepted /\ ~m.bad
    /\ accepted' = accepted \ {m}
    /\ bus' = bus \cup {[to |-> "writers", msg |-> m]}
    /\ UNCHANGED <<db, transformer, connected, cached, store, mqtt, lost, sent>>

(* Publish to channels.<channel>[.<subtopic>]: a copy for the writer and   *)
(* one for the queue group of the MQTT adapters.                           *)
Publish(m) ==
    /\ m \in accepted /\ ~m.bad
    /\ accepted' = accepted \ {m}
    /\ bus' = bus \cup Copies(m)
    /\ UNCHANGED <<db, transformer, connected, cached, store, mqtt, lost, sent>>

(* The Publish hook of the MQTT handler drops a message with a malformed   *)
(* subtopic.                                                               *)
PublishHookDrops(m) ==
    /\ m \in accepted /\ m.bad
    /\ accepted' = accepted \ {m}
    /\ UNCHANGED <<db, transformer, connected, cached, bus, store, mqtt, lost, sent>>

(* conn.Publish fails: the sender is told, the message is gone.            *)
PublishFails(m) ==
    /\ m \in accepted
    /\ accepted' = accepted \ {m}
    /\ lost' = lost \cup Copies(m)
    /\ UNCHANGED <<db, transformer, connected, cached, bus, store, mqtt, sent>>

LoseCopy(c) ==
    /\ c \in bus
    /\ bus' = bus \ {c}
    /\ lost' = lost \cup {c}
    /\ UNCHANGED <<db, transformer, connected, cached, accepted, store, mqtt, sent>>

(***************************************************************************)
(* The MQTT forwarder                                                      *)
(***************************************************************************)
ForwardsAll(m) == TRUE

(* Messages that came from the MQTT broker are not sent back to it.        *)
Forwards(m) == m.protocol # "mqtt"

Forward(c) ==
    /\ c \in bus /\ c.to = "mqtt"
    /\ bus' = bus \ {c}
    /\ mqtt' = IF Forwards(c.msg) THEN [mqtt EXCEPT ![c.msg.n] = @ + 1] ELSE mqtt
    /\ UNCHANGED <<db, transformer, connected, cached, accepted, store, lost, sent>>

(***************************************************************************)
(* The writers                                                             *)
(***************************************************************************)
(* Transform: how many records the payload gives, 0 when it is refused.    *)
(* A SenML pack is a JSON array of objects too; the JSON transformer names *)
(* the table by the last element of the subtopic.                          *)
IsArray(m) == m.payload \in {"pack", "repeat", "series"}
SenmlRecords(m) == IF IsArray(m) THEN 2 ELSE 0
JSONRecords(m) == IF IsArray(m) THEN 2 ELSE IF m.payload = "object" THEN 1 ELSE 0
Format(m) == IF m.subtopic = <<>> THEN "" ELSE m.subtopic[Len(m.subtopic)]

Records(m) == IF transformer = "senml" THEN SenmlRecords(m) ELSE JSONRecords(m)
Table(m) == IF transformer = "senml" THEN "messages" ELSE Format(m)

(* What can be stored at all: the payload transforms and names a table.    *)
(* Postgres and Cassandra make the table of SenML messages when they start,*)
(* and it has not the columns of a JSON message.                           *)
Storable(m) ==
    /\ Records(m) > 0 /\ Table(m) # ""
    /\ ~(transformer = "json" /\ Table(m) = "messages" /\ db \in {"postgres", "cassandra"})

(* Name and time of a SenML record: a record without a time gets the one   *)
(* of the message, as a float64 of seconds.                                *)
Name(m, i) == IF m.payload = "pack" THEN i ELSE 1
Seconds(m) == m.created \div Grain
Time(m, i) == IF m.payload = "series" THEN <<"own", i>> ELSE <<"created", Seconds(m)>>

(* Cassandra: the channel, the time and an id, one for all records of a    *)
(* SenML pack and one for each JSON record.                                *)
CassandraKey(m, i) ==
    IF transformer = "senml" THEN <<m.channel, Time(m, i), m.n>>
    ELSE <<m.channel, m.created, <<m.n, i>> >>

InfluxKeyUntagged(m, i) == <<m.channel, m.publisher, m.subtopic, Seconds(m)>>

(* InfluxDB: the tags and the time of a point, where a SenML record has    *)
(* its name for a tag and a JSON record its place added to the time.       *)
InfluxKey(m, i) ==
    IF transformer = "senml" THEN <<m.channel, m.publisher, m.subtopic, Name(m, i), Time(m, i)>>
    ELSE <<m.channel, m.publisher, m.subtopic, m.created + i - 1>>

(* Postgres and MongoDB: an id for each record.                            *)
Key(m, i) ==
    CASE db = "influxdb" -> InfluxKey(m, i)
      [] db = "cassandra" -> CassandraKey(m, i)
      [] OTHER -> <<m.n, i>>

Row(m, i) == [table |-> Table(m), key |-> Key(m, i), msg |-> m, i |-> i]

(* The first k records are inserted one after the other; a row gives way   *)
(* to a later one with its key.                                            *)
Upsert(rows, m, k) ==
    {r \in rows : \A i \in 1..k : r.table # Table(m) \/ r.key # Key(m, i)}
    \cup {Row(m, i) : i \in {j \in 1..k : \A l \in j + 1..k : Key(m, l) # Key(m, j)}}

(* Records that may be there after a failure: Postgres has one transaction *)
(* for a message and InfluxDB one batch; Cassandra and MongoDB stop at the *)
(* record that fails.                                                      *)
Stops(m) == IF db \in {"postgres", "influxdb"} THEN {0} ELSE 0..Records(m) - 1

(* The handler of a writer: the transformed message is saved, with the     *)
(* table made first when there is none yet.                                *)
Save(c) ==
    LET m == c.msg IN
    /\ c \in bus /\ c.to = "writers"
    /\ Storable(m)
    /\ bus' = bus \ {c}
    /\ store' = Upsert(store, m, Records(m))
    /\ UNCHANGED <<db, transformer, connected, cached, accepted, mqtt, lost, sent>>

(* The database fails.  The error, if it is reported at all, is logged.    *)
SaveFails(c) ==
    LET m == c.msg IN
    /\ c \in bus /\ c.to = "writers"
    /\ Storable(m)
    /\ bus' = bus \ {c}
    /\ \E k \in Stops(m) : store' = Upsert(store, m, k)
    /\ lost' = lost \cup {c}
    /\ UNCHANGED <<db, transformer, connected, cached, accepted, mqtt, sent>>

(* The payload does not transform, or there is no table for it.            *)
Refuse(c) ==
    LET m == c.msg IN
    /\ c \in bus /\ c.to = "writers"
    /\ ~Storable(m)
    /\ bus' = bus \ {c}
    /\ UNCHANGED <<db, transformer, connected, cached, accepted, store, mqtt, lost, sent>>

(***************************************************************************)
(* The things service, as long as a message may be sent: access matters to *)
(* nothing else.                                                           *)
(***************************************************************************)
Connect(th, ch) ==
    /\ Len(sent) < MaxMsgs
    /\ connected' = connected \cup {<<th, ch>>}
    /\ UNCHANGED <<db, transformer, cached, accepted, bus, store, mqtt, lost, sent>>

(* Disconnect, and the removal of the thing or the channel.  The entry of  *)
(* the cache goes too, but for a thing that is removed or a check on its   *)
(* way (module Things).                                                    *)
Withdraw(th, ch) ==
    /\ Len(sent) < MaxMsgs
    /\ connected' = connected \ {<<th, ch>>}
    /\ cached' \in {cached, cached \ {<<th, ch>>}}
    /\ UNCHANGED <<db, transformer, accepted, bus, store, mqtt, lost, sent>>

Init ==
    /\ db \in Databases /\ transformer \in {"senml", "json"}
    /\ connected = {} /\ cached = {}
    /\ accepted = {} /\ bus = {} /\ store = {} /\ lost = {}
    /\ mqtt = [n \in 1..MaxMsgs |-> 0]
    /\ sent = <<>>

Handle(c) == Forward(c) \/ Save(c) \/ SaveFails(c) \/ Refuse(c) \/ LoseCopy(c)

Next ==
    \/ \E th \in Things, ch \in Channels, q \in Requests, t \in Times :
          \/ AcceptHTTP(th, ch, q, t)
          \/ AcceptCoAP(th, ch, q, t)
          \/ AuthPublish(th, ch, q, t)
    \/ \E m \in accepted : Publish(m) \/ PublishHookDrops(m) \/ PublishFails(m)
    \/ \E c \in bus : Handle(c)
    \/ \E th \in Things, ch \in Channels : Connect(th, ch) \/ Withdraw(th, ch)

(* An adapter goes on with a request it accepted, and NATS and its         *)
(* subscribers with the copies in flight.                                  *)
Fairness ==
    /\ WF_vars(\E m \in accepted : Publish(m) \/ PublishHookDrops(m) \/ PublishFails(m))
    /\ WF_vars(\E c \in bus : Handle(c))

Spec == Init /\ [][Next]_vars /\ Fairness

(***************************************************************************)
(* Properties                                                              *)
(***************************************************************************)

(* The MQTT broker sees a message at most once, whichever side it came     *)
(* from: forwarding does not echo what the broker already has, so that no  *)
(* loop between broker and NATS can start.                                 *)
NoEcho == \A n \in 1..MaxMsgs : mqtt[n] <= 1

(* The writer is done with a message, and nothing failed.                  *)
Handled(m) ==
    /\ m \notin accepted /\ [to |-> "writers", msg |-> m] \notin bus \cup lost
    /\ ~m.bad /\ Storable(m)

(* Points of two messages that InfluxDB takes for the same.                *)
Clash(m, o) ==
    /\ m.channel = o.channel /\ m.publisher = o.publisher /\ m.subtopic = o.subtopic
    /\ IF transformer = "senml"
         THEN /\ m.payload = "series" <=> o.payload = "series"
              /\ m.payload # "series" => Seconds(m) = Seconds(o)
         ELSE m.created < o.created + Records(o) /\ o.created < m.created + Records(m)

(* Messages that may lose records: SenML records without a time in         *)
(* Cassandra, where a pack has one id; in InfluxDB SenML records of one    *)
(* name without a time, and messages of one publisher, channel and         *)
(* subtopic that carry the same times or were received at almost the same. *)
Exposed(m) ==
    \/ db = "cassandra" /\ transformer = "senml" /\ m.payload # "series"
    \/ db = "influxdb" /\ transformer = "senml" /\ m.payload = "repeat"
    \/ db = "influxdb" /\ \E o \in Range(sent) : o # m /\ Clash(m, o)

(* A message that a writer saved has all its records in the table, also    *)
(* after other messages were saved, in part or whole: no row gives way to  *)
(* another, unless the message is exposed.                                 *)
PacksWhole ==
    \A m \in Range(sent) : Handled(m) /\ ~Exposed(m) =>
        \A i \in 1..Records(m) : \E r \in store : r.msg = m /\ r.i = i

(* An accepted message that can be stored is stored (and perhaps replaced  *)
(* by one it clashes with), and MQTT clients get it whichever protocol it  *)
(* came by; or it was lost where NATS or the database may lose it.         *)
AcceptedDelivered ==
    \A n \in 1..MaxMsgs :
        (\E m \in accepted : m.n = n) ~>
            \E m \in Range(sent) :
                /\ m.n = n
                /\ \/ \E r \in store : r.msg = m \/ (db = "influxdb" /\ Clash(m, r.msg))
                   \/ [to |-> "writers", msg |-> m] \in lost
                   \/ m.bad \/ ~Storable(m)
                /\ mqtt[n] = 1 \/ m.bad \/ [to |-> "mqtt", msg |-> m] \in lost
=============================================================================
