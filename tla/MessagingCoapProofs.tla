------------------------- MODULE MessagingCoapProofs -------------------------
(***************************************************************************)
(* Proofs about a message's way through the platform, for any things,      *)
(* channels, subtopics, clocks and number of messages, and each database;  *)
(* and about the CoAP adapter, whose clients get the messages they observe.*)
(***************************************************************************)
EXTENDS Messaging, Coap, TLAPS

Message == [n : 1..MaxMsgs, protocol : Protocols, channel : Channels, publisher : Things,
            subtopic : {ParseSubtopic(raw) : raw \in Subtopics}, payload : Payloads,
            bad : BOOLEAN, created : Times]
Copy == [to : {"writers", "mqtt"}, msg : Message]
ToWriters(m) == [to |-> "writers", msg |-> m]

Types ==
    /\ db \in Databases /\ transformer \in {"senml", "json"}
    /\ accepted \subseteq Message /\ bus \subseteq Copy
    /\ mqtt \in [1..MaxMsgs -> Nat]
    /\ sent \in Seq(Message)
    /\ Len(sent) <= MaxMsgs

(* The history: message i is the i-th that was accepted.                   *)
SentNumbered == \A i \in 1..Len(sent) : sent[i].n = i

SentIn(m, history) == m.n \in 1..Len(history) /\ m = history[m.n]
IsSent(m) == SentIn(m, sent)

(* Wherever a message is, it is as it was accepted, ...                    *)
AllSent ==
    /\ \A m \in accepted : IsSent(m)
    /\ \A c \in bus : IsSent(c.msg)
    /\ \A r \in store : IsSent(r.msg)

(* ... and one not yet published has no copy in flight.                    *)
OnePlace == \A c \in bus : c.msg \notin accepted

(* What the MQTT broker has seen: nothing of a message yet to come, nor of *)
(* one that is still to be forwarded.                                      *)
Unseen ==
    /\ \A n \in 1..MaxMsgs : n > Len(sent) => mqtt[n] = 0
    /\ \A m \in accepted : m.protocol # "mqtt" => mqtt[m.n] = 0
    /\ \A c \in bus : c.to = "mqtt" /\ c.msg.protocol # "mqtt" => mqtt[c.msg.n] = 0

(* A row has the key of the record it is.                                  *)
RowsOK ==
    \A r \in store : /\ r.i \in 1..Records(r.msg)
                     /\ r.key = Key(r.msg, r.i)

Whole(m) == \A i \in 1..Records(m) : \E r \in store : r.msg = m /\ r.i = i

(* PacksWhole, by the numbers of the messages.                             *)
AllWhole == \A m \in Message : IsSent(m) /\ Handled(m) /\ ~Exposed(m) => Whole(m)

MessagingInv ==
    /\ Types
    /\ SentNumbered
    /\ AllSent
    /\ OnePlace
    /\ Unseen
    /\ NoEcho
    /\ RowsOK
    /\ AllWhole

USE MessagingAssumption

-----------------------------------------------------------------------------
LEMMA RecordsOf == \A m : Records(m) \in 0..2
BY DEF Records, SenmlRecords, JSONRecords

(* Two messages that were sent have two numbers.                           *)
LEMMA SentApart ==
    ASSUME NEW m, NEW o, IsSent(m), IsSent(o), m # o
    PROVE  m.n # o.n
BY DEF IsSent, SentIn

LEMMA SentInRange ==
    ASSUME Types, NEW m, IsSent(m)
    PROVE  m \in Range(sent) /\ m \in Message
BY DEF Types, IsSent, SentIn, Range

(* Records that share a key, of one message or of two: the message is      *)
(* exposed.                                                                *)
LEMMA SharedWithin ==
    ASSUME Types, NEW m \in Message, NEW i \in 1..Records(m), NEW j \in 1..Records(m),
           i # j, Key(m, i) = Key(m, j)
    PROVE  Exposed(m)
<1>1. i \in 1..2 /\ j \in 1..2 /\ m.created \in Nat
    <2>1. m.created \in Times
        BY DEF Message
    <2>2. m.created \in Nat
        BY <2>1, MessagingAssumption
    <2>3. PICK a \in 0..2 : a = Records(m)
        BY RecordsOf
    <2>4. i \in 1..a /\ j \in 1..a
        BY <2>3
    <2>5. QED
        BY <2>2, <2>3, <2>4
<1>2. CASE db = "influxdb"
    <2>1. InfluxKey(m, i) = InfluxKey(m, j)
        BY <1>2 DEF Key
    <2>2. CASE transformer = "senml"
        <3>1. Name(m, i) = Name(m, j) /\ Time(m, i) = Time(m, j)
            BY <2>1, <2>2 DEF InfluxKey
        <3>2. m.payload # "pack" /\ m.payload # "series"
            BY <1>1, <3>1 DEF Name, Time
        <3>3. IsArray(m)
            BY <1>1, <2>2 DEF Records, SenmlRecords
        <3>4. QED
            BY <1>2, <2>2, <3>2, <3>3 DEF IsArray, Exposed
    <2>3. CASE transformer # "senml"
        BY <1>1, <2>1, <2>3 DEF InfluxKey
    <2>4. QED
        BY <2>2, <2>3
<1>3. CASE db = "cassandra"
    <2>1. CassandraKey(m, i) = CassandraKey(m, j)
        BY <1>3 DEF Key
    <2>2. transformer = "senml"
        BY <2>1 DEF CassandraKey
    <2>3. Time(m, i) = Time(m, j)
        BY <2>1, <2>2 DEF CassandraKey
    <2>4. m.payload # "series"
        BY <1>1, <2>3 DEF Time
    <2>5. QED
        BY <1>3, <2>2, <2>4 DEF Exposed
<1>4. CASE db # "influxdb" /\ db # "cassandra"
    BY <1>1, <1>4 DEF Key
<1>5. QED
    BY <1>2, <1>3, <1>4

LEMMA SharedBetween ==
    ASSUME Types, NEW m, NEW o, IsSent(m), IsSent(o), m # o,
           NEW i \in 1..Records(m), NEW j \in 1..Records(o),
           Key(m, i) = Key(o, j)
    PROVE  Exposed(m)
<1>1. /\ i \in 1..2 /\ j \in 1..2 /\ m.n # o.n
      /\ m.created \in Nat /\ o.created \in Nat /\ o \in Range(sent)
    <2>1. m \in Message /\ o \in Message /\ o \in Range(sent)
        BY SentInRange
    <2>2. m.created \in Times /\ o.created \in Times
        BY <2>1 DEF Message
    <2>3. m.created \in Nat /\ o.created \in Nat
        BY <2>2, MessagingAssumption
    <2>4. PICK a \in 0..2, b \in 0..2 : a = Records(m) /\ b = Records(o)
        BY RecordsOf
    <2>5. i \in 1..a /\ j \in 1..b
        BY <2>4
    <2>6. m.n # o.n
        BY SentApart
    <2>7. QED
        BY <2>1, <2>3, <2>4, <2>5, <2>6
<1>2. CASE db = "influxdb"
    <2>1. InfluxKey(m, i) = InfluxKey(o, j)
        BY <1>2 DEF Key
    <2>2. m.channel = o.channel /\ m.publisher = o.publisher /\ m.subtopic = o.subtopic
        BY <2>1 DEF InfluxKey
    <2>3. CASE transformer = "senml"
        <3>1. Time(m, i) = Time(o, j)
            BY <2>1, <2>3 DEF InfluxKey
        <3>2. /\ m.payload = "series" <=> o.payload = "series"
              /\ m.payload # "series" => Seconds(m) = Seconds(o)
            BY <3>1 DEF Time
        <3>3. Clash(m, o)
            BY <2>2, <2>3, <3>2 DEF Clash
        <3>4. QED
            BY <1>1, <1>2, <3>3 DEF Exposed
    <2>4. CASE transformer # "senml"
        <3>1. m.created + i - 1 = o.created + j - 1
            BY <2>1, <2>4 DEF InfluxKey
        <3>2. /\ Records(m) \in Nat /\ Records(o) \in Nat
              /\ i \in Nat /\ 1 <= i /\ i <= Records(m) /\ j \in Nat /\ 1 <= j /\ j <= Records(o)
            BY RecordsOf
        <3>3. m.created < o.created + Records(o) /\ o.created < m.created + Records(m)
            BY <1>1, <3>1, <3>2
        <3>4. Clash(m, o)
            BY <2>2, <2>4, <3>3 DEF Clash
        <3>5. QED
            BY <1>1, <1>2, <3>4 DEF Exposed
    <2>5. QED
        BY <2>3, <2>4
<1>3. CASE db = "cassandra"
    BY <1>1, <1>3 DEF Key, CassandraKey
<1>4. CASE db # "influxdb" /\ db # "cassandra"
    BY <1>1, <1>4 DEF Key
<1>5. QED
    BY <1>2, <1>3, <1>4

LEMMA InitInv == Init => MessagingInv
BY DEF Init, MessagingInv, Types, SentNumbered, AllSent, OnePlace, Unseen, NoEcho, RowsOK,
       AllWhole, IsSent, SentIn, Databases

-----------------------------------------------------------------------------
(* What the deployment decides does not change.                            *)
LEMMA SameDeployment ==
    ASSUME UNCHANGED <<db, transformer>>
    PROVE  \A m : /\ Records(m)' = Records(m) /\ Storable(m)' = Storable(m)
                  /\ Table(m)' = Table(m)
                  /\ \A i : Key(m, i)' = Key(m, i)
                  /\ \A o : Clash(m, o)' = Clash(m, o)
<1>1. \A m : Records(m)' = Records(m) /\ Table(m)' = Table(m)
    BY DEF Records, Table
<1>2. \A m : Storable(m)' = Storable(m)
    BY <1>1 DEF Storable
<1>3. \A m, i : CassandraKey(m, i)' = CassandraKey(m, i) /\ InfluxKey(m, i)' = InfluxKey(m, i)
    BY DEF CassandraKey, InfluxKey
<1>4. \A m, i : Key(m, i)' = Key(m, i)
    BY <1>3 DEF Key
<1>5. \A m, o : Clash(m, o)' = Clash(m, o)
    BY <1>1 DEF Clash
<1>6. QED
    BY <1>1, <1>2, <1>4, <1>5

(* A step that leaves the rows alone, and after which the writer is done   *)
(* with no message that it was not done with before.                       *)
LEMMA RowsKept ==
    ASSUME RowsOK, AllWhole,
           UNCHANGED <<db, transformer, store>>,
           Range(sent) \subseteq Range(sent)',
           \A m \in Message : IsSent(m)' /\ Handled(m)' => IsSent(m) /\ Handled(m)
    PROVE  RowsOK' /\ AllWhole'
<1>1. RowsOK'
    BY SameDeployment DEF RowsOK
<1>2. AllWhole'
    <2> SUFFICES ASSUME NEW m \in Message, IsSent(m)', Handled(m)', ~Exposed(m)'
                 PROVE  Whole(m)'
        BY DEF AllWhole
    <2>1. Exposed(m) => Exposed(m)'
        BY SameDeployment DEF Exposed
    <2>2. Whole(m)
        BY <2>1 DEF AllWhole
    <2>3. QED
        BY <2>2, SameDeployment DEF Whole
<1>3. QED
    BY <1>1, <1>2

-----------------------------------------------------------------------------
(* A message is accepted, by whichever adapter.                            *)
LEMMA AcceptInv ==
    ASSUME MessagingInv, NEW th \in Things, NEW ch \in Channels,
           NEW q \in Requests, NEW t \in Times, Accept(th, ch, q, t),
           \/ q.protocol # "mqtt" /\ UNCHANGED mqtt
           \/ q.protocol = "mqtt" /\ mqtt' = [mqtt EXCEPT ![Len(sent) + 1] = @ + 1],
           UNCHANGED <<db, transformer, connected, bus, store, lost>>
    PROVE  MessagingInv'
<1> DEFINE n == Len(sent) + 1
           m == [n |-> n, protocol |-> q.protocol, channel |-> ch, publisher |-> th,
                 subtopic |-> ParseSubtopic(q.raw), payload |-> q.payload,
                 bad |-> Malformed(q.raw), created |-> t]
<1>1. Len(sent) \in Nat /\ n \in 1..MaxMsgs /\ sent \in Seq(Message)
    BY DEF Accept, MessagingInv, Types
<1>2. m \in Message /\ m.n = n /\ m.protocol = q.protocol
    <2>1. Malformed(q.raw) \in BOOLEAN
        BY DEF Malformed
    <2>2. q.protocol \in Protocols /\ q.raw \in Subtopics /\ q.payload \in Payloads
        BY RequestsAssumption
    <2>3. QED
        BY <1>1, <2>1, <2>2 DEF Message
<1>3. accepted' = accepted \cup {m} /\ sent' = Append(sent, m)
    BY DEF Accept
<1> HIDE DEF m
<1>4. /\ sent' \in Seq(Message)
      /\ Len(sent') = n
      /\ \A i \in 1..n : sent'[i] = IF i = n THEN m ELSE sent[i]
    BY <1>1, <1>2, <1>3
<1>5. \A o : IsSent(o) => SentIn(o, sent') /\ o.n # n
    BY <1>1, <1>4 DEF IsSent, SentIn
<1>6. SentIn(m, sent')
    BY <1>1, <1>2, <1>4 DEF SentIn
<1>7. \A o : IsSent(o) => o # m
    BY <1>2, <1>5
<1>8. \A o : SentIn(o, sent') => o = m \/ IsSent(o)
    BY <1>1, <1>4 DEF IsSent, SentIn
<1>9. Types'
  <2>1. /\ db' \in Databases /\ transformer' \in {"senml", "json"}
        /\ bus' \subseteq Copy /\ mqtt \in [1..MaxMsgs -> Nat]
      BY DEF MessagingInv, Types
  <2>2. mqtt' \in [1..MaxMsgs -> Nat]
    <3>1. CASE UNCHANGED mqtt
        BY <2>1, <3>1
    <3>2. CASE mqtt' = [mqtt EXCEPT ![n] = @ + 1]
      <4>1. mqtt[n] + 1 \in Nat
          BY <1>1, <2>1
      <4>2. QED
          BY <1>1, <2>1, <3>2, <4>1
    <3>3. QED
        BY <3>1, <3>2
  <2>3. accepted' \subseteq Message
      BY <1>2, <1>3 DEF MessagingInv, Types
  <2>4. Len(sent') <= MaxMsgs
      BY <1>1, <1>4
  <2>5. QED
      BY <1>4, <2>1, <2>2, <2>3, <2>4 DEF Types
<1>10. SentNumbered'
    BY <1>1, <1>2, <1>4 DEF MessagingInv, SentNumbered
<1>11. AllSent'
    <2>1. \A o \in accepted' : SentIn(o, sent')
        BY <1>3, <1>5, <1>6 DEF MessagingInv, AllSent
    <2>2. (\A c \in bus' : SentIn(c.msg, sent')) /\ \A r \in store' : SentIn(r.msg, sent')
        BY <1>5 DEF MessagingInv, AllSent
    <2>3. QED
        BY <2>1, <2>2 DEF AllSent, IsSent
<1>12. OnePlace'
    BY <1>3, <1>7 DEF MessagingInv, AllSent, OnePlace
<1>13. /\ mqtt[n] = 0 /\ mqtt'[n] \in {0, 1} /\ (q.protocol # "mqtt" => mqtt'[n] = 0)
       /\ \A i \in 1..MaxMsgs \ {n} : mqtt'[i] = mqtt[i]
    BY <1>1 DEF MessagingInv, Types, Unseen
<1>14. Unseen'
    <2>1. \A i \in 1..MaxMsgs : i > n => mqtt'[i] = 0
        BY <1>1, <1>13 DEF MessagingInv, Unseen
    <2>2. ASSUME NEW o \in accepted', o.protocol # "mqtt" PROVE mqtt'[o.n] = 0
        <3>1. CASE o = m
            BY <3>1, <2>2, <1>2, <1>13
        <3>2. CASE o # m
            <4>1. o \in accepted /\ IsSent(o)
                BY <3>2, <1>3 DEF MessagingInv, AllSent
            <4>2. o.n \in 1..MaxMsgs \ {n}
                BY <4>1, <1>1, <1>5 DEF IsSent, SentIn
            <4>3. QED
                BY <2>2, <4>1, <4>2, <1>13 DEF MessagingInv, Unseen
        <3>3. QED
            BY <3>1, <3>2
    <2>3. ASSUME NEW c \in bus, c.to = "mqtt", c.msg.protocol # "mqtt" PROVE mqtt'[c.msg.n] = 0
        <3>1. c.msg.n \in 1..MaxMsgs \ {n}
            BY <1>1, <1>5 DEF MessagingInv, AllSent, IsSent, SentIn
        <3>2. QED
            BY <2>3, <3>1, <1>13 DEF MessagingInv, Unseen
    <2>4. QED
        BY <1>4, <2>1, <2>2, <2>3 DEF Unseen
<1>15. NoEcho'
    BY <1>1, <1>13 DEF MessagingInv, NoEcho
<1>16. RowsOK' /\ AllWhole'
    <2>1. Range(sent) \subseteq Range(sent)'
        BY <1>1, <1>4 DEF Range
    <2>2. ASSUME NEW o \in Message, IsSent(o)', Handled(o)' PROVE IsSent(o) /\ Handled(o)
        <3>1. o # m
            BY <2>2, <1>3 DEF Handled
        <3>2. IsSent(o)
            BY <2>2, <3>1, <1>8 DEF IsSent
        <3>3. QED
            BY <2>2, <3>2, <1>3, SameDeployment DEF Handled
    <2>3. QED
        BY <2>1, <2>2, RowsKept DEF MessagingInv
<1>17. QED
    BY <1>9, <1>10, <1>11, <1>12, <1>14, <1>15, <1>16 DEF MessagingInv

(* The message leaves the adapter, for the bus or for good.                *)
LEMMA LeaveInv ==
    ASSUME MessagingInv, NEW m \in accepted,
           accepted' = accepted \ {m},
           bus' \in {bus, bus \cup Copies(m)},
           lost \subseteq lost',
           ToWriters(m) \in bus' \cup lost' \/ m.bad,
           UNCHANGED <<db, transformer, store, mqtt, sent>>
    PROVE  MessagingInv'
<1>1. m \in Message /\ IsSent(m)
    BY DEF MessagingInv, Types, AllSent
<1>2. \A c \in bus' : c \in bus \/ (c \in Copy /\ c.msg = m)
    BY <1>1 DEF Copies, Copy
<1>3. Types'
    BY <1>2 DEF MessagingInv, Types
<1>4. SentNumbered' /\ AllSent'
    BY <1>1, <1>2 DEF MessagingInv, SentNumbered, AllSent, IsSent
<1>5. OnePlace'
    BY <1>2 DEF MessagingInv, OnePlace
<1>6. Unseen'
    BY <1>2 DEF MessagingInv, Unseen
<1>7. NoEcho'
    BY DEF MessagingInv, NoEcho
<1>8. RowsOK' /\ AllWhole'
    <2>1. ASSUME NEW o \in Message, Handled(o)' PROVE Handled(o)
        <3>1. o # m
            BY <2>1 DEF Handled, ToWriters
        <3>2. bus \subseteq bus'
            OBVIOUS
        <3>3. QED
            BY <2>1, <3>1, <3>2, SameDeployment DEF Handled
    <2>2. QED
        BY <2>1, RowsKept DEF MessagingInv, IsSent, Range
<1>9. QED
    BY <1>3, <1>4, <1>5, <1>6, <1>7, <1>8 DEF MessagingInv

(* A copy leaves the bus, and nothing is stored.                           *)
LEMMA DropInv ==
    ASSUME MessagingInv, NEW c \in bus,
           bus' = bus \ {c},
           lost \subseteq lost',
           c \in lost' \/ c.to = "mqtt" \/ ~Storable(c.msg),
           UNCHANGED <<db, transformer, accepted, store, mqtt, sent>>
    PROVE  MessagingInv'
<1>1. Types' /\ SentNumbered' /\ AllSent'
    BY DEF MessagingInv, Types, SentNumbered, AllSent, IsSent
<1>2. OnePlace' /\ Unseen' /\ NoEcho'
    BY DEF MessagingInv, OnePlace, Unseen, NoEcho
<1>3. RowsOK' /\ AllWhole'
    <2>1. ASSUME NEW o \in Message, Handled(o)' PROVE Handled(o)
        <3>1. [to |-> "writers", msg |-> o] # c
            BY <2>1, SameDeployment DEF Handled
        <3>2. QED
            BY <2>1, <3>1, SameDeployment DEF Handled
    <2>2. QED
        BY <2>1, RowsKept DEF MessagingInv, IsSent, Range
<1>4. QED
    BY <1>1, <1>2, <1>3 DEF MessagingInv

LEMMA ForwardInv ==
    ASSUME MessagingInv, NEW c \in bus, Forward(c)
    PROVE  MessagingInv'
<1>1. CASE ~Forwards(c.msg)
    BY <1>1, DropInv DEF Forward
<1>2. CASE Forwards(c.msg)
    <2> DEFINE n == c.msg.n
    <2>1. /\ c \in Copy /\ c.to = "mqtt" /\ c.msg.protocol # "mqtt"
          /\ bus' = bus \ {c} /\ mqtt' = [mqtt EXCEPT ![n] = @ + 1]
          /\ UNCHANGED <<db, transformer, accepted, store, lost, sent>>
        BY <1>2 DEF Forward, Forwards, MessagingInv, Types
    <2>2. n \in 1..MaxMsgs /\ IsSent(c.msg) /\ mqtt[n] = 0
        BY <2>1 DEF MessagingInv, AllSent, Unseen, Copy, Message
    <2>3. mqtt'[n] = 1 /\ \A i \in 1..MaxMsgs \ {n} : mqtt'[i] = mqtt[i]
        BY <2>1, <2>2 DEF MessagingInv, Types
    <2>4. Types' /\ SentNumbered' /\ AllSent' /\ OnePlace'
        BY <2>1, <2>2 DEF MessagingInv, Types, SentNumbered, AllSent, IsSent, OnePlace
    <2>5. Unseen'
        <3>1. \A i \in 1..MaxMsgs : i > Len(sent) => i # n
            BY <2>2 DEF IsSent, SentIn
        <3>2. ASSUME NEW m \in accepted PROVE m.n # n /\ m.n \in 1..MaxMsgs
            <4>1. IsSent(m) /\ m # c.msg /\ m \in Message
                BY <3>2 DEF MessagingInv, AllSent, OnePlace, Types
            <4>2. m.n # n
                BY <2>2, <4>1 DEF IsSent, SentIn
            <4>3. QED
                BY <4>1, <4>2 DEF Message
        <3>3. ASSUME NEW d \in bus', d.to = "mqtt" PROVE d.msg.n # n /\ d.msg.n \in 1..MaxMsgs
            <4>1. d \in bus /\ d \in Copy /\ d # c /\ IsSent(d.msg)
                BY <2>1 DEF MessagingInv, Types, AllSent
            <4>2. d.msg # c.msg
                BY <2>1, <3>3, <4>1 DEF Copy
            <4>3. QED
                BY <2>2, <4>1, <4>2 DEF IsSent, SentIn, Copy, Message
        <3>4. QED
            BY <2>1, <2>3, <3>1, <3>2, <3>3 DEF MessagingInv, Unseen
    <2>6. NoEcho'
        BY <2>3 DEF MessagingInv, NoEcho
    <2>7. RowsOK' /\ AllWhole'
        <3>1. ASSUME NEW o \in Message, Handled(o)' PROVE Handled(o)
            BY <2>1, <3>1, SameDeployment DEF Handled
        <3>2. QED
            BY <2>1, <3>1, RowsKept DEF MessagingInv, IsSent, Range
    <2>8. QED
        BY <2>4, <2>5, <2>6, <2>7 DEF MessagingInv
<1>3. QED
    BY <1>1, <1>2

(* A writer stores the first k records of a message.                       *)
LEMMA StoreInv ==
    ASSUME MessagingInv, NEW c \in bus, c.to = "writers",
           NEW k \in 0..Records(c.msg),
           bus' = bus \ {c},
           store' = Upsert(store, c.msg, k),
           lost \subseteq lost',
           k < Records(c.msg) => c \in lost',
           UNCHANGED <<db, transformer, accepted, mqtt, sent>>
    PROVE  MessagingInv'
<1> DEFINE m == c.msg
<1>1. c \in Copy /\ m \in Message /\ IsSent(m) /\ c = ToWriters(m)
    BY DEF MessagingInv, Types, AllSent, Copy, ToWriters
<1>2. k \in Nat /\ Records(m) \in 0..2 /\ 1..k \subseteq 1..Records(m)
    BY RecordsOf
<1>3. \A r \in store' : \/ r \in store
                        \/ r.msg = m /\ r.i \in 1..Records(m) /\ r.key = Key(m, r.i)
    BY <1>2 DEF Upsert, Row
<1>4. \A r \in store : r \in store' \/ \E i \in 1..k : r.key = Key(m, i)
    BY DEF Upsert
<1>5. \A i \in 1..k : (\A j \in 1..Records(m) \ {i} : Key(m, j) # Key(m, i)) => Row(m, i) \in store'
    BY <1>2 DEF Upsert
<1>6. Types' /\ SentNumbered'
    BY DEF MessagingInv, Types, SentNumbered
<1>7. AllSent'
    BY <1>1, <1>3 DEF MessagingInv, AllSent, IsSent
<1>8. OnePlace' /\ Unseen' /\ NoEcho'
    BY DEF MessagingInv, OnePlace, Unseen, NoEcho
<1>9. RowsOK'
    <2>1. \A r \in store' : r.i \in 1..Records(r.msg) /\ r.key = Key(r.msg, r.i)
        BY <1>3 DEF MessagingInv, RowsOK
    <2>2. QED
        BY <2>1, SameDeployment DEF RowsOK
<1>10. AllWhole'
    <2> SUFFICES ASSUME NEW o \in Message, IsSent(o), Handled(o)', ~Exposed(o),
                        NEW i \in 1..Records(o)
                 PROVE  \E r \in store' : r.msg = o /\ r.i = i
        BY SameDeployment DEF AllWhole, Whole, Exposed, IsSent, Range
    <2>1. CASE o = m
        <3>1. k = Records(m)
            BY <1>1, <1>2, <2>1 DEF Handled, ToWriters
        <3>2. \A j \in 1..Records(m) \ {i} : Key(m, j) # Key(m, i)
            BY <1>1, <2>1, SharedWithin DEF MessagingInv
        <3>3. Row(m, i) \in store'
            BY <1>5, <2>1, <3>1, <3>2
        <3>4. QED
            BY <2>1, <3>3 DEF Row
    <2>2. CASE o # m
        <3>1. Handled(o)
            <4>1. ToWriters(o) # c
                BY <1>1, <2>2 DEF ToWriters
            <4>2. QED
                BY <4>1, SameDeployment DEF Handled, ToWriters
        <3>2. PICK r \in store : r.msg = o /\ r.i = i
            BY <3>1 DEF MessagingInv, AllWhole, Whole
        <3>3. r.key = Key(o, i)
            BY <3>2 DEF MessagingInv, RowsOK
        <3>4. \A j \in 1..Records(m) : Key(o, i) # Key(m, j)
            BY <1>1, <2>2, SharedBetween DEF MessagingInv
        <3>5. r \in store'
            BY <1>2, <1>4, <3>3, <3>4
        <3>6. QED
            BY <3>2, <3>5
    <2>3. QED
        BY <2>1, <2>2
<1>11. QED
    BY <1>6, <1>7, <1>8, <1>9, <1>10 DEF MessagingInv

(* Access says nothing about messages already accepted.                    *)
LEMMA IdleInv ==
    ASSUME MessagingInv,
           UNCHANGED <<db, transformer, accepted, bus, store, mqtt, lost, sent>>
    PROVE  MessagingInv'
<1>1. Types' /\ SentNumbered' /\ AllSent'
    BY DEF MessagingInv, Types, SentNumbered, AllSent, IsSent
<1>2. OnePlace' /\ Unseen' /\ NoEcho'
    BY DEF MessagingInv, OnePlace, Unseen, NoEcho
<1>3. RowsOK' /\ AllWhole'
    <2>1. ASSUME NEW o \in Message, Handled(o)' PROVE Handled(o)
        BY <2>1, SameDeployment DEF Handled
    <2>2. QED
        BY <2>1, RowsKept DEF MessagingInv, IsSent, Range
<1>4. QED
    BY <1>1, <1>2, <1>3 DEF MessagingInv

LEMMA NextInv == MessagingInv /\ [Next]_vars => MessagingInv'
<1> SUFFICES ASSUME MessagingInv, [Next]_vars PROVE MessagingInv'
    OBVIOUS
<1>1. ASSUME NEW th \in Things, NEW ch \in Channels, NEW q \in Requests, NEW t \in Times,
             \/ AcceptHTTP(th, ch, q, t) \/ AcceptCoAP(th, ch, q, t)
             \/ AuthPublish(th, ch, q, t)
      PROVE  MessagingInv'
    BY <1>1, AcceptInv DEF AcceptHTTP, AcceptCoAP, AuthPublish
<1>2. ASSUME NEW m \in accepted, Publish(m) \/ PublishHookDrops(m) \/ PublishFails(m)
      PROVE  MessagingInv'
    BY <1>2, LeaveInv DEF Publish, PublishHookDrops, PublishFails, Copies, ToWriters
<1>3. ASSUME NEW c \in bus, Refuse(c) \/ LoseCopy(c)
      PROVE  MessagingInv'
    BY <1>3, DropInv DEF Refuse, LoseCopy
<1>4. ASSUME NEW c \in bus, Save(c)
      PROVE  MessagingInv'
    <2>1. Records(c.msg) \in 0..Records(c.msg) /\ ~(Records(c.msg) < Records(c.msg))
        BY RecordsOf
    <2>2. QED
        BY <1>4, <2>1, StoreInv DEF Save
<1>5. ASSUME NEW c \in bus, SaveFails(c)
      PROVE  MessagingInv'
    <2>1. PICK k \in Stops(c.msg) : store' = Upsert(store, c.msg, k)
        BY <1>5 DEF SaveFails
    <2>2. k \in 0..Records(c.msg)
        BY RecordsOf DEF Stops
    <2>3. QED
        BY <1>5, <2>1, <2>2, StoreInv DEF SaveFails
<1>6. ASSUME NEW th \in Things, NEW ch \in Channels, Connect(th, ch) \/ Withdraw(th, ch)
      PROVE  MessagingInv'
    BY <1>6, IdleInv DEF Connect, Withdraw
<1>7. CASE UNCHANGED vars
    BY <1>7, IdleInv DEF vars
<1>8. QED
    BY <1>1, <1>2, <1>3, <1>4, <1>5, <1>6, <1>7, ForwardInv DEF Next, Handle

-----------------------------------------------------------------------------
(* The MQTT broker never gets a message twice, whichever adapter took it   *)
(* and however copies are reordered or lost (mqtt/forwarder.go).           *)
THEOREM NeverEchoed == Spec => []NoEcho
<1>1. MessagingInv => NoEcho
    BY DEF MessagingInv
<1>2. QED
    BY InitInv, NextInv, <1>1, PTL DEF Spec

(* What a writer saved without an error is in the table with all its       *)
(* records, and stays there whatever is saved later or fails half-way,     *)
(* unless two records have one key: by the id of a pack, the names and     *)
(* times of its records or the clocks of the adapters (the Save of the     *)
(* writers).                                                               *)
THEOREM PacksStayWhole == Spec => []PacksWhole
<1>1. MessagingInv => PacksWhole
    <2> SUFFICES ASSUME MessagingInv, NEW m \in Range(sent), Handled(m), ~Exposed(m)
                 PROVE  Whole(m)
        BY DEF PacksWhole, Whole
    <2>1. m \in Message /\ IsSent(m)
        BY DEF MessagingInv, Types, SentNumbered, Range, IsSent, SentIn
    <2>2. QED
        BY <2>1 DEF MessagingInv, AllWhole
<1>2. QED
    BY InitInv, NextInv, <1>1, PTL DEF Spec

(***************************************************************************)
(* The observers of the CoAP adapter, for any clients, subjects and tokens *)
(* and any number of observers.                                            *)
(***************************************************************************)
Places == Subjects \X Tokens

(* An observer is stored under its own subject and token, and is not about *)
(* to be stored again: so whoever put or remove takes out of the map is in *)
(* one place of it only, and is no other call's.                           *)
StoredInPlace ==
    \A p \in Places : observers[p] # NoObserver =>
        /\ p = <<observers[p].subject, observers[p].token>>
        /\ observers[p] \notin pending

(* Observers are numbered as they are made, so that a new one is new.      *)
NumbersUsed == \A o \in subs : o.n <= made

(* The goroutine of a stored observer has still to run, whether the client *)
(* is gone or not, unless it had run before put.                           *)
StoredWatched ==
    \A p \in Places : observers[p] # NoObserver => observers[p] \in late \cup watchers

CoapInv ==
    /\ CoapTypeOK
    /\ StoredInPlace
    /\ NumbersUsed
    /\ SubscriptionsAccounted
    /\ StoredWatched

-----------------------------------------------------------------------------
LEMMA CoapInitInv == CoapInit => CoapInv
BY CoapAssumption
   DEF CoapInit, CoapInv, CoapTypeOK, StoredInPlace, NumbersUsed, SubscriptionsAccounted,
       StoredWatched, Places, Observer

(* The new observer of a call of Subscribe.                                *)
LEMMA NewObserver ==
    ASSUME CoapInv, NEW c \in Conns, NEW s \in Subjects, NEW t \in Tokens, made < MaxObs
    PROVE  LET o == [n |-> made + 1, conn |-> c, subject |-> s, token |-> t]
           IN  o \in Observer /\ o \notin subs
BY CoapAssumption DEF CoapInv, CoapTypeOK, NumbersUsed, Observer

LEMMA SubscribeInv ==
    ASSUME CoapInv, NEW c \in Conns, NEW s \in Subjects, NEW t \in Tokens,
           Subscribe(c, s, t)
    PROVE  CoapInv'
<1> DEFINE o == [n |-> made + 1, conn |-> c, subject |-> s, token |-> t]
<1>1. o \in Observer /\ o \notin subs /\ o.n = made + 1
    BY NewObserver DEF Subscribe
<1>2. /\ subs' = subs \cup {o} /\ pending' = pending \cup {o}
      /\ watchers' = watchers \cup {o} /\ made' = made + 1 /\ made < MaxObs
      /\ UNCHANGED <<open, observers, late>>
    BY DEF Subscribe
<1> HIDE DEF o
<1>3. CoapTypeOK'
    BY <1>1, <1>2, CoapAssumption DEF CoapInv, CoapTypeOK
<1>4. StoredInPlace'
    BY <1>1, <1>2 DEF CoapInv, StoredInPlace, SubscriptionsAccounted, Places
<1>5. NumbersUsed'
    BY <1>1, <1>2 DEF CoapInv, CoapTypeOK, NumbersUsed, Observer
<1>6. SubscriptionsAccounted'
    BY <1>2 DEF CoapInv, SubscriptionsAccounted
<1>7. StoredWatched'
    BY <1>2 DEF CoapInv, StoredWatched
<1>8. QED
    BY <1>3, <1>4, <1>5, <1>6, <1>7 DEF CoapInv

LEMMA SubscribeFailsInv ==
    ASSUME CoapInv, NEW c \in Conns, NEW s \in Subjects, NEW t \in Tokens,
           SubscribeFails(c, s, t)
    PROVE  CoapInv'
<1> DEFINE o == [n |-> made + 1, conn |-> c, subject |-> s, token |-> t]
<1>1. o \in Observer
    BY NewObserver DEF SubscribeFails
<1>2. /\ watchers' = watchers \cup {o} /\ made' = made + 1 /\ made < MaxObs
      /\ open' = open \ {c}
      /\ UNCHANGED <<observers, subs, pending, late>>
    BY DEF SubscribeFails
<1> HIDE DEF o
<1>3. CoapTypeOK'
    BY <1>1, <1>2, CoapAssumption DEF CoapInv, CoapTypeOK
<1>4. NumbersUsed'
    BY <1>2 DEF CoapInv, CoapTypeOK, NumbersUsed, Observer
<1>5. QED
    BY <1>2, <1>3, <1>4
       DEF CoapInv, StoredInPlace, SubscriptionsAccounted, StoredWatched

LEMMA PutInv ==
    ASSUME CoapInv, NEW o \in pending, Put(o)
    PROVE  CoapInv'
<1> DEFINE here == <<o.subject, o.token>>
           old == observers[here]
<1>1. o \in Observer /\ o \in subs /\ here \in Places /\ o # NoObserver
    BY CoapAssumption
       DEF CoapInv, CoapTypeOK, SubscriptionsAccounted, Observer, Places
<1>2. /\ pending' = pending \ {o}
      /\ observers' = [observers EXCEPT ![here] = o]
      /\ subs' = subs \ Cancelled(old)
      /\ open' = open \ Closed(old)
      /\ late' = IF o \in watchers THEN late ELSE late \cup {o}
      /\ UNCHANGED <<watchers, made>>
    BY DEF Put
<1>3. observers \in [Places -> Observer \cup {NoObserver}] /\ old \in Observer \cup {NoObserver}
    BY <1>1 DEF CoapInv, CoapTypeOK, Places
<1>4. \A p \in Places : observers'[p] = IF p = here THEN o ELSE observers[p]
    BY <1>2, <1>3
<1>5. here = <<o.subject, o.token>>
    OBVIOUS
<1>6. Cancelled(old) = {old} \ {NoObserver}
    BY DEF Cancelled
<1> HIDE DEF here, old
<1>7. CoapTypeOK'
    BY <1>1, <1>2, <1>3 DEF CoapInv, CoapTypeOK, Places
<1>8. StoredInPlace'
    BY <1>1, <1>2, <1>4, <1>5 DEF CoapInv, StoredInPlace
<1>9. NumbersUsed'
    BY <1>2 DEF CoapInv, NumbersUsed
<1>10. SubscriptionsAccounted'
    <2>1. subs = pending \cup {observers[p] : p \in {q \in Places : observers[q] # NoObserver}}
        BY DEF CoapInv, SubscriptionsAccounted, Places
    <2>2. \A p \in Places \ {here} : observers[p] # NoObserver => observers[p] # old
        BY <1>1 DEF CoapInv, StoredInPlace, old
    <2>3. old # NoObserver => old \notin pending
        BY <1>1 DEF CoapInv, StoredInPlace, old
    <2>4. ASSUME NEW x \in subs'
          PROVE  x \in pending' \/ \E p \in Places : observers'[p] # NoObserver /\ observers'[p] = x
        <3>1. x \in subs /\ (x = old => x = NoObserver)
            BY <2>4, <1>2, <1>6
        <3>2. CASE x \in pending
            BY <3>2, <1>1, <1>2, <1>4
        <3>3. CASE x \notin pending
            <4>1. PICK p \in Places : observers[p] # NoObserver /\ observers[p] = x
                BY <3>1, <3>3, <2>1
            <4>2. p # here
                BY <4>1, <3>1 DEF old
            <4>3. QED
                BY <4>1, <4>2, <1>4
        <3>4. QED
            BY <3>2, <3>3
    <2>5. pending' \subseteq subs'
        BY <1>2, <1>6, <2>1, <2>3
    <2>6. ASSUME NEW p \in Places, observers'[p] # NoObserver
          PROVE  observers'[p] \in subs'
        <3>1. CASE p = here
            BY <3>1, <1>1, <1>2, <1>4, <1>6, <2>3
        <3>2. CASE p # here
            BY <3>2, <2>6, <1>2, <1>4, <1>6, <2>1, <2>2
        <3>3. QED
            BY <3>1, <3>2
    <2>7. QED
        BY <2>4, <2>5, <2>6 DEF SubscriptionsAccounted, Places
<1>11. StoredWatched'
    BY <1>2, <1>4 DEF CoapInv, StoredWatched
<1>12. QED
    BY <1>7, <1>8, <1>9, <1>10, <1>11 DEF CoapInv

(* remove, by whomever it is called.                                       *)
LEMMA RemoveInv ==
    ASSUME CoapInv, NEW s \in Subjects, NEW t \in Tokens, Remove(s, t)
    PROVE  LET there == <<s, t>> IN
           /\ observers' \in [Places -> Observer \cup {NoObserver}]
           /\ \A p \in Places : observers'[p] = IF p = there THEN NoObserver ELSE observers[p]
           /\ open' \subseteq Conns /\ subs' \subseteq subs
           /\ subs' = pending \cup {observers'[p] : p \in {q \in Places : observers'[q] # NoObserver}}
<1> DEFINE there == <<s, t>>
           old == observers[there]
<1>1. /\ observers' = [observers EXCEPT ![there] = NoObserver]
      /\ subs' = subs \ Cancelled(old)
      /\ open' = open \ Closed(old)
    BY DEF Remove
<1>2. observers \in [Places -> Observer \cup {NoObserver}] /\ there \in Places
    BY DEF CoapInv, CoapTypeOK, Places
<1>3. \A p \in Places : observers'[p] = IF p = there THEN NoObserver ELSE observers[p]
    BY <1>1, <1>2
<1>4. observers' \in [Places -> Observer \cup {NoObserver}]
    BY <1>1, <1>2
<1>5. Cancelled(old) = {old} \ {NoObserver}
    BY DEF Cancelled
<1> HIDE DEF there
<1>6. subs = pending \cup {observers[p] : p \in {q \in Places : observers[q] # NoObserver}}
    BY DEF CoapInv, SubscriptionsAccounted, Places
<1>7. \A p \in Places \ {there} : observers[p] # NoObserver => observers[p] # old
    BY <1>2 DEF CoapInv, StoredInPlace
<1>8. old # NoObserver => old \notin pending
    BY <1>2 DEF CoapInv, StoredInPlace
<1>9. subs' = pending \cup {observers'[p] : p \in {q \in Places : observers'[q] # NoObserver}}
    <2>1. NoObserver \notin pending
        BY CoapAssumption DEF CoapInv, CoapTypeOK
    <2>2. \A p \in Places : observers'[p] # NoObserver => observers'[p] \in subs'
        BY <1>1, <1>3, <1>5, <1>6, <1>7
    <2>3. pending \subseteq subs'
        BY <1>1, <1>5, <1>6, <1>8
    <2>4. ASSUME NEW x \in subs', x \notin pending
          PROVE  \E p \in Places : observers'[p] # NoObserver /\ observers'[p] = x
        <3>1. PICK p \in Places : observers[p] # NoObserver /\ observers[p] = x
            BY <2>4, <1>1, <1>6
        <3>2. p # there
            BY <3>1, <2>4, <1>1, <1>5
        <3>3. QED
            BY <3>1, <3>2, <1>3
    <2>5. QED
        BY <2>2, <2>3, <2>4
<1>10. open' \subseteq Conns /\ subs' \subseteq subs
    BY <1>1 DEF CoapInv, CoapTypeOK
<1>11. QED
    BY <1>3, <1>4, <1>9, <1>10 DEF there

LEMMA WatchInv ==
    ASSUME CoapInv, NEW w \in watchers, Watch(w)
    PROVE  CoapInv'
<1> DEFINE there == <<w.subject, w.token>>
<1>1. w.subject \in Subjects /\ w.token \in Tokens
    BY DEF CoapInv, CoapTypeOK, Observer
<1>2. /\ Remove(w.subject, w.token)
      /\ watchers' = watchers \ {w} /\ UNCHANGED <<pending, made, late>>
    BY DEF Watch
<1>3. /\ observers' \in [Places -> Observer \cup {NoObserver}]
      /\ \A p \in Places : observers'[p] = IF p = there THEN NoObserver ELSE observers[p]
      /\ open' \subseteq Conns /\ subs' \subseteq subs
      /\ subs' = pending \cup {observers'[p] : p \in {q \in Places : observers'[q] # NoObserver}}
    BY <1>1, <1>2, RemoveInv
<1>4. there = <<w.subject, w.token>>
    OBVIOUS
<1> HIDE DEF there
<1>5. StoredWatched'
    BY <1>2, <1>3, <1>4 DEF CoapInv, StoredWatched, StoredInPlace
<1>6. StoredInPlace'
    BY <1>2, <1>3 DEF CoapInv, StoredInPlace
<1>7. CoapTypeOK' /\ NumbersUsed' /\ SubscriptionsAccounted'
    BY <1>2, <1>3 DEF CoapInv, CoapTypeOK, NumbersUsed, SubscriptionsAccounted, Places
<1>8. QED
    BY <1>5, <1>6, <1>7 DEF CoapInv

LEMMA UnsubscribeInv ==
    ASSUME CoapInv, NEW c \in Conns, NEW s \in Subjects, NEW t \in Tokens,
           Unsubscribe(c, s, t)
    PROVE  CoapInv'
<1> DEFINE there == <<s, t>>
<1>1. Remove(s, t) /\ UNCHANGED <<pending, watchers, made, late>>
    BY DEF Unsubscribe
<1>2. /\ observers' \in [Places -> Observer \cup {NoObserver}]
      /\ \A p \in Places : observers'[p] = IF p = there THEN NoObserver ELSE observers[p]
      /\ open' \subseteq Conns /\ subs' \subseteq subs
      /\ subs' = pending \cup {observers'[p] : p \in {q \in Places : observers'[q] # NoObserver}}
    BY <1>1, RemoveInv
<1> HIDE DEF there
<1>3. StoredInPlace' /\ StoredWatched'
    BY <1>1, <1>2 DEF CoapInv, StoredInPlace, StoredWatched
<1>4. CoapTypeOK' /\ NumbersUsed' /\ SubscriptionsAccounted'
    BY <1>1, <1>2 DEF CoapInv, CoapTypeOK, NumbersUsed, SubscriptionsAccounted, Places
<1>5. QED
    BY <1>3, <1>4 DEF CoapInv

LEMMA CoapNextInv == CoapInv /\ [CoapNext]_coapVars => CoapInv'
<1> SUFFICES ASSUME CoapInv, [CoapNext]_coapVars PROVE CoapInv'
    OBVIOUS
<1>1. ASSUME NEW c \in Conns, Disconnect(c) PROVE CoapInv'
    BY <1>1 DEF Disconnect, CoapInv, CoapTypeOK, StoredInPlace, NumbersUsed,
                SubscriptionsAccounted, StoredWatched
<1>2. CASE UNCHANGED coapVars
    BY <1>2 DEF coapVars, CoapInv, CoapTypeOK, StoredInPlace, NumbersUsed,
                SubscriptionsAccounted, StoredWatched
<1>3. QED
    BY <1>1, <1>2, SubscribeInv, SubscribeFailsInv, UnsubscribeInv, PutInv, WatchInv
       DEF CoapNext

-----------------------------------------------------------------------------
(* The adapter keeps track of every NATS subscription: in every            *)
(* interleaving each one is held by an observer that is stored or still    *)
(* being put (put and remove in coap/adapter.go).                          *)
THEOREM SubscriptionsTracked == CoapSpec => []SubscriptionsAccounted
<1>1. CoapInv => SubscriptionsAccounted
    BY DEF CoapInv
<1>2. QED
    BY CoapInitInv, CoapNextInv, <1>1, PTL DEF CoapSpec

(* The observer of a client that is gone is waited for, unless it was put  *)
(* too late (Subscribe in coap/adapter.go).                                *)
THEOREM GoneClientsAwaited == CoapSpec => []GoneClientsWatched
<1>1. CoapInv => GoneClientsWatched
    BY DEF CoapInv, StoredWatched, GoneClientsWatched, Places
<1>2. QED
    BY CoapInitInv, CoapNextInv, <1>1, PTL DEF CoapSpec
=============================================================================
