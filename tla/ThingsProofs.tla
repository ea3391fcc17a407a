---------------------------- MODULE ThingsProofs ----------------------------
(***************************************************************************)
(* Proofs about the things service, for any number of things, channels,    *)
(* keys, users and concurrent requests.                                    *)
(***************************************************************************)
EXTENDS Things, TLAPS

-----------------------------------------------------------------------------
(* The database.                                                           *)

\* An id that has a row was issued.
RowsIssued ==
    /\ \A t \in ThingIDs : ThingExists(t) => t \in issued
    /\ \A c \in ChannelIDs : ChannelExists(c) => c \in issued

StoreInv == StoreTypeOK /\ RowsIssued /\ StoreIntegrity

LEMMA StoreInitInv == StoreInit => StoreInv
BY StoreAssumption
   DEF StoreInit, StoreInv, StoreTypeOK, RowsIssued, StoreIntegrity,
       ThingExists, ChannelExists

LEMMA StoreNextInv == StoreInv /\ [StoreNext]_storeVars => StoreInv'
<1> SUFFICES ASSUME StoreInv, [StoreNext]_storeVars PROVE StoreInv'
    OBVIOUS
<1> USE StoreAssumption
    DEF StoreInv, StoreTypeOK, RowsIssued, StoreIntegrity, ThingExists, ChannelExists
<1>1. ASSUME NEW o \in Owners, NEW S \in SUBSET ThingIDs, NEW ks \in [S -> Keys],
             SaveThings(o, S, ks)
      PROVE  StoreInv'
    BY <1>1 DEF SaveThings, Holders
<1>2. ASSUME NEW o \in Owners, NEW t \in ThingIDs, NEW k \in Keys,
             UpdateThingKey(o, t, k)
      PROVE  StoreInv'
    BY <1>2 DEF UpdateThingKey, Holders
<1>3. ASSUME NEW o \in Owners, NEW t \in ThingIDs, DeleteThing(o, t)
      PROVE  StoreInv'
    BY <1>3 DEF DeleteThing
<1>4. ASSUME NEW o \in Owners, NEW S \in SUBSET ChannelIDs, SaveChannels(o, S)
      PROVE  StoreInv'
    BY <1>4 DEF SaveChannels
<1>5. ASSUME NEW o \in Owners, NEW c \in ChannelIDs, DeleteChannel(o, c)
      PROVE  StoreInv'
    BY <1>5 DEF DeleteChannel
<1>6. ASSUME NEW o \in Owners, NEW C \in SUBSET ChannelIDs,
             NEW T \in SUBSET ThingIDs, InsertConnections(o, C, T)
      PROVE  StoreInv'
    BY <1>6 DEF InsertConnections, Connectable
<1>7. ASSUME NEW o \in Owners, NEW c \in ChannelIDs, NEW t \in ThingIDs,
             DeleteConnection(o, c, t)
      PROVE  StoreInv'
    BY <1>7 DEF DeleteConnection
<1>8. CASE UNCHANGED storeVars
    BY <1>8 DEF storeVars
<1>9. QED
    BY <1>1, <1>2, <1>3, <1>4, <1>5, <1>6, <1>7, <1>8 DEF StoreNext

-----------------------------------------------------------------------------
(* The service only ever issues the statements of the database.            *)

\* A request holds the arguments that its next call needs.
Shape ==
    \A p \in Proc :
        LET r == req[p] IN
        /\ r.pc \in {"rt_get", "rt_del", "rt_db", "dc_srem", "dc_db",
                     "rc_del", "rc_db"} => r.own \in Owners
        /\ r.pc \in {"rt_get", "rt_del", "rt_db", "dc_srem", "dc_db", "ak_sismember",
                     "ak_dbconn", "ak_setkey", "ak_setid", "ak_sadd",
                     "ai_sismember", "ai_db", "ai_sadd", "id_setkey", "id_setid",
                     "granted", "identified"} => r.th \in ThingIDs
        /\ r.pc \in {"dc_srem", "dc_db", "rc_del", "rc_db", "ak_get",
                     "ak_sismember", "ak_dbkey", "ak_dbconn", "ak_setkey",
                     "ak_setid", "ak_sadd", "ai_sismember", "ai_db", "ai_sadd",
                     "granted"} => r.ch \in ChannelIDs
        /\ r.pc \in {"rt_del", "ak_get", "ak_sismember", "ak_dbkey", "ak_dbconn",
                     "ak_setkey", "ak_setid", "ak_sadd", "id_get", "id_db",
                     "id_setkey", "id_setid", "identified"} => r.key \in Keys
        /\ r.pc \in {"ai_sismember", "ai_db", "ai_sadd"} => r.key = None

\* A step of a request that leaves the database alone.
LEMMA StoreSteps ==
    ASSUME TypeOK, Shape, [Next]_vars
    PROVE  [StoreNext]_storeVars
<1>1. CASE CreateThings
    BY <1>1 DEF CreateThings, StoreNext
<1>2. CASE UpdateKey
    BY <1>2 DEF UpdateKey, StoreNext
<1>3. CASE CreateChannels
    BY <1>3 DEF CreateChannels, StoreNext
<1>4. CASE Connect
    BY <1>4 DEF Connect, StoreNext
<1>5. ASSUME NEW p \in Proc, Arrivals(p)
      PROVE  [StoreNext]_storeVars
    BY <1>5 DEF Arrivals, RemoveThing, RemoveChannel, Disconnect, CanAccessByKey,
                CanAccessByID, Identify, Arrive
<1>6. ASSUME NEW p \in Proc, Step(p)
      PROVE  [StoreNext]_storeVars
    <2>1. CASE RemoveThingDB(p)
        BY <2>1 DEF RemoveThingDB, StoreNext, Shape
    <2>2. CASE RemoveChannelDB(p)
        BY <2>2 DEF RemoveChannelDB, StoreNext, Shape
    <2>3. CASE DisconnectDB(p)
        BY <2>3 DEF DisconnectDB, StoreNext, Shape
    <2>4. CASE \/ RemoveThingGet(p) \/ RemoveThingDel(p) \/ RemoveChannelDel(p)
               \/ DisconnectSRem(p) \/ Reply(p)
        BY <2>4 DEF RemoveThingGet, RemoveThingDel, RemoveChannelDel,
                    DisconnectSRem, Reply
    <2>5. CASE CanAccessByKeySteps(p) \/ CanAccessByIDSteps(p) \/ IdentifySteps(p)
        BY <2>5 DEF CanAccessByKeySteps, CanAccessByIDSteps, IdentifySteps,
                    CacheID, CacheHasThing, HasConnection, LookupKey, SaveKey,
                    SaveID, CacheConnect
    <2>6. QED
        BY <1>6, <2>1, <2>2, <2>3, <2>4, <2>5 DEF Step
<1>7. ASSUME NEW p \in Proc, Fail(p)
      PROVE  [StoreNext]_storeVars
    BY <1>7 DEF Fail
<1>8. CASE Crash
    BY <1>8 DEF Crash
<1>9. CASE UNCHANGED vars
    BY <1>9 DEF vars
<1>10. QED
    BY <1>1, <1>2, <1>3, <1>4, <1>5, <1>6, <1>7, <1>8, <1>9 DEF Next, Actions

-----------------------------------------------------------------------------
(* Types, and the arguments of requests.                                   *)

LEMMA InitType == Init => TypeOK /\ Shape
BY StoreInitInv
   DEF Init, TypeOK, Shape, StoreInv, Idle, Request, PCs

LEMMA RecordType ==
    ASSUME StoreTypeOK', everKey \subseteq Keys \X ThingIDs,
           everConnected \subseteq ChannelIDs \X ThingIDs,
           Record \/ UNCHANGED historyVars
    PROVE  /\ everKey' \subseteq Keys \X ThingIDs
           /\ everConnected' \subseteq ChannelIDs \X ThingIDs
BY DEF Record, historyVars, StoreTypeOK

LEMMA NextType ==
    ASSUME TypeOK, Shape, StoreTypeOK', [Next]_vars
    PROVE  TypeOK' /\ Shape'
<1>0. raced' \subseteq ChannelIDs \X ThingIDs
    BY DEF Next, Recorded, vars, TypeOK
<1> USE <1>0 DEF TypeOK, cacheVars, PCs
<1>1. CASE CreateThings \/ UpdateKey \/ CreateChannels \/ Connect
    BY <1>1, RecordType DEF CreateThings, UpdateKey, CreateChannels, Connect, Shape
<1>2. ASSUME NEW p \in Proc, Arrivals(p)
      PROVE  TypeOK' /\ Shape'
    BY <1>2 DEF Arrivals, RemoveThing, RemoveChannel, Disconnect, CanAccessByKey,
                CanAccessByID, Identify, Arrive, Request, historyVars, Shape
<1>3. ASSUME NEW p \in Proc, Step(p)
      PROVE  TypeOK' /\ Shape'
    <2>1. CASE RemoveThingGet(p)
        <3>1. CASE Goto(p, "rt_db")
            BY <2>1, <3>1 DEF RemoveThingGet, Goto, historyVars, Shape
        <3>2. CASE req' = [req EXCEPT ![p] =
                              Request("rt_del", @.own, None, req[p].th, idCache[req[p].th])]
            <4>1. idCache[req[p].th] \in Keys \cup {None}
                BY <2>1 DEF RemoveThingGet, Shape
            <4>2. CASE idCache[req[p].th] \in Keys
                BY <2>1, <3>2, <4>2 DEF RemoveThingGet, Request, historyVars, Shape
            <4>3. CASE idCache[req[p].th] = None
                BY <2>1, <3>1, <4>3 DEF RemoveThingGet
            <4>4. QED
                BY <4>1, <4>2, <4>3
        <3>3. QED
            BY <2>1, <3>1, <3>2 DEF RemoveThingGet
    <2>2. CASE RemoveThingDel(p)
        BY <2>2 DEF RemoveThingDel, Goto, historyVars, Shape
    <2>3. CASE RemoveThingDB(p) \/ RemoveChannelDB(p) \/ DisconnectDB(p)
        BY <2>3, RecordType DEF RemoveThingDB, RemoveChannelDB, DisconnectDB,
            Return, Idle, Request, Shape
    <2>4. CASE RemoveChannelDel(p) \/ DisconnectSRem(p)
        BY <2>4 DEF RemoveChannelDel, DisconnectSRem, Goto, historyVars, Shape
    <2>5. CASE CanAccessByKeySteps(p)
        <3>1. CASE CacheID(p, "ak_get", "ak_sismember", "ak_dbkey")
            BY <3>1 DEF CacheID, Goto, historyVars, Shape
        <3>2. CASE CacheHasThing(p, "ak_sismember", "ak_dbkey")
            BY <3>2 DEF CacheHasThing, Goto, historyVars, Shape
        <3>3. CASE LookupKey(p, "ak_dbkey", "ak_dbconn")
            BY <3>3 DEF LookupKey, Holders, Return, Idle, Request, historyVars, Shape
        <3>4. CASE HasConnection(p, "ak_dbconn", "ak_setkey")
            <4>1. CASE req' = [req EXCEPT ![p].pc = "ak_setkey"]
                BY <3>4, <4>1 DEF HasConnection, historyVars, Shape
            <4>2. CASE Return(p)
                BY <3>4, <4>2 DEF HasConnection, Return, Idle, Request, historyVars, Shape
            <4>3. QED
                BY <3>4, <4>1, <4>2 DEF HasConnection, Goto
        <3>5. CASE SaveKey(p, "ak_setkey", "ak_setid")
            BY <3>5 DEF SaveKey, Goto, historyVars, Shape
        <3>6. CASE SaveID(p, "ak_setid", "ak_sadd")
            BY <3>6 DEF SaveID, Goto, historyVars, Shape
        <3>7. CASE CacheConnect(p, "ak_sadd")
            BY <3>7 DEF CacheConnect, Goto, historyVars, Shape
        <3>8. QED
            BY <2>5, <3>1, <3>2, <3>3, <3>4, <3>5, <3>6, <3>7 DEF CanAccessByKeySteps
    <2>6. CASE CanAccessByIDSteps(p)
        <3>1. CASE CacheHasThing(p, "ai_sismember", "ai_db")
            BY <3>1 DEF CacheHasThing, Goto, historyVars, Shape
        <3>2. CASE HasConnection(p, "ai_db", "ai_sadd")
            <4>1. CASE req' = [req EXCEPT ![p].pc = "ai_sadd"]
                BY <3>2, <4>1 DEF HasConnection, historyVars, Shape
            <4>2. CASE Return(p)
                BY <3>2, <4>2 DEF HasConnection, Return, Idle, Request, historyVars, Shape
            <4>3. QED
                BY <3>2, <4>1, <4>2 DEF HasConnection, Goto
        <3>3. CASE CacheConnect(p, "ai_sadd")
            BY <3>3 DEF CacheConnect, Goto, historyVars, Shape
        <3>4. QED
            BY <2>6, <3>1, <3>2, <3>3 DEF CanAccessByIDSteps
    <2>7. CASE IdentifySteps(p)
        <3>1. CASE CacheID(p, "id_get", "identified", "id_db")
            BY <3>1, SMTT(30) DEF CacheID, Goto, historyVars, Shape
        <3>2. CASE LookupKey(p, "id_db", "id_setkey")
            BY <3>2 DEF LookupKey, Holders, Return, Idle, Request, historyVars, Shape
        <3>3. CASE SaveKey(p, "id_setkey", "id_setid")
            BY <3>3 DEF SaveKey, Goto, historyVars, Shape
        <3>4. CASE SaveID(p, "id_setid", "identified")
            BY <3>4 DEF SaveID, Goto, historyVars, Shape
        <3>5. QED
            BY <2>7, <3>1, <3>2, <3>3, <3>4 DEF IdentifySteps
    <2>8. CASE Reply(p)
        BY <2>8 DEF Reply, Return, Idle, Request, historyVars, Shape
    <2>9. QED
        BY <1>3, <2>1, <2>2, <2>3, <2>4, <2>5, <2>6, <2>7, <2>8 DEF Step
<1>4. ASSUME NEW p \in Proc, Fail(p)
      PROVE  TypeOK' /\ Shape'
    BY <1>4 DEF Fail, Return, Idle, Request, historyVars, Shape
<1>5. CASE Crash
    BY <1>5 DEF Crash, Idle, Request, historyVars, Shape
<1>6. CASE UNCHANGED vars
    BY <1>6 DEF vars, historyVars, Shape
<1>7. QED
    BY <1>1, <1>2, <1>3, <1>4, <1>5, <1>6 DEF Next, Actions

ServiceInv == TypeOK /\ Shape /\ StoreInv

LEMMA ServiceInvInit == Init => ServiceInv
BY InitType, StoreInitInv DEF Init, ServiceInv

LEMMA ServiceInvNext == ServiceInv /\ [Next]_vars => ServiceInv'
BY StoreSteps, StoreNextInv, NextType DEF ServiceInv, StoreInv

\* The state of the service is well formed, and so is the database: no
\* request makes a call without the arguments the call needs, connections
\* never dangle or cross users, keys stay unique.
THEOREM TypesAndIntegrity == Spec => [](TypeOK /\ StoreIntegrity)
<1>1. ServiceInv => TypeOK /\ StoreIntegrity
    BY DEF ServiceInv, StoreInv
<1>2. QED
    BY <1>1, ServiceInvInit, ServiceInvNext, PTL DEF Spec

-----------------------------------------------------------------------------
(* Provenance.  What the caches hold comes out of requests in progress, so  *)
(* the invariant has to speak about the ids and keys those carry.          *)

RowsRecorded ==
    /\ \A t \in ThingIDs : thingKey[t] # None => <<thingKey[t], t>> \in everKey
    /\ connections \subseteq everConnected

\* What a request r carries, against the recorded keys ek and connections ec.
Carried(r, ek, ec) ==
    /\ r.pc \in {"ak_sismember", "ak_dbconn", "ak_setkey", "ak_setid", "ak_sadd",
                 "id_setkey", "id_setid", "granted", "identified"}
         /\ r.key # None => <<r.key, r.th>> \in ek
    /\ r.pc \in {"ak_setkey", "ak_setid", "ak_sadd", "ai_sadd", "granted"}
         => <<r.ch, r.th>> \in ec

RequestProvenance ==
    \A p \in Proc : Carried(req[p], everKey, everConnected)

Provenance == RowsRecorded /\ CacheProvenance /\ RequestProvenance

\* A call to the database records the rows it leaves, and forgets none.
LEMMA RecordRows ==
    ASSUME TypeOK, StoreTypeOK', Record
    PROVE  RowsRecorded' /\ everKey \subseteq everKey'
                         /\ everConnected \subseteq everConnected'
BY StoreAssumption DEF TypeOK, StoreTypeOK, Record, RowsRecorded

\* A step of request p alone: only what p carries is to be looked at.
LEMMA OthersCarry ==
    ASSUME RequestProvenance, NEW p \in Proc,
           \A q \in Proc \ {p} : req'[q] = req[q],
           everKey \subseteq everKey', everConnected \subseteq everConnected',
           Carried(req'[p], everKey', everConnected')
    PROVE  RequestProvenance'
<1>1. SUFFICES ASSUME NEW q \in Proc, q # p
               PROVE  Carried(req'[q], everKey', everConnected')
    BY DEF RequestProvenance
<1>2. Carried(req[q], everKey, everConnected) /\ req'[q] = req[q]
    BY <1>1 DEF RequestProvenance
<1>3. QED
    BY <1>2 DEF Carried

LEMMA NextProvenance ==
    ASSUME TypeOK, Shape, StoreTypeOK', Provenance, [Next]_vars
    PROVE  Provenance'
<1> USE StoreAssumption DEF TypeOK, Provenance, cacheVars, PCs
<1>1. CASE CreateThings \/ UpdateKey \/ CreateChannels \/ Connect
    BY <1>1, RecordRows DEF CreateThings, UpdateKey, CreateChannels, Connect,
        CacheProvenance, RequestProvenance, Carried
<1>2. ASSUME NEW p \in Proc, Arrivals(p)
      PROVE  Provenance'
    BY <1>2 DEF Arrivals, RemoveThing, RemoveChannel, Disconnect, CanAccessByKey,
                CanAccessByID, Identify, Arrive, Request, historyVars, storeVars,
                RowsRecorded, CacheProvenance, RequestProvenance, Carried
<1>3. ASSUME NEW p \in Proc, Step(p)
      PROVE  Provenance'
    <2> USE DEF historyVars, storeVars
    <2>1. CASE RemoveThingGet(p)
        <3>1. RowsRecorded' /\ CacheProvenance'
            BY <2>1 DEF RemoveThingGet, Goto, Request, RowsRecorded,
               CacheProvenance
        <3>2. Carried(req'[p], everKey', everConnected')
            BY <2>1 DEF RemoveThingGet, Goto, Request, Carried
        <3>3. QED
            BY <2>1, <3>1, <3>2, OthersCarry DEF RemoveThingGet, Goto, Request
    <2>2. CASE RemoveThingDel(p)
        <3>1. RowsRecorded' /\ CacheProvenance'
            BY <2>2 DEF RemoveThingDel, Goto, RowsRecorded, CacheProvenance
        <3>2. Carried(req'[p], everKey', everConnected')
            BY <2>2 DEF RemoveThingDel, Goto, Carried
        <3>3. QED
            BY <2>2, <3>1, <3>2, OthersCarry DEF RemoveThingDel, Goto
    <2>3. CASE RemoveThingDB(p) \/ RemoveChannelDB(p) \/ DisconnectDB(p)
        <3>1. RowsRecorded' /\ CacheProvenance'
            BY <2>3, RecordRows DEF RemoveThingDB, RemoveChannelDB,
               DisconnectDB, Return, Idle, Request, CacheProvenance
        <3>2. Carried(req'[p], everKey', everConnected')
            BY <2>3 DEF RemoveThingDB, RemoveChannelDB, DisconnectDB, Return,
               Idle, Request, Carried
        <3>3. QED
            BY <2>3, <3>1, <3>2, OthersCarry, RecordRows DEF RemoveThingDB,
               RemoveChannelDB, DisconnectDB, Return, Idle, Request
    <2>4. CASE RemoveChannelDel(p) \/ DisconnectSRem(p)
        <3>1. RowsRecorded' /\ CacheProvenance'
            BY <2>4 DEF RemoveChannelDel, DisconnectSRem, Goto, RowsRecorded,
               CacheProvenance
        <3>2. Carried(req'[p], everKey', everConnected')
            BY <2>4 DEF RemoveChannelDel, DisconnectSRem, Goto, Carried
        <3>3. QED
            BY <2>4, <3>1, <3>2, OthersCarry DEF RemoveChannelDel,
               DisconnectSRem, Goto
    <2>5. CASE CacheID(p, "ak_get", "ak_sismember", "ak_dbkey")
        <3>1. RowsRecorded' /\ CacheProvenance'
            BY <2>5 DEF CacheID, Goto, RowsRecorded, CacheProvenance
        <3>2. Carried(req'[p], everKey', everConnected')
            BY <2>5 DEF CacheID, Goto, Shape, CacheProvenance, Carried
        <3>3. QED
            BY <2>5, <3>1, <3>2, OthersCarry DEF CacheID, Goto
    <2>6. CASE CacheID(p, "id_get", "identified", "id_db")
        <3>1. RowsRecorded' /\ CacheProvenance'
            BY <2>6 DEF CacheID, Goto, RowsRecorded, CacheProvenance
        <3>2. Carried(req'[p], everKey', everConnected')
            BY <2>6 DEF CacheID, Goto, Shape, CacheProvenance, Carried
        <3>3. QED
            BY <2>6, <3>1, <3>2, OthersCarry DEF CacheID, Goto
    <2>7. CASE CacheHasThing(p, "ak_sismember", "ak_dbkey")
        <3>1. RowsRecorded' /\ CacheProvenance'
            BY <2>7 DEF CacheHasThing, Goto, RowsRecorded, CacheProvenance
        <3>2. Carried(req'[p], everKey', everConnected')
            BY <2>7 DEF CacheHasThing, Goto, CacheProvenance, RequestProvenance,
               Carried
        <3>3. QED
            BY <2>7, <3>1, <3>2, OthersCarry DEF CacheHasThing, Goto
    <2>8. CASE CacheHasThing(p, "ai_sismember", "ai_db")
        <3>1. RowsRecorded' /\ CacheProvenance'
            BY <2>8 DEF CacheHasThing, Goto, RowsRecorded, CacheProvenance
        <3>2. Carried(req'[p], everKey', everConnected')
            BY <2>8 DEF CacheHasThing, Goto, Shape, CacheProvenance, Carried
        <3>3. QED
            BY <2>8, <3>1, <3>2, OthersCarry DEF CacheHasThing, Goto
    <2>9. CASE LookupKey(p, "ak_dbkey", "ak_dbconn")
        <3>1. RowsRecorded' /\ CacheProvenance'
            BY <2>9 DEF LookupKey, Return, Idle, Request, RowsRecorded,
               CacheProvenance
        <3>2. Carried(req'[p], everKey', everConnected')
            BY <2>9 DEF LookupKey, Return, Idle, Request, Holders, Shape,
               RowsRecorded, Carried
        <3>3. QED
            BY <2>9, <3>1, <3>2, OthersCarry DEF LookupKey, Return, Idle,
               Request
    <2>10. CASE LookupKey(p, "id_db", "id_setkey")
        <3>1. RowsRecorded' /\ CacheProvenance'
            BY <2>10 DEF LookupKey, Return, Idle, Request, RowsRecorded,
               CacheProvenance
        <3>2. Carried(req'[p], everKey', everConnected')
            BY <2>10 DEF LookupKey, Return, Idle, Request, Holders, Shape,
               RowsRecorded, Carried
        <3>3. QED
            BY <2>10, <3>1, <3>2, OthersCarry DEF LookupKey, Return, Idle,
               Request
    <2>11. CASE HasConnection(p, "ak_dbconn", "ak_setkey")
        <3>1. RowsRecorded' /\ CacheProvenance'
            BY <2>11 DEF HasConnection, RowsRecorded, CacheProvenance
        <3>2. CASE <<req[p].ch, req[p].th>> \in connections
            <4>1. Carried(req'[p], everKey', everConnected')
                BY <2>11, <3>2, SMTT(30) DEF HasConnection, Goto, Shape, RowsRecorded,
                   RequestProvenance, Carried
            <4>2. QED
                BY <2>11, <3>1, <3>2, <4>1, OthersCarry DEF HasConnection, Goto
        <3>3. CASE <<req[p].ch, req[p].th>> \notin connections
            <4>1. Carried(req'[p], everKey', everConnected')
                BY <2>11, <3>3 DEF HasConnection, Carried, Return, Idle, Request
            <4>2. QED
                BY <2>11, <3>1, <3>3, <4>1, OthersCarry DEF HasConnection,
                   Return, Idle, Request
        <3>4. QED
            BY <3>2, <3>3
    <2>12. CASE HasConnection(p, "ai_db", "ai_sadd")
        <3>1. RowsRecorded' /\ CacheProvenance'
            BY <2>12 DEF HasConnection, RowsRecorded, CacheProvenance
        <3>2. CASE <<req[p].ch, req[p].th>> \in connections
            <4>1. Carried(req'[p], everKey', everConnected')
                BY <2>12, <3>2 DEF HasConnection, Goto, RowsRecorded, Carried
            <4>2. QED
                BY <2>12, <3>1, <3>2, <4>1, OthersCarry DEF HasConnection, Goto
        <3>3. CASE <<req[p].ch, req[p].th>> \notin connections
            <4>1. Carried(req'[p], everKey', everConnected')
                BY <2>12, <3>3 DEF HasConnection, Carried, Return, Idle, Request
            <4>2. QED
                BY <2>12, <3>1, <3>3, <4>1, OthersCarry DEF HasConnection,
                   Return, Idle, Request
        <3>4. QED
            BY <3>2, <3>3
    <2>13. CASE SaveKey(p, "ak_setkey", "ak_setid")
        <3>1. RowsRecorded' /\ CacheProvenance'
            BY <2>13 DEF SaveKey, Goto, Shape, RequestProvenance, Carried,
               RowsRecorded, CacheProvenance
        <3>2. Carried(req'[p], everKey', everConnected')
            BY <2>13 DEF SaveKey, Goto, RequestProvenance, Carried
        <3>3. QED
            BY <2>13, <3>1, <3>2, OthersCarry DEF SaveKey, Goto
    <2>14. CASE SaveKey(p, "id_setkey", "id_setid")
        <3>1. RowsRecorded' /\ CacheProvenance'
            BY <2>14 DEF SaveKey, Goto, Shape, RequestProvenance, Carried,
               RowsRecorded, CacheProvenance
        <3>2. Carried(req'[p], everKey', everConnected')
            BY <2>14 DEF SaveKey, Goto, RequestProvenance, Carried
        <3>3. QED
            BY <2>14, <3>1, <3>2, OthersCarry DEF SaveKey, Goto
    <2>15. CASE SaveID(p, "ak_setid", "ak_sadd")
        <3>1. RowsRecorded' /\ CacheProvenance'
            BY <2>15 DEF SaveID, Goto, Shape, RequestProvenance, Carried,
               RowsRecorded, CacheProvenance
        <3>2. Carried(req'[p], everKey', everConnected')
            BY <2>15 DEF SaveID, Goto, RequestProvenance, Carried
        <3>3. QED
            BY <2>15, <3>1, <3>2, OthersCarry DEF SaveID, Goto
    <2>16. CASE SaveID(p, "id_setid", "identified")
        <3>1. RowsRecorded' /\ CacheProvenance'
            BY <2>16 DEF SaveID, Goto, Shape, RequestProvenance, Carried,
               RowsRecorded, CacheProvenance
        <3>2. Carried(req'[p], everKey', everConnected')
            BY <2>16 DEF SaveID, Goto, RequestProvenance, Carried
        <3>3. QED
            BY <2>16, <3>1, <3>2, OthersCarry DEF SaveID, Goto
    <2>17. CASE CacheConnect(p, "ak_sadd")
        <3>1. RowsRecorded' /\ CacheProvenance'
            BY <2>17 DEF CacheConnect, Goto, Shape, RequestProvenance, Carried,
               RowsRecorded, CacheProvenance
        <3>2. Carried(req'[p], everKey', everConnected')
            BY <2>17 DEF CacheConnect, Goto, RequestProvenance, Carried
        <3>3. QED
            BY <2>17, <3>1, <3>2, OthersCarry DEF CacheConnect, Goto
    <2>18. CASE CacheConnect(p, "ai_sadd")
        <3>1. RowsRecorded' /\ CacheProvenance'
            BY <2>18 DEF CacheConnect, Goto, Shape, RequestProvenance, Carried,
               RowsRecorded, CacheProvenance
        <3>2. Carried(req'[p], everKey', everConnected')
            BY <2>18 DEF CacheConnect, Goto, Shape, RequestProvenance, Carried
        <3>3. QED
            BY <2>18, <3>1, <3>2, OthersCarry DEF CacheConnect, Goto
    <2>19. CASE Reply(p)
        <3>1. RowsRecorded' /\ CacheProvenance'
            BY <2>19 DEF Reply, Return, Idle, Request, RowsRecorded,
               CacheProvenance
        <3>2. Carried(req'[p], everKey', everConnected')
            BY <2>19 DEF Reply, Return, Idle, Request, Carried
        <3>3. QED
            BY <2>19, <3>1, <3>2, OthersCarry DEF Reply, Return, Idle, Request
    <2>20. QED
        BY <1>3, <2>1, <2>2, <2>3, <2>4, <2>5, <2>6, <2>7, <2>8, <2>9, <2>10,
           <2>11, <2>12, <2>13, <2>14, <2>15, <2>16, <2>17, <2>18, <2>19
           DEF Step, CanAccessByKeySteps, CanAccessByIDSteps, IdentifySteps
<1>4. ASSUME NEW p \in Proc, Fail(p)
      PROVE  Provenance'
    BY <1>4 DEF Fail, Return, Idle, Request, historyVars, storeVars, RowsRecorded,
        CacheProvenance, RequestProvenance, Carried
<1>5. CASE Crash
    BY <1>5 DEF Crash, Idle, Request, historyVars, storeVars, RowsRecorded,
        CacheProvenance, RequestProvenance, Carried
<1>6. CASE UNCHANGED vars
    BY <1>6 DEF vars, historyVars, storeVars, RowsRecorded, CacheProvenance,
        RequestProvenance, Carried
<1>7. QED
    BY <1>1, <1>2, <1>3, <1>4, <1>5, <1>6 DEF Next, Actions

LEMMA ProvenanceInit == Init => ServiceInv /\ Provenance
BY ServiceInvInit, StoreAssumption
   DEF Init, StoreInit, Provenance, RowsRecorded, CacheProvenance,
       RequestProvenance, Carried, Idle, Request

LEMMA ProvenanceNext == ServiceInv /\ Provenance /\ [Next]_vars => (ServiceInv /\ Provenance)'
BY ServiceInvNext, NextProvenance DEF ServiceInv, StoreInv

\* The caches invent nothing: whatever they hold was a row of the database at
\* some time, under any interleaving of requests, failed calls and crashes.
THEOREM CachesNeverInvent == Spec => []CacheProvenance
<1>1. Provenance => CacheProvenance
    BY DEF Provenance
<1>2. QED
    BY <1>1, ProvenanceInit, ProvenanceNext, PTL DEF Spec

\* Nor do the answers: who CanAccessByKey, CanAccessByID and Identify say a
\* thing is, and that it may use the channel, was so in the database at some
\* time, whether the answer was read from a cache or from the database.
THEOREM AnswersNeverInvented == Spec => []AnswerProvenance
<1>1. Provenance => AnswerProvenance
    BY DEF Provenance, RequestProvenance, Carried, AnswerProvenance
<1>2. QED
    BY <1>1, ProvenanceInit, ProvenanceNext, PTL DEF Spec

-----------------------------------------------------------------------------
(* Who may delete a connection.                                            *)

LEMMA StepRemovedByOwner ==
    ASSUME ServiceInv, [Next]_vars
    PROVE  [RemovedByOwner]_vars
<1> USE DEF ServiceInv, StoreInv
<1>1. SUFFICES ASSUME connections' # connections PROVE RemovedByOwner
    BY DEF RemovedByOwner, vars, storeVars
<1>2. CASE CreateThings \/ UpdateKey \/ CreateChannels \/ Connect
    BY <1>2 DEF CreateThings, UpdateKey, CreateChannels, Connect, SaveThings,
        UpdateThingKey, SaveChannels, InsertConnections, RemovedByOwner
<1>3. ASSUME NEW p \in Proc, RemoveThingDB(p)
      PROVE  RemovedByOwner
    BY <1>3 DEF RemoveThingDB, DeleteThing, StoreIntegrity, RemovedByOwner
<1>4. ASSUME NEW p \in Proc, RemoveChannelDB(p)
      PROVE  RemovedByOwner
    BY <1>4 DEF RemoveChannelDB, DeleteChannel, RemovedByOwner
<1>5. ASSUME NEW p \in Proc, DisconnectDB(p)
      PROVE  RemovedByOwner
    <2>1. \A x \in connections \ connections' : x = <<req[p].ch, req[p].th>>
        BY <1>5 DEF DisconnectDB, DeleteConnection
    <2>2. QED
        BY <1>1, <1>5, <2>1 DEF DisconnectDB, DeleteConnection, RemovedByOwner
<1>6. ASSUME NEW p \in Proc,
             Arrivals(p) \/ Fail(p) \/ RemoveThingGet(p) \/ RemoveThingDel(p)
               \/ RemoveChannelDel(p) \/ DisconnectSRem(p) \/ Reply(p)
      PROVE  FALSE
    BY <1>1, <1>6 DEF Arrivals, RemoveThing, RemoveChannel, Disconnect,
        CanAccessByKey, CanAccessByID, Identify, Arrive, Fail, RemoveThingGet,
        RemoveThingDel, RemoveChannelDel, DisconnectSRem, Reply, storeVars
<1>7. ASSUME NEW p \in Proc,
             CanAccessByKeySteps(p) \/ CanAccessByIDSteps(p) \/ IdentifySteps(p)
      PROVE  FALSE
    BY <1>1, <1>7 DEF CanAccessByKeySteps, CanAccessByIDSteps, IdentifySteps,
        CacheID, CacheHasThing, HasConnection, LookupKey, SaveKey, SaveID,
        CacheConnect, storeVars
<1>8. CASE Crash \/ UNCHANGED vars
    BY <1>1, <1>8 DEF Crash, vars, storeVars
<1>9. QED
    BY <1>2, <1>3, <1>4, <1>5, <1>6, <1>7, <1>8 DEF Next, Actions, Step

\* No user can make another user's connection disappear: every step that
\* deletes a row of connections is the database call of a RemoveThing,
\* RemoveChannel or Disconnect of the row's owner.
THEOREM OwnersOnly == Spec => OnlyOwnerRemoves
<1>1. ServiceInv /\ [Next]_vars => [RemovedByOwner]_vars
    BY StepRemovedByOwner
<1>2. QED
    BY <1>1, ServiceInvInit, ServiceInvNext, PTL DEF Spec, OnlyOwnerRemoves

-----------------------------------------------------------------------------
(* Stale entries of the channel cache.                                     *)

Pairs == ChannelIDs \X ThingIDs

\* What is true of a pair read from the database, as long as nobody raced.
Fresh(x) == ThingExists(x[2]) => x \in connections \/ x \in raced

\* Cached pairs, and pairs about to be cached, are fresh, of things that were
\* issued: a thing created later is not among them.
CachedFresh == \A x \in chanCache : x[2] \in issued /\ Fresh(x)

FillingFresh ==
    \A p \in Proc, x \in Pairs : Filling(req[p], x) => x[2] \in issued /\ Fresh(x)

\* Before a removal reaches the database the pair is out of the cache, ...
CutUncached ==
    \A q \in Proc, x \in Pairs : Cutting(req[q], x) => x \notin chanCache \/ x \in raced

\* ... and a check that would put it back is noted.
OverlapsNoted ==
    \A p, q \in Proc, x \in Pairs :
        Filling(req[p], x) /\ Cutting(req[q], x) => x \in raced

CacheInv == CachedFresh /\ FillingFresh /\ CutUncached /\ OverlapsNoted

\* What one step can do to things, connections, cache and requests.
CacheStep ==
    /\ issued \subseteq issued'
    /\ \A x \in Pairs : x[2] \in issued /\ ThingExists(x[2])' => ThingExists(x[2])
    /\ \A x \in connections : ThingExists(x[2])' =>
          x \in connections' \/ \E q \in Proc : Cutting(req[q], x)
    /\ \A x \in chanCache' : x \in chanCache \/ \E p \in Proc : Filling(req[p], x)
    /\ \A p \in Proc, x \in Pairs :
          Filling(req'[p], x) => Filling(req[p], x) \/ x \in connections \cap connections'
    /\ \A q \in Proc, x \in Pairs :
          Cutting(req'[q], x) => Cutting(req[q], x) \/ x \notin chanCache'

LEMMA ActionsCacheStep ==
    ASSUME ServiceInv, Actions
    PROVE  CacheStep
<1> USE StoreAssumption
    DEF ServiceInv, StoreInv, TypeOK, StoreTypeOK, ThingExists, cacheVars, storeVars,
        Pairs, CacheStep
<1>1. CASE CreateThings
    BY <1>1 DEF CreateThings, SaveThings
<1>2. CASE UpdateKey
    BY <1>2 DEF UpdateKey, UpdateThingKey
<1>3. CASE CreateChannels
    BY <1>3 DEF CreateChannels, SaveChannels
<1>4. CASE Connect
    BY <1>4 DEF Connect, InsertConnections
<1>5. ASSUME NEW p \in Proc, Arrivals(p)
      PROVE  CacheStep
    BY <1>5 DEF Arrivals, RemoveThing, RemoveChannel, Disconnect, CanAccessByKey,
                CanAccessByID, Identify, Arrive, Request, Filling, Cutting
<1>6. ASSUME NEW p \in Proc, Step(p)
      PROVE  CacheStep
    <2> USE DEF Filling, Cutting
    <2>1. CASE RemoveThingGet(p) \/ RemoveThingDel(p)
        BY <2>1 DEF RemoveThingGet, RemoveThingDel, Goto, Request
    <2>2. CASE RemoveThingDB(p)
        BY <2>2 DEF RemoveThingDB, DeleteThing, Return, Idle, Request
    <2>3. CASE RemoveChannelDel(p)
        BY <2>3 DEF RemoveChannelDel, Goto
    <2>4. CASE RemoveChannelDB(p)
        BY <2>4 DEF RemoveChannelDB, DeleteChannel, Return, Idle, Request
    <2>5. CASE DisconnectSRem(p)
        BY <2>5 DEF DisconnectSRem, Goto
    <2>6. CASE DisconnectDB(p)
        BY <2>6 DEF DisconnectDB, DeleteConnection, Return, Idle, Request
    <2>7. CASE CacheID(p, "ak_get", "ak_sismember", "ak_dbkey")
        BY <2>7 DEF CacheID, Goto
    <2>8. CASE CacheID(p, "id_get", "identified", "id_db")
        BY <2>8 DEF CacheID, Goto
    <2>9. CASE CacheHasThing(p, "ak_sismember", "ak_dbkey")
        BY <2>9 DEF CacheHasThing, Goto
    <2>10. CASE CacheHasThing(p, "ai_sismember", "ai_db")
        BY <2>10 DEF CacheHasThing, Goto
    <2>11. CASE LookupKey(p, "ak_dbkey", "ak_dbconn")
        BY <2>11 DEF LookupKey, Return, Idle, Request
    <2>12. CASE LookupKey(p, "id_db", "id_setkey")
        BY <2>12 DEF LookupKey, Return, Idle, Request
    <2>13. CASE HasConnection(p, "ak_dbconn", "ak_setkey")
        BY <2>13 DEF HasConnection, Goto, Return, Idle, Request
    <2>14. CASE HasConnection(p, "ai_db", "ai_sadd")
        BY <2>14 DEF HasConnection, Goto, Return, Idle, Request
    <2>15. CASE SaveKey(p, "ak_setkey", "ak_setid")
        BY <2>15 DEF SaveKey, Goto
    <2>16. CASE SaveKey(p, "id_setkey", "id_setid")
        BY <2>16 DEF SaveKey, Goto
    <2>17. CASE SaveID(p, "ak_setid", "ak_sadd")
        BY <2>17 DEF SaveID, Goto
    <2>18. CASE SaveID(p, "id_setid", "identified")
        BY <2>18 DEF SaveID, Goto
    <2>19. CASE CacheConnect(p, "ak_sadd")
        BY <2>19 DEF CacheConnect, Goto
    <2>20. CASE CacheConnect(p, "ai_sadd")
        BY <2>20 DEF CacheConnect, Goto
    <2>21. CASE Reply(p)
        BY <2>21 DEF Reply, Return, Idle, Request
    <2>22. QED
        BY <1>6, <2>1, <2>2, <2>3, <2>4, <2>5, <2>6, <2>7, <2>8, <2>9, <2>10, <2>11, <2>12,
           <2>13, <2>14, <2>15, <2>16, <2>17, <2>18, <2>19, <2>20, <2>21
           DEF Step, CanAccessByKeySteps, CanAccessByIDSteps, IdentifySteps
<1>7. CASE \/ \E p \in Proc : Fail(p)
           \/ Crash
    BY <1>7 DEF Fail, Crash, Return, Idle, Request, Filling, Cutting
<1>8. QED
    BY <1>1, <1>2, <1>3, <1>4, <1>5, <1>6, <1>7 DEF Actions

LEMMA CacheInvNext ==
    ASSUME ServiceInv, ServiceInv', CacheInv, Next
    PROVE  CacheInv'
<1>1. CacheStep /\ Recorded
    BY ActionsCacheStep DEF Next
<1>2. chanCache \subseteq Pairs /\ connections \subseteq Pairs /\ chanCache' \subseteq Pairs
    BY DEF ServiceInv, TypeOK, StoreTypeOK, Pairs
<1>3. \A x \in Pairs : x \in raced /\ (x \in chanCache' \/ \E p \in Proc : Filling(req'[p], x))
                         => x \in raced'
    BY <1>1 DEF Recorded, Pairs
\* A pair that was cached or about to be, and still is, stays fresh: when its
\* row is deleted, the removal had been noted.
<1>4. ASSUME NEW x \in Pairs,
             x \in chanCache \/ \E p \in Proc : Filling(req[p], x),
             x \in chanCache' \/ \E p \in Proc : Filling(req'[p], x)
      PROVE  x[2] \in issued' /\ Fresh(x)'
    <2>1. x[2] \in issued /\ Fresh(x)
        BY <1>4 DEF CacheInv, CachedFresh, FillingFresh
    <2>2. ASSUME ThingExists(x[2])' PROVE x \in connections' \/ x \in raced'
        <3>1. x \in connections \/ x \in raced
            BY <1>1, <2>1, <2>2 DEF CacheStep, Fresh
        <3>2. CASE x \in raced
            BY <1>3, <1>4, <3>2
        <3>3. ASSUME NEW q \in Proc, Cutting(req[q], x) PROVE x \in raced
            BY <1>4, <3>3 DEF CacheInv, CutUncached, OverlapsNoted
        <3>4. QED
            BY <1>1, <2>2, <3>1, <3>2, <3>3 DEF CacheStep
    <2>3. QED
        BY <1>1, <2>1, <2>2 DEF CacheStep, Fresh
<1>5. CachedFresh'
    BY <1>1, <1>2, <1>4 DEF CachedFresh, CacheStep
<1>6. FillingFresh'
    <2> SUFFICES ASSUME NEW p \in Proc, NEW x \in Pairs, Filling(req'[p], x)
                 PROVE  x[2] \in issued' /\ Fresh(x)'
        BY DEF FillingFresh, Filling
    <2>1. CASE Filling(req[p], x)
        BY <2>1, <1>4
    <2>2. CASE x \in connections \cap connections'
        <3>1. x[2] \in ThingIDs /\ ThingExists(x[2])
            BY <2>2, StoreAssumption
               DEF ServiceInv, StoreInv, StoreIntegrity, StoreTypeOK, ThingExists, ChannelExists,
                   Pairs
        <3>2. x[2] \in issued
            BY <3>1 DEF ServiceInv, StoreInv, RowsIssued
        <3>3. QED
            BY <1>1, <2>2, <3>2 DEF CacheStep, Fresh
    <2>3. QED
        BY <1>1, <2>1, <2>2 DEF CacheStep
<1>7. CutUncached'
    <2> SUFFICES ASSUME NEW q \in Proc, NEW x \in Pairs, Cutting(req'[q], x), x \in chanCache'
                 PROVE  x \in raced'
        BY DEF CutUncached, Cutting
    <2>1. Cutting(req[q], x) /\ (x \in chanCache \/ \E p \in Proc : Filling(req[p], x))
        BY <1>1 DEF CacheStep
    <2>2. x \in raced
        BY <2>1 DEF CacheInv, CutUncached, OverlapsNoted
    <2>3. QED
        BY <1>3, <2>2
<1>8. OverlapsNoted'
    BY <1>1 DEF Recorded, OverlapsNoted, Pairs, Filling, Cutting
<1>9. QED
    BY <1>5, <1>6, <1>7, <1>8 DEF CacheInv

\* For any number of requests at once, failed calls and crashes, the channel
\* cache is stale about an existing thing only where a check and a removal of
\* the same pair overlapped: Disconnect and RemoveChannel clear the cache
\* before they delete the row, and checks fill it after they have read it.
THEOREM StaleEntriesRaced == Spec => []StaleOnlyIfRaced
<1>1. Init => ServiceInv /\ CacheInv
    BY ServiceInvInit
       DEF Init, CacheInv, CachedFresh, FillingFresh, CutUncached, OverlapsNoted,
           Filling, Cutting, Idle, Request
<1>2. ServiceInv /\ CacheInv /\ [Next]_vars => (ServiceInv /\ CacheInv)'
    <2>1. CASE UNCHANGED vars
        BY <2>1, ServiceInvNext
           DEF vars, storeVars, cacheVars, CacheInv, CachedFresh, FillingFresh, CutUncached,
               OverlapsNoted, Fresh, ThingExists, Filling, Cutting
    <2>2. QED
        BY <2>1, ServiceInvNext, CacheInvNext
<1>3. CacheInv => StaleOnlyIfRaced
    BY DEF CacheInv, CachedFresh, Fresh, StaleOnlyIfRaced
<1>4. QED
    BY <1>1, <1>2, <1>3, PTL DEF Spec
=============================================================================
