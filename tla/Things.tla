------------------------------- MODULE Things -------------------------------
(***************************************************************************)
(* The things service (things/service.go) over its database (ThingsStore)  *)
(* and its two Redis caches (things/redis/things.go, channels.go).         *)
(*                                                                         *)
(* Requests run concurrently, in the goroutines of the HTTP and gRPC       *)
(* servers and in several replicas: a request that makes more than one     *)
(* call to Redis or PostgreSQL is a process that performs one call per     *)
(* step.  A request that makes a single call is one step.  Any call may    *)
(* fail, and the service may crash between any two calls.                  *)
(***************************************************************************)
EXTENDS ThingsStore

CONSTANT Proc       \* requests that may be in progress at the same time

VARIABLES
    keyCache,       \* Redis "thing_key:<key>" -> thing id
    idCache,        \* Redis "thing:<id>" -> key
    chanCache,      \* Redis sets "channel:<id>", as pairs <<channel, thing>>
    req,            \* the request each process serves: its next call, its locals
    everKey,        \* history: <<key, thing>> pairs that were rows of things
    everConnected,  \* history: pairs that were rows of connections
    raced           \* history: pairs cached, or about to be, from a row that a
                    \* request in progress at the same time was to delete

cacheVars == <<keyCache, idCache, chanCache>>
historyVars == <<everKey, everConnected>>
vars == <<storeVars, cacheVars, req, historyVars, raced>>

\* The next call of a request.  rt: RemoveThing, rc: RemoveChannel,
\* dc: Disconnect, ak: CanAccessByKey, ai: CanAccessByID, id: Identify.
PCs == {"idle",
        "rt_get", "rt_del", "rt_db",
        "rc_del", "rc_db",
        "dc_srem", "dc_db",
        "ak_get", "ak_sismember", "ak_dbkey", "ak_dbconn",
        "ak_setkey", "ak_setid", "ak_sadd",
        "ai_sismember", "ai_db", "ai_sadd",
        "id_get", "id_db", "id_setkey", "id_setid",
        "granted", "identified"}

Request(pc, o, c, t, k) == [pc |-> pc, own |-> o, ch |-> c, th |-> t, key |-> k]

Idle == Request("idle", None, None, None, None)

\* A request needs a process, if only for one step.
Free == \E p \in Proc : req[p].pc = "idle"

Goto(p, l) == req' = [req EXCEPT ![p].pc = l]

Return(p) == req' = [req EXCEPT ![p] = Idle]

TypeOK ==
    /\ StoreTypeOK
    /\ keyCache \in [Keys -> ThingIDs \cup {None}]
    /\ idCache \in [ThingIDs -> Keys \cup {None}]
    /\ chanCache \subseteq ChannelIDs \X ThingIDs
    /\ req \in [Proc -> [pc : PCs, own : Owners \cup {None},
                         ch : ChannelIDs \cup {None},
                         th : ThingIDs \cup {None}, key : Keys \cup {None}]]
    /\ everKey \subseteq Keys \X ThingIDs
    /\ everConnected \subseteq ChannelIDs \X ThingIDs
    /\ raced \subseteq ChannelIDs \X ThingIDs

Init ==
    /\ StoreInit
    /\ keyCache = [k \in Keys |-> None]
    /\ idCache = [t \in ThingIDs |-> None]
    /\ chanCache = {}
    /\ req = [p \in Proc |-> Idle]
    /\ everKey = {}
    /\ everConnected = {}
    /\ raced = {}

\* The history variables follow the tables.
Record ==
    /\ everKey' = everKey \cup
         {x \in Keys \X ThingIDs : thingKey'[x[2]] = x[1]}
    /\ everConnected' = everConnected \cup connections'

-----------------------------------------------------------------------------
(* Requests that make a single call.  auth.Identify has turned the token   *)
(* into the owner o; a request whose token is refused changes nothing.     *)

CreateThings ==
    /\ Free
    /\ \E o \in Owners, S \in SUBSET (ThingIDs \ issued) :
         /\ S # {}
         /\ \E ks \in [S -> Keys] : SaveThings(o, S, ks)
    /\ Record
    /\ UNCHANGED <<cacheVars, req>>

\* The database is updated; the caches are not told.
UpdateKey ==
    /\ Free
    /\ \E o \in Owners, t \in ThingIDs, k \in Keys : UpdateThingKey(o, t, k)
    /\ Record
    /\ UNCHANGED <<cacheVars, req>>

CreateChannels ==
    /\ Free
    /\ \E o \in Owners, S \in SUBSET (ChannelIDs \ issued) :
         S # {} /\ SaveChannels(o, S)
    /\ Record
    /\ UNCHANGED <<cacheVars, req>>

Connect ==
    /\ Free
    /\ \E o \in Owners, C \in SUBSET ChannelIDs, T \in SUBSET ThingIDs :
         C # {} /\ T # {} /\ InsertConnections(o, C, T)
    /\ Record
    /\ UNCHANGED <<cacheVars, req>>

-----------------------------------------------------------------------------
(* Requests that make several calls: their arrival.                        *)

Arrive(p, r) ==
    /\ req[p].pc = "idle"
    /\ req' = [req EXCEPT ![p] = r]
    /\ UNCHANGED <<storeVars, cacheVars, historyVars>>

RemoveThing(p) ==
    \E o \in Owners, t \in ThingIDs : Arrive(p, Request("rt_get", o, None, t, None))

RemoveChannel(p) ==
    \E o \in Owners, c \in ChannelIDs : Arrive(p, Request("rc_del", o, c, None, None))

Disconnect(p) ==
    \E o \in Owners, c \in ChannelIDs, t \in ThingIDs :
        Arrive(p, Request("dc_srem", o, c, t, None))

CanAccessByKey(p) ==
    \E c \in ChannelIDs, k \in Keys : Arrive(p, Request("ak_get", None, c, None, k))

CanAccessByID(p) ==
    \E c \in ChannelIDs, t \in ThingIDs :
        Arrive(p, Request("ai_sismember", None, c, t, None))

Identify(p) ==
    \E k \in Keys : Arrive(p, Request("id_get", None, None, None, k))

-----------------------------------------------------------------------------
(* RemoveThing: thingCache.Remove, then things.Remove.                     *)

\* GET thing:<id>; a nil reply skips the DEL.
RemoveThingGet(p) ==
    /\ req[p].pc = "rt_get"
    /\ LET t == req[p].th
           k == idCache[t]
       IN IF k = None
            THEN Goto(p, "rt_db")
            ELSE req' = [req EXCEPT ![p] = Request("rt_del", @.own, None, t, k)]
    /\ UNCHANGED <<storeVars, cacheVars, historyVars>>

\* DEL thing_key:<key> thing:<id>, whatever the first now holds.
RemoveThingDel(p) ==
    /\ req[p].pc = "rt_del"
    /\ keyCache' = [keyCache EXCEPT ![req[p].key] = None]
    /\ idCache' = [idCache EXCEPT ![req[p].th] = None]
    /\ Goto(p, "rt_db")
    /\ UNCHANGED <<storeVars, chanCache, historyVars>>

\* The channel cache keeps the thing in the sets of its channels.
RemoveThingDB(p) ==
    /\ req[p].pc = "rt_db"
    /\ DeleteThing(req[p].own, req[p].th)
    /\ Record
    /\ Return(p)
    /\ UNCHANGED cacheVars

-----------------------------------------------------------------------------
(* RemoveChannel: channelCache.Remove, then channels.Remove.               *)

RemoveChannelDel(p) ==
    /\ req[p].pc = "rc_del"
    /\ chanCache' = {x \in chanCache : x[1] # req[p].ch}
    /\ Goto(p, "rc_db")
    /\ UNCHANGED <<storeVars, keyCache, idCache, historyVars>>

RemoveChannelDB(p) ==
    /\ req[p].pc = "rc_db"
    /\ DeleteChannel(req[p].own, req[p].ch)
    /\ Record
    /\ Return(p)
    /\ UNCHANGED cacheVars

-----------------------------------------------------------------------------
(* Disconnect: channelCache.Disconnect, then channels.Disconnect.          *)

\* A seeded fault for StaleOnlyIfRaced: the cache is not told.
DisconnectNoSRem(p) ==
    /\ req[p].pc = "dc_srem"
    /\ Goto(p, "dc_db")
    /\ UNCHANGED <<storeVars, cacheVars, historyVars>>

DisconnectSRem(p) ==
    /\ req[p].pc = "dc_srem"
    /\ chanCache' = chanCache \ {<<req[p].ch, req[p].th>>}
    /\ Goto(p, "dc_db")
    /\ UNCHANGED <<storeVars, keyCache, idCache, historyVars>>

DisconnectDB(p) ==
    /\ req[p].pc = "dc_db"
    /\ DeleteConnection(req[p].own, req[p].ch, req[p].th)
    /\ Record
    /\ Return(p)
    /\ UNCHANGED cacheVars

-----------------------------------------------------------------------------
(* Cache reads shared by the three checks.  A read that fails counts as a  *)
(* miss: the caller goes on to the database.                               *)

\* thingCache.ID: GET thing_key:<key>.
CacheID(p, at, hit, miss) ==
    /\ req[p].pc = at
    /\ \/ /\ keyCache[req[p].key] # None
          /\ req' = [req EXCEPT ![p].pc = hit, ![p].th = keyCache[req[p].key]]
       \/ Goto(p, miss)
    /\ UNCHANGED <<storeVars, cacheVars, historyVars>>

\* A seeded fault for AnswerProvenance: the reply of SISMEMBER is ignored.
CacheHasAnyThing(p, at, miss) ==
    /\ req[p].pc = at
    /\ \/ Goto(p, "granted")
       \/ Goto(p, miss)
    /\ UNCHANGED <<storeVars, cacheVars, historyVars>>

\* channelCache.HasThing: SISMEMBER channel:<id> <thing>.  On a miss the
\* thing id that hasThing took from the thing cache is dropped.
CacheHasThing(p, at, miss) ==
    /\ req[p].pc = at
    /\ \/ /\ <<req[p].ch, req[p].th>> \in chanCache
          /\ Goto(p, "granted")
       \/ Goto(p, miss)
    /\ UNCHANGED <<storeVars, cacheVars, historyVars>>

\* A seeded fault for CacheProvenance: the result of EXISTS is ignored.
HasConnectionUnchecked(p, at, yes) ==
    /\ req[p].pc = at
    /\ Goto(p, yes)
    /\ UNCHANGED <<storeVars, cacheVars, historyVars>>

\* A seeded fault for RequestsEnd: ask again until the answer is yes.
HasConnectionRetry(p, at, yes) ==
    /\ req[p].pc = at
    /\ IF <<req[p].ch, req[p].th>> \in connections
         THEN Goto(p, yes)
         ELSE UNCHANGED req
    /\ UNCHANGED <<storeVars, cacheVars, historyVars>>

\* SELECT EXISTS (SELECT 1 FROM connections ...): go on, or refuse.
HasConnection(p, at, yes) ==
    /\ req[p].pc = at
    /\ IF <<req[p].ch, req[p].th>> \in connections
         THEN Goto(p, yes)
         ELSE Return(p)
    /\ UNCHANGED <<storeVars, cacheVars, historyVars>>

\* SELECT id FROM things WHERE key = $1: go on with the id, or refuse.
LookupKey(p, at, found) ==
    /\ req[p].pc = at
    /\ \/ \E t \in Holders(req[p].key) :
            req' = [req EXCEPT ![p].pc = found, ![p].th = t]
       \/ Holders(req[p].key) = {} /\ Return(p)
    /\ UNCHANGED <<storeVars, cacheVars, historyVars>>

\* thingCache.Save: SET thing_key:<key> <id>, then SET thing:<id> <key>.
SaveKey(p, at, next) ==
    /\ req[p].pc = at
    /\ keyCache' = [keyCache EXCEPT ![req[p].key] = req[p].th]
    /\ Goto(p, next)
    /\ UNCHANGED <<storeVars, idCache, chanCache, historyVars>>

SaveID(p, at, next) ==
    /\ req[p].pc = at
    /\ idCache' = [idCache EXCEPT ![req[p].th] = req[p].key]
    /\ Goto(p, next)
    /\ UNCHANGED <<storeVars, keyCache, chanCache, historyVars>>

\* channelCache.Connect: SADD channel:<id> <thing>.
CacheConnect(p, at) ==
    /\ req[p].pc = at
    /\ chanCache' = chanCache \cup {<<req[p].ch, req[p].th>>}
    /\ Goto(p, "granted")
    /\ UNCHANGED <<storeVars, keyCache, idCache, historyVars>>

CanAccessByKeySteps(p) ==
    \/ CacheID(p, "ak_get", "ak_sismember", "ak_dbkey")
    \/ CacheHasThing(p, "ak_sismember", "ak_dbkey")
    \/ LookupKey(p, "ak_dbkey", "ak_dbconn")
    \/ HasConnection(p, "ak_dbconn", "ak_setkey")
    \/ SaveKey(p, "ak_setkey", "ak_setid")
    \/ SaveID(p, "ak_setid", "ak_sadd")
    \/ CacheConnect(p, "ak_sadd")

CanAccessByIDSteps(p) ==
    \/ CacheHasThing(p, "ai_sismember", "ai_db")
    \/ HasConnection(p, "ai_db", "ai_sadd")
    \/ CacheConnect(p, "ai_sadd")

IdentifySteps(p) ==
    \/ CacheID(p, "id_get", "identified", "id_db")
    \/ LookupKey(p, "id_db", "id_setkey")
    \/ SaveKey(p, "id_setkey", "id_setid")
    \/ SaveID(p, "id_setid", "identified")

\* The caller has its answer: "granted" with th, or "identified" as th.
Reply(p) ==
    /\ req[p].pc \in {"granted", "identified"}
    /\ Return(p)
    /\ UNCHANGED <<storeVars, cacheVars, historyVars>>

-----------------------------------------------------------------------------
(* Failures.                                                               *)

\* The next call returns an error; except for the cache reads of the
\* checks, which fall through above, every handler then gives up.
Fail(p) ==
    /\ req[p].pc \notin {"idle", "granted", "identified",
                         "ak_get", "ak_sismember", "ai_sismember", "id_get"}
    /\ Return(p)
    /\ UNCHANGED <<storeVars, cacheVars, historyVars>>

\* The service stops: requests are lost, the database and Redis are not.
Crash ==
    /\ \E p \in Proc : req[p].pc # "idle"
    /\ req' = [p \in Proc |-> Idle]
    /\ UNCHANGED <<storeVars, cacheVars, historyVars>>

Arrivals(p) ==
    \/ RemoveThing(p) \/ RemoveChannel(p) \/ Disconnect(p)
    \/ CanAccessByKey(p) \/ CanAccessByID(p) \/ Identify(p)

\* The calls of a request in progress.
Step(p) ==
    \/ RemoveThingGet(p) \/ RemoveThingDel(p) \/ RemoveThingDB(p)
    \/ RemoveChannelDel(p) \/ RemoveChannelDB(p)
    \/ DisconnectSRem(p) \/ DisconnectDB(p)
    \/ CanAccessByKeySteps(p) \/ CanAccessByIDSteps(p) \/ IdentifySteps(p)
    \/ Reply(p)

\* A check that read the row of x and has still to cache it, and a removal
\* that dropped x from the cache and has still to delete the row.
Filling(r, x) ==
    r.pc \in {"ak_setkey", "ak_setid", "ak_sadd", "ai_sadd"} /\ <<r.ch, r.th>> = x

Cutting(r, x) ==
    \/ r.pc = "dc_db" /\ <<r.ch, r.th>> = x
    \/ r.pc = "rc_db" /\ r.ch = x[1]

\* A pair is raced when the two overlap, until it is out of the cache with no
\* check about to put it back.
Recorded ==
    raced' = {x \in ChannelIDs \X ThingIDs :
                /\ x \in raced \/ \E q \in Proc : Cutting(req'[q], x)
                /\ \/ \E p \in Proc : Filling(req'[p], x)
                   \/ x \in raced /\ x \in chanCache'}

Actions ==
    \/ CreateThings \/ UpdateKey \/ CreateChannels \/ Connect
    \/ \E p \in Proc : Arrivals(p) \/ Step(p) \/ Fail(p)
    \/ Crash

Next == Actions /\ Recorded

Spec == Init /\ [][Next]_vars

\* A request in progress is scheduled: goroutines are never starved, and
\* every call to Redis or PostgreSQL returns, with a reply or an error.
FairSpec == Spec /\ \A p \in Proc : WF_vars(Step(p) /\ Recorded)

-----------------------------------------------------------------------------
(* Properties.                                                             *)

\* The caches never invent: what Redis holds, in whatever order concurrent
\* checks, removals and failures wrote it, was once a row of the database.
CacheProvenance ==
    /\ \A k \in Keys : keyCache[k] # None => <<k, keyCache[k]>> \in everKey
    /\ \A t \in ThingIDs : idCache[t] # None => <<idCache[t], t>> \in everKey
    /\ chanCache \subseteq everConnected

\* An answer of CanAccessByKey, CanAccessByID or Identify names a thing that
\* once had the key presented and was once connected to the channel.
AnswerProvenance ==
    \A p \in Proc :
        LET r == req[p] IN
        /\ r.pc = "granted" => <<r.ch, r.th>> \in everConnected
        /\ r.pc \in {"granted", "identified"} /\ r.key # None =>
              <<r.key, r.th>> \in everKey

\* Each row of connections that this step deletes is named, or covered, by a
\* request of the user who owns it that has reached its database call.
RemovedByOwner ==
    \A x \in connections \ connections' :
        \E p \in Proc :
            /\ req[p].own = chanOwner[x[1]]
            /\ \/ req[p].pc = "rt_db" /\ req[p].th = x[2]
               \/ req[p].pc = "rc_db" /\ req[p].ch = x[1]
               \/ req[p].pc = "dc_db" /\ req[p].ch = x[1] /\ req[p].th = x[2]

\* A row of connections disappears only at the hands of a request of its
\* owner that names the thing, the channel or the pair: no other user's
\* RemoveThing, RemoveChannel or Disconnect can touch it.
OnlyOwnerRemoves == [][RemovedByOwner]_vars

\* The channel cache holds a pair of an existing thing that is not connected
\* only after a check cached it from the row that a Disconnect or RemoveChannel
\* in progress at the same time was to delete.  No failed call, no crash, no
\* removal that repeats, overlaps or follows another, and no thing or channel
\* connected again makes a stale entry in any other way.
StaleOnlyIfRaced ==
    \A x \in chanCache : ThingExists(x[2]) => x \in connections \/ x \in raced

\* Every request that makes several calls comes to an end, with an answer or
\* an error, whatever is left in the caches by failed calls and crashes.
RequestsEnd == \A p \in Proc : req[p].pc # "idle" ~> req[p].pc = "idle"

-----------------------------------------------------------------------------
(* What the comments of things/service.go promise and the code does not do. *)

\* "CanAccessByID determines whether the channel can be accessed by the given
\* thing and returns error if it cannot": when requests are served one at a
\* time, access is granted only to a thing that is connected.
GrantedIsConnected ==
    \A p \in Proc :
        req[p].pc = "granted" => <<req[p].ch, req[p].th>> \in connections

\* "Identify returns thing ID for given thing key": when requests are served
\* one at a time, the thing named holds the key presented.
IdentifiedHoldsKey ==
    \A p \in Proc :
        req[p].pc = "identified" => thingKey[req[p].th] = req[p].key

\* "Disconnect removes thing from the channel's list of connected things":
\* once no request is in progress, an existing thing is in the cached list of
\* an existing channel only when it is connected to it.
QuiescentCoherence ==
    (\A p \in Proc : req[p].pc = "idle") =>
        \A x \in chanCache :
            ChannelExists(x[1]) /\ ThingExists(x[2]) => x \in connections
=============================================================================
