------------------------------- MODULE Twins -------------------------------
(***************************************************************************)
(* The twins service (twins/service.go): twins with their definitions and  *)
(* states in MongoDB (twins/mongodb), a Redis cache from attributes to     *)
(* twins (twins/redis/twins.go), and the NATS handler that records a state *)
(* of each twin a message concerns (cmd/twins/main.go, SaveStates).        *)
(*                                                                         *)
(* HTTP requests run concurrently, with a step for each call to a store.   *)
(* NATS calls the handler for one message at a time.  It reads a twin once *)
(* and then writes a state for each record, a step each; since only the    *)
(* handler touches the states, the state it carries from one record to the *)
(* next is the last row.                                                   *)
(*                                                                         *)
(* A record of a message has no time ("untimed"), or one within the        *)
(* definition's delta of the last state ("near"), or one beyond ("far").   *)
(* The SADDs of one Save, and the DEL and SREMs after the SMEMBERS of one  *)
(* Remove, are a step each, though Redis gets a command for each key; one  *)
(* that fails half way is modelled as one that did nothing.  A key of the  *)
(* cache is the pair of channel and subtopic that attrKey joins: no two    *)
(* pairs give the same string, channels being UUIDs.  One instance of the  *)
(* service handles the messages.                                           *)
(*                                                                         *)
(* The notifications of the service about itself are left out: the handler *)
(* skips their channel.                                                    *)
(***************************************************************************)
EXTENDS Naturals, Sequences, FiniteSets, SequencesExt

CONSTANTS
    TwinIDs,
    Definitions,   \* definitions in requests: sequences of attributes
    Messages,      \* [channel, subtopic, recs]
    Client,        \* HTTP clients
    MaxStates,     \* bound: states of one twin
    MaxRevision,   \* bound: updates of one twin
    MaxFaults,     \* bound: calls to a store that fail
    None, Removed  \* no twin yet, and no twin any more

ASSUME TwinsAssumption ==
    /\ \A d \in Definitions : d \in Seq(ToSet(d))
    /\ \A m \in Messages : m.recs \in Seq({"untimed", "near", "far"})
    /\ MaxStates \in Nat

Wildcard == ">"

(* Attribute: [name, channel, subtopic, persist].                          *)
Attributes == UNION {ToSet(d) : d \in Definitions}
MsgKeys == {<<m.channel, m.subtopic>> : m \in Messages}
Keys == {<<a.channel, a.subtopic>> : a \in Attributes} \cup MsgKeys
            \cup {<<m.channel, Wildcard>> : m \in Messages}

(* The documents of the two collections.                                   *)
Twin == [defs : Seq([id : Nat, attrs : Definitions]), revision : Nat]
State == [id : Nat, def : Nat, payload : SUBSET {a.name : a \in Attributes}]

ASSUME NoneAssumption == None \notin State

VARIABLES
    twins,     \* [TwinIDs -> [defs, revision], None, or Removed]
    states,    \* [TwinIDs -> Seq([id, def, payload])]
    byAttr,    \* cache: [Keys -> set of twins]
    byTwin,    \* cache: [TwinIDs -> set of keys]
    req,       \* [Client -> request in progress, or None]
    h,         \* the handler: message, bag of twins to do, twin in hand with
               \* its definition, record
    defined,   \* history: [TwinIDs -> definitions ever stored, with ids]
    faults

vars == <<twins, states, byAttr, byTwin, req, h, defined, faults>>
store == <<twins, states, defined>>
cache == <<byAttr, byTwin>>

Exists(t) == twins[t] \notin {None, Removed}
Idle == [pc |-> "idle", msg |-> None, ids |-> [t \in TwinIDs |-> 0],
         twin |-> None, def |-> None, n |-> 0]

KeysOf(attrs) == {<<a.channel, a.subtopic>> : a \in ToSet(attrs)}
LastDef(tw) == tw.defs[Len(tw.defs)]

(***************************************************************************)
(* The cache                                                               *)
(***************************************************************************)
(* SADD in both directions.                                                *)
CacheAdd(ids, keys) ==
    /\ byAttr' = [k \in Keys |-> IF k \in keys THEN byAttr[k] \cup ids ELSE byAttr[k]]
    /\ byTwin' = [t \in TwinIDs |-> IF t \in ids THEN byTwin[t] \cup keys ELSE byTwin[t]]

(* remove: DEL of the twin's key, SREM from the keys SMEMBERS had given.   *)
CacheRemove(t, keys) ==
    /\ byTwin' = [byTwin EXCEPT ![t] = {}]
    /\ byAttr' = [k \in Keys |-> IF k \in keys THEN byAttr[k] \ {t} ELSE byAttr[k]]

(***************************************************************************)
(* Requests                                                                *)
(***************************************************************************)
Begin(c, r) == req[c] = None /\ req' = [req EXCEPT ![c] = r]
End(c) == req' = [req EXCEPT ![c] = None]
At(c, pc) == req[c] # None /\ req[c].pc = pc

(* AddTwin, up to the insertion; the id is new.                            *)
AddTwin(c, t, d) ==
    /\ twins[t] = None
    /\ LET def == [id |-> 0, attrs |-> d] IN
       /\ twins' = [twins EXCEPT ![t] = [defs |-> <<def>>, revision |-> 0]]
       /\ defined' = [defined EXCEPT ![t] = @ \cup {def}]
    /\ Begin(c, [pc |-> "cacheSave", id |-> t, tw |-> None, def |-> d, keys |-> {}])
    /\ UNCHANGED <<states, cache, h, faults>>

CacheSave(c) ==
    /\ At(c, "cacheSave")
    /\ CacheAdd({req[c].id}, KeysOf(req[c].def))
    /\ End(c)
    /\ UNCHANGED <<store, h, faults>>

(* UpdateTwin: the twin is read, ...                                       *)
ReadTwin(c, t, d) ==
    /\ Exists(t) /\ twins[t].revision < MaxRevision
    /\ Begin(c, [pc |-> "write", id |-> t, tw |-> twins[t], def |-> d, keys |-> {}])
    /\ UNCHANGED <<store, cache, h, faults>>

(* ... changed and written as a whole.  A definition without attributes is *)
(* no change of the definitions; the name or the metadata changed then.    *)
RevisedSameID(tw, d) ==
    [defs |-> IF d = <<>> THEN tw.defs ELSE Append(tw.defs, [id |-> LastDef(tw).id, attrs |-> d]),
     revision |-> tw.revision + 1]

Revised(tw, d) ==
    [defs |-> IF d = <<>> THEN tw.defs
              ELSE Append(tw.defs, [id |-> LastDef(tw).id + 1, attrs |-> d]),
     revision |-> tw.revision + 1]

UpdateTwin(c) ==
    LET r == req[c]
        tw == Revised(r.tw, r.def)
    IN
    /\ At(c, "write")
    /\ IF Exists(r.id)
         THEN /\ twins' = [twins EXCEPT ![r.id] = tw]
              /\ defined' = [defined EXCEPT ![r.id] = @ \cup {LastDef(tw)}]
              /\ req' = [req EXCEPT ![c].pc = "members"]
         ELSE End(c) /\ UNCHANGED <<twins, defined>>
    /\ UNCHANGED <<states, cache, h, faults>>

RemoveTwin(c, t) ==
    /\ Exists(t)
    /\ twins' = [twins EXCEPT ![t] = Removed]
    /\ Begin(c, [pc |-> "members", id |-> t, tw |-> None, def |-> None, keys |-> {}])
    /\ UNCHANGED <<states, cache, h, defined, faults>>

(* twinCache.Update and Remove: SMEMBERS, then the removal.  Update goes   *)
(* on to save the twin of the request, which has no definitions: that adds *)
(* nothing.                                                                *)
CacheMembers(c) ==
    /\ At(c, "members")
    /\ req' = [req EXCEPT ![c].pc = "drop", ![c].keys = byTwin[req[c].id]]
    /\ UNCHANGED <<store, cache, h, faults>>

CacheDrop(c) ==
    /\ At(c, "drop")
    /\ CacheRemove(req[c].id, req[c].keys)
    /\ End(c)
    /\ UNCHANGED <<store, h, faults>>

(* A store does not answer: the request ends where it is.                  *)
RequestFails(c) ==
    /\ req[c] # None /\ faults < MaxFaults
    /\ End(c)
    /\ faults' = faults + 1
    /\ UNCHANGED <<store, cache, h>>

(***************************************************************************)
(* Messages                                                                *)
(***************************************************************************)
Deliver(m) ==
    /\ h.pc = "idle"
    /\ h' = [Idle EXCEPT !.pc = "ids", !.msg = m]
    /\ UNCHANGED <<store, cache, req, faults>>

Bag(s1, s2) ==
    [t \in TwinIDs |-> (IF t \in s1 THEN 1 ELSE 0) + (IF t \in s2 THEN 1 ELSE 0)]

(* twinCache.IDs: those under the subtopic and those under the wildcard,   *)
(* a twin that is in both twice.                                           *)
CacheIDs ==
    LET m == h.msg
        ids == Bag(byAttr[<<m.channel, m.subtopic>>], byAttr[<<m.channel, Wildcard>>])
    IN
    /\ h.pc = "ids"
    /\ h' = [h EXCEPT !.pc = IF \E t \in TwinIDs : ids[t] > 0 THEN "states" ELSE "retrieve",
                      !.ids = ids]
    /\ UNCHANGED <<store, cache, req, faults>>

(* The aggregation in MongoDB: some attribute of the last definition has   *)
(* the channel, some attribute the subtopic or the wildcard.               *)
ByAttribute(attrs, ch, st) ==
    /\ \E a \in ToSet(attrs) : a.channel = ch
    /\ \E a \in ToSet(attrs) : a.subtopic \in {st, Wildcard}

RetrieveByAttribute ==
    LET m == h.msg
        ids == {t \in TwinIDs : Exists(t) /\ ByAttribute(LastDef(twins[t]).attrs, m.channel, m.subtopic)}
    IN
    /\ h.pc = "retrieve"
    /\ h' = IF ids = {} THEN Idle ELSE [h EXCEPT !.pc = "saveIDs", !.ids = Bag(ids, {})]
    /\ UNCHANGED <<store, cache, req, faults>>

SaveIDsWildcard ==
    /\ h.pc = "saveIDs"
    /\ CacheAdd({t \in TwinIDs : h.ids[t] > 0}, {<<h.msg.channel, Wildcard>>})
    /\ h' = [h EXCEPT !.pc = "states"]
    /\ UNCHANGED <<store, req, faults>>

SaveIDs ==
    /\ h.pc = "saveIDs"
    /\ CacheAdd({t \in TwinIDs : h.ids[t] > 0}, {<<h.msg.channel, h.msg.subtopic>>})
    /\ h' = [h EXCEPT !.pc = "states"]
    /\ UNCHANGED <<store, req, faults>>

Persisted(attrs) == {a.name : a \in {b \in ToSet(attrs) : b.persist}}

(* The first attribute that is persisted and that the message matches.     *)
Matching(attrs, m) ==
    {i \in 1..Len(attrs) : /\ attrs[i].persist /\ attrs[i].channel = m.channel
                           /\ attrs[i].subtopic \in {Wildcard, m.subtopic}}
FirstMatching(attrs, m) ==
    attrs[CHOOSE i \in Matching(attrs, m) : \A j \in Matching(attrs, m) : i <= j]

(* The repository of states: RetrieveLast skips to the last row, Update     *)
(* filters by id.                                                          *)
RetrieveLast(rows) == IF rows = <<>> THEN None ELSE rows[Len(rows)]
UpdateRow(rows, st) == [i \in 1..Len(rows) |-> IF rows[i].id = st.id THEN st ELSE rows[i]]

(* prepareState for one record, and the write it asks for: attributes the  *)
(* definition no longer persists leave the payload, a record near the last *)
(* state updates it, any other makes a new one.                            *)
PrepareKeepingPayload(def, m, rows, rec) ==
    LET attr == FirstMatching(def.attrs, m)
        last == RetrieveLast(rows)
        payload == (IF last = None THEN {} ELSE last.payload) \cup {attr.name}
    IN  IF last # None /\ rec = "near"
          THEN UpdateRow(rows, [id |-> last.id, def |-> def.id, payload |-> payload])
          ELSE Append(rows, [id |-> IF last = None THEN 0 ELSE last.id + 1,
                             def |-> def.id, payload |-> payload])

PrepareFromFirst(def, m, rows, rec) ==
    LET attr == FirstMatching(def.attrs, m)
        payload == {attr.name}
    IN  IF rows # <<>> /\ rec = "near"
          THEN [rows EXCEPT ![1] = [id |-> rows[1].id, def |-> def.id, payload |-> payload]]
          ELSE Append(rows, [id |-> IF rows = <<>> THEN 0 ELSE rows[1].id + 1,
                             def |-> def.id, payload |-> payload])

PrepareState(def, m, rows, rec) ==
    LET attr == FirstMatching(def.attrs, m)
        last == RetrieveLast(rows)
        kept == IF last = None THEN {} ELSE last.payload \cap Persisted(def.attrs)
        payload == kept \cup {attr.name}
    IN  IF last # None /\ rec = "near"
          THEN UpdateRow(rows, [id |-> last.id, def |-> def.id, payload |-> payload])
          ELSE Append(rows, [id |-> IF last = None THEN 0 ELSE last.id + 1,
                             def |-> def.id, payload |-> payload])

(* saveState: the twin is read, and with it its last definition; ...       *)
NextTwin(ids) == IF \A u \in TwinIDs : ids[u] = 0 THEN Idle
                 ELSE [h EXCEPT !.pc = "states", !.ids = ids, !.twin = None, !.def = None, !.n = 0]

RetrieveTwin(t) ==
    LET ids == [h.ids EXCEPT ![t] = @ - 1]
        def == LastDef(twins[t])
    IN
    /\ h.pc = "states" /\ h.ids[t] > 0
    /\ h' = IF ~Exists(t) THEN Idle   \* the other twins are not looked at
            \* noop: a definition without a matching attribute ends it
            ELSE IF h.msg.recs = <<>> \/ Matching(def.attrs, h.msg) = {} THEN NextTwin(ids)
            ELSE [h EXCEPT !.pc = "record", !.ids = ids, !.twin = t, !.def = def, !.n = 1]
    /\ UNCHANGED <<store, cache, req, faults>>

(* ... a state is written for the next record.                             *)
SaveState ==
    LET t == h.twin
        rows == PrepareState(h.def, h.msg, states[t], h.msg.recs[h.n])
    IN
    /\ h.pc = "record"
    /\ Len(rows) <= MaxStates
    /\ states' = [states EXCEPT ![t] = rows]
    /\ h' = IF h.n < Len(h.msg.recs) THEN [h EXCEPT !.n = @ + 1] ELSE NextTwin(h.ids)
    /\ UNCHANGED <<twins, cache, req, defined, faults>>

(* A store fails in the handler, perhaps after some of the records.        *)
HandlerFails ==
    /\ h.pc # "idle" /\ faults < MaxFaults
    /\ faults' = faults + 1
    /\ h' = Idle
    /\ UNCHANGED <<store, cache, req>>

(***************************************************************************)
Init ==
    /\ twins = [t \in TwinIDs |-> None]
    /\ states = [t \in TwinIDs |-> <<>>]
    /\ byAttr = [k \in Keys |-> {}]
    /\ byTwin = [t \in TwinIDs |-> {}]
    /\ req = [c \in Client |-> None]
    /\ h = Idle
    /\ defined = [t \in TwinIDs |-> {}]
    /\ faults = 0

RequestStep(c) ==
    \/ CacheSave(c) \/ UpdateTwin(c) \/ CacheMembers(c) \/ CacheDrop(c) \/ RequestFails(c)

Request(c) ==
    \E t \in TwinIDs :
        RemoveTwin(c, t) \/ \E d \in Definitions : AddTwin(c, t, d) \/ ReadTwin(c, t, d)

HandlerStep ==
    \/ CacheIDs \/ RetrieveByAttribute \/ SaveIDs
    \/ (\E t \in TwinIDs : RetrieveTwin(t)) \/ SaveState \/ HandlerFails

Next ==
    \/ \E c \in Client : Request(c) \/ RequestStep(c)
    \/ \E m \in Messages : Deliver(m)
    \/ HandlerStep

Spec == Init /\ [][Next]_vars

(***************************************************************************)
(* Properties                                                              *)
(***************************************************************************)
TypeOK ==
    /\ \A t \in TwinIDs : twins[t] \in {None, Removed} \/ twins[t] \in Twin
    /\ \A t \in TwinIDs : states[t] \in Seq(State)
    /\ byAttr \in [Keys -> SUBSET TwinIDs]
    /\ byTwin \in [TwinIDs -> SUBSET Keys]

(* The definitions of a twin carry their positions as ids, from 0, also    *)
(* when requests that read the same revision overwrite each other.         *)
DefinitionsNumbered ==
    \A t \in TwinIDs : Exists(t) =>
        /\ twins[t].defs # <<>>
        /\ \A i \in 1..Len(twins[t].defs) : twins[t].defs[i].id = i - 1
        /\ Len(twins[t].defs) <= twins[t].revision + 1

(* The states of a twin are numbered 0, 1, ... in the order they are       *)
(* stored: RetrieveLast, which counts, finds the one with the highest id,  *)
(* and Update, which filters by id, changes that one row.                  *)
StatesNumbered ==
    \A t \in TwinIDs : \A i \in 1..Len(states[t]) : states[t][i].id = i - 1

(* A state holds values of attributes that the definition it names         *)
(* persists, and of no others: what a later definition dropped does not    *)
(* linger in the payload.  (Overlapping updates may replace a definition   *)
(* by another with the same id, hence "ever stored".)                      *)
PayloadsDefined ==
    \A t \in TwinIDs : \A s \in ToSet(states[t]) :
        \E d \in defined[t] : d.id = s.def /\ s.payload \subseteq Persisted(d.attrs)

(* A twin is cached under an attribute only if some definition of it had   *)
(* the channel, and the subtopic or the wildcard; so the handler never     *)
(* goes to a twin that had nothing to do with the message.                 *)
CacheProvenance ==
    \A k \in Keys : \A t \in byAttr[k] : \E d \in defined[t] : ByAttribute(d.attrs, k[1], k[2])

(* Recorded history is not rewritten: a step leaves all states of a twin   *)
(* as they are, the last one apart.                                        *)
HistoryKept ==
    [][\A t \in TwinIDs :
          /\ Len(states'[t]) >= Len(states[t])
          /\ \A i \in 1..Len(states[t]) - 1 : states'[t][i] = states[t][i]]_vars

(* twins/twins.go: TwinCache.Update "updates update twin id and            *)
(* channel-subtopic attributes mapping".  After an update that nobody      *)
(* interfered with, a message with an attribute of the twin leads to it.   *)
UpdatedIsFound ==
    [][\A t \in TwinIDs : Exists(t) /\ h.pc = "ids" /\ h'.pc = "states"
            /\ Matching(LastDef(twins[t]).attrs, h.msg) # {}
            /\ (\A c \in Client : req[c] = None) /\ faults = 0
          => h'.ids[t] > 0]_vars
=============================================================================
