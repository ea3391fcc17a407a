---------------------------- MODULE TwinsProofs ----------------------------
(***************************************************************************)
(* Proofs about the twins service, for any twins, definitions, messages    *)
(* and clients and any number of states, revisions and failing calls.      *)
(***************************************************************************)
EXTENDS Twins, WellFoundedInduction, TLAPS

Def == [id : Nat, attrs : Definitions]

Requested ==
    [pc : {"cacheSave", "write", "members", "drop"}, id : TwinIDs, tw : Twin \cup {None},
     def : Definitions \cup {None}, keys : SUBSET Keys]

Handling ==
    [pc : {"idle", "ids", "retrieve", "saveIDs", "states", "record"},
     msg : Messages \cup {None}, ids : [TwinIDs -> Nat],
     twin : TwinIDs \cup {None}, def : Def \cup {None}, n : Nat]

Types ==
    /\ twins \in [TwinIDs -> Twin \cup {None, Removed}]
    /\ states \in [TwinIDs -> Seq(State)]
    /\ byAttr \in [Keys -> SUBSET TwinIDs]
    /\ byTwin \in [TwinIDs -> SUBSET Keys]
    /\ req \in [Client -> Requested \cup {None}]
    /\ h \in Handling
    /\ defined \in [TwinIDs -> SUBSET Def]

(* A twin document, in the database or in the hands of a request: its      *)
(* definitions are numbered and have all been stored.                      *)
DocumentOK(tw, ever) ==
    /\ tw \in Twin /\ tw.defs # <<>>
    /\ \A i \in 1..Len(tw.defs) : tw.defs[i].id = i - 1
    /\ Len(tw.defs) <= tw.revision + 1
    /\ LastDef(tw) \in ever

DocumentsOK == \A t \in TwinIDs : Exists(t) => DocumentOK(twins[t], defined[t])

(* A request about to add to the cache has stored the definition, one      *)
(* about to write has read the twin.                                       *)
RequestOK(r, ever) ==
    r # None =>
        /\ r.pc = "cacheSave" =>
              r.def \in Definitions /\ [id |-> 0, attrs |-> r.def] \in ever[r.id]
        /\ r.pc = "write" => r.def \in Definitions /\ DocumentOK(r.tw, ever[r.id])

RequestsOK == \A c \in Client : RequestOK(req[c], defined)

(* The handler goes to the cache with twins that were found in the         *)
(* database, and to the states with a definition that was stored.          *)
HandlingOK(g, ever) ==
    /\ g.pc # "idle" => g.msg \in Messages
    /\ g.pc = "saveIDs" => \A t \in TwinIDs : g.ids[t] > 0 =>
          \E d \in ever[t] : ByAttribute(d.attrs, g.msg.channel, g.msg.subtopic)
    /\ g.pc = "record" =>
          /\ g.twin \in TwinIDs /\ g.def \in ever[g.twin]
          /\ Matching(g.def.attrs, g.msg) # {}
          /\ g.n \in 1..Len(g.msg.recs)

HandlerOK == HandlingOK(h, defined)

TwinsInv ==
    /\ Types
    /\ DocumentsOK
    /\ RequestsOK
    /\ HandlerOK
    /\ StatesNumbered
    /\ PayloadsDefined
    /\ CacheProvenance

-----------------------------------------------------------------------------
LEMMA InitInv == Init => TwinsInv
<1> SUFFICES ASSUME Init PROVE TwinsInv
    OBVIOUS
<1>1. Idle \in Handling /\ Idle.pc = "idle"
    BY DEF Idle, Handling
<1>2. Types
    BY <1>1 DEF Init, Types
<1>3. DocumentsOK
    BY DEF Init, DocumentsOK, Exists
<1>4. RequestsOK
    BY DEF Init, RequestsOK, RequestOK
<1>5. HandlerOK
    BY <1>1 DEF Init, HandlerOK, HandlingOK
<1>6. StatesNumbered /\ PayloadsDefined /\ CacheProvenance
    BY DEF Init, StatesNumbered, PayloadsDefined, CacheProvenance, ToSet
<1> QED
    BY <1>2, <1>3, <1>4, <1>5, <1>6 DEF TwinsInv

-----------------------------------------------------------------------------
(* Definitions are stored and never forgotten: what was stored once is all *)
(* that documents, requests, states and cache refer to.                    *)
Grows == defined' \in [TwinIDs -> SUBSET Def] /\ \A t \in TwinIDs : defined[t] \subseteq defined'[t]

LEMMA StillOK ==
    ASSUME TwinsInv, Grows
    PROVE  /\ \A t \in TwinIDs : Exists(t) => DocumentOK(twins[t], defined'[t])
           /\ \A c \in Client : RequestOK(req[c], defined')
           /\ HandlingOK(h, defined')
           /\ states' = states => PayloadsDefined'
           /\ byAttr' = byAttr => CacheProvenance'
<1> USE DEF TwinsInv, Grows
<1>1. \A t \in TwinIDs : Exists(t) => DocumentOK(twins[t], defined'[t])
    BY DEF DocumentsOK, DocumentOK
<1>2. ASSUME NEW c \in Client
      PROVE  RequestOK(req[c], defined')
  <2>1. RequestOK(req[c], defined) /\ (req[c] # None => req[c].id \in TwinIDs)
      BY DEF RequestsOK, Types, Requested
  <2> QED
      BY <2>1 DEF RequestOK, DocumentOK
<1>3. HandlingOK(h, defined')
    BY DEF HandlerOK, HandlingOK
<1>4. states' = states => PayloadsDefined'
    BY DEF PayloadsDefined
<1>5. byAttr' = byAttr => CacheProvenance'
  <2> SUFFICES ASSUME byAttr' = byAttr, NEW kk \in Keys, NEW t \in byAttr[kk]
               PROVE  \E d \in defined'[t] : ByAttribute(d.attrs, kk[1], kk[2])
      BY DEF CacheProvenance
  <2>1. t \in TwinIDs
      BY DEF Types
  <2> QED
      BY <2>1 DEF CacheProvenance
<1> QED
    BY <1>1, <1>2, <1>3, <1>4, <1>5

LEMMA AddTwinOK ==
    ASSUME TwinsInv, NEW c \in Client, NEW t \in TwinIDs, NEW d \in Definitions, AddTwin(c, t, d)
    PROVE  TwinsInv'
<1> DEFINE def == [id |-> 0, attrs |-> d]
           tw == [defs |-> <<def>>, revision |-> 0]
           r == [pc |-> "cacheSave", id |-> t, tw |-> None, def |-> d, keys |-> {}]
<1>0. Types
    BY DEF TwinsInv
<1>1. /\ twins' = [twins EXCEPT ![t] = tw]
      /\ defined' = [defined EXCEPT ![t] = defined[t] \cup {def}]
      /\ req' = [req EXCEPT ![c] = r]
      /\ UNCHANGED <<states, byAttr, byTwin, h>>
    BY DEF AddTwin, Begin, cache
<1>2. def \in Def /\ r \in Requested
    BY DEF Def, Requested
<1>3. tw \in Twin /\ tw.defs = <<def>> /\ tw.revision = 0
    BY <1>2 DEF Twin, Def
<1>4. LastDef(tw) = def /\ DocumentOK(tw, {def})
    BY <1>3 DEF LastDef, DocumentOK
<1>5. RequestOK(r, defined')
    BY <1>0, <1>1 DEF RequestOK, Types
<1> HIDE DEF def, tw, r
<1>6. Grows
    BY <1>0, <1>1, <1>2 DEF Grows, Types
<1>7. Types'
    BY <1>0, <1>1, <1>2, <1>3, <1>6 DEF Types, Grows
<1>8. DocumentsOK'
  <2> SUFFICES ASSUME NEW u \in TwinIDs, Exists(u)'
               PROVE  DocumentOK(twins'[u], defined'[u])
      BY DEF DocumentsOK
  <2>1. CASE u = t
      BY <1>0, <1>1, <1>4, <2>1 DEF DocumentOK, Types
  <2>2. CASE u # t
      BY <1>0, <1>1, <1>6, <2>2, StillOK DEF Exists, Types
  <2> QED
      BY <2>1, <2>2
<1>9. RequestsOK'
    BY <1>0, <1>1, <1>5, <1>6, StillOK DEF RequestsOK, Types
<1> QED
    BY <1>1, <1>6, <1>7, <1>8, <1>9, StillOK DEF TwinsInv, HandlerOK, StatesNumbered

(* Nothing but requests changes, and those that do are in order.           *)
LEMMA RequestOnly ==
    ASSUME TwinsInv, NEW c \in Client, NEW r \in Requested \cup {None}, RequestOK(r, defined),
           req' = [req EXCEPT ![c] = r],
           UNCHANGED <<twins, states, byAttr, byTwin, h, defined>>
    PROVE  TwinsInv'
<1>1. Types'
    BY DEF TwinsInv, Types
<1>2. RequestsOK'
    BY DEF TwinsInv, RequestsOK, Types
<1> QED
    BY <1>1, <1>2
       DEF TwinsInv, DocumentsOK, Exists, HandlerOK, StatesNumbered, PayloadsDefined, CacheProvenance

LEMMA NoRequest == None \in Requested \cup {None} /\ RequestOK(None, defined)
BY DEF RequestOK

LEMMA ReadTwinOK ==
    ASSUME TwinsInv, NEW c \in Client, NEW t \in TwinIDs, NEW d \in Definitions, ReadTwin(c, t, d)
    PROVE  TwinsInv'
<1> DEFINE r == [pc |-> "write", id |-> t, tw |-> twins[t], def |-> d, keys |-> {}]
<1>1. req' = [req EXCEPT ![c] = r] /\ UNCHANGED <<twins, states, byAttr, byTwin, h, defined>>
    BY DEF ReadTwin, Begin, cache, store
<1>2. DocumentOK(twins[t], defined[t])
    BY DEF ReadTwin, TwinsInv, DocumentsOK
<1>3. r \in Requested
    BY <1>2 DEF Requested, DocumentOK
<1>4. RequestOK(r, defined)
    BY <1>2 DEF RequestOK
<1> HIDE DEF r
<1> QED
    BY <1>1, <1>3, <1>4, RequestOnly

(* The document that UpdateTwin writes.                                    *)
LEMMA RevisedOK ==
    ASSUME NEW tw, NEW ever \in SUBSET Def, DocumentOK(tw, ever), NEW d \in Definitions
    PROVE  LET new == Revised(tw, d)
           IN  LastDef(new) \in Def /\ DocumentOK(new, ever \cup {LastDef(new)})
<1> DEFINE new == Revised(tw, d)
           def == [id |-> LastDef(tw).id + 1, attrs |-> d]
<1> SUFFICES LastDef(new) \in Def /\ DocumentOK(new, ever \cup {LastDef(new)})
    OBVIOUS
<1>1. /\ tw \in Twin /\ tw.defs \in Seq(Def) /\ tw.revision \in Nat /\ Len(tw.defs) > 0
      /\ Len(tw.defs) \in Nat
    BY DEF DocumentOK, Twin, Def
<1>2. LastDef(tw) \in Def /\ LastDef(tw).id = Len(tw.defs) - 1
    BY <1>1 DEF DocumentOK, LastDef
<1>3. new.revision = tw.revision + 1
    BY DEF Revised
<1>4. CASE d = <<>>
  <2>1. new.defs = tw.defs
      BY <1>4 DEF Revised
  <2>2. new \in Twin
    <3>1. new = [defs |-> tw.defs, revision |-> tw.revision + 1]
        BY <1>4 DEF Revised
    <3>2. tw.revision + 1 \in Nat
        BY <1>1
    <3> HIDE DEF new
    <3> QED
        BY <1>1, <3>1, <3>2 DEF Twin, Def
  <2>3. LastDef(new) = LastDef(tw)
      BY <2>1 DEF LastDef
  <2> HIDE DEF new
  <2> QED
      BY <1>1, <1>2, <1>3, <2>1, <2>2, <2>3 DEF DocumentOK
<1>5. CASE d # <<>>
  <2>1. new.defs = Append(tw.defs, def)
      BY <1>5 DEF Revised
  <2>2. def \in Def /\ def.id = Len(tw.defs)
      BY <1>1, <1>2 DEF Def
  <2>3. new \in Twin
    <3>1. Append(tw.defs, def) \in Seq(Def)
        BY <1>1, <2>2
    <3>2. new = [defs |-> Append(tw.defs, def), revision |-> tw.revision + 1]
        BY <1>5 DEF Revised
    <3>3. tw.revision + 1 \in Nat
        BY <1>1
    <3> HIDE DEF def, new
    <3> QED
        BY <3>1, <3>2, <3>3 DEF Twin, Def
  <2> HIDE DEF def, new
  <2>4. /\ Len(new.defs) = Len(tw.defs) + 1 /\ new.defs[Len(tw.defs) + 1] = def
        /\ \A i \in 1..Len(tw.defs) : new.defs[i] = tw.defs[i]
        /\ new.defs # <<>>
    <3>1. PICK s : s = tw.defs
        OBVIOUS
    <3>2. s \in Seq(Def) /\ new.defs = Append(s, def)
        BY <1>1, <2>1, <3>1
    <3>3. /\ Len(Append(s, def)) = Len(s) + 1 /\ Append(s, def)[Len(s) + 1] = def
          /\ \A i \in 1..Len(s) : Append(s, def)[i] = s[i]
          /\ Append(s, def) # <<>>
        BY <2>2, <3>2
    <3> QED
        BY <3>1, <3>2, <3>3
  <2>5. LastDef(new) = def
      BY <2>4 DEF LastDef
  <2>6. \A i \in 1..Len(new.defs) : new.defs[i].id = i - 1
    <3> SUFFICES ASSUME NEW i \in 1..Len(new.defs) PROVE new.defs[i].id = i - 1
        OBVIOUS
    <3>1. i = Len(tw.defs) + 1 \/ i \in 1..Len(tw.defs)
        BY <1>1, <2>4
    <3>2. CASE i = Len(tw.defs) + 1
        BY <1>1, <2>2, <2>4, <3>2
    <3>3. CASE i \in 1..Len(tw.defs)
        BY <2>4, <3>3 DEF DocumentOK
    <3> QED
        BY <3>1, <3>2, <3>3
  <2>7. Len(new.defs) <= new.revision + 1
      BY <1>1, <1>3, <2>4 DEF DocumentOK
  <2> QED
      BY <2>2, <2>3, <2>4, <2>5, <2>6, <2>7 DEF DocumentOK
<1> QED
    BY <1>4, <1>5

LEMMA UpdateTwinOK ==
    ASSUME TwinsInv, NEW c \in Client, UpdateTwin(c)
    PROVE  TwinsInv'
<1>0. Types
    BY DEF TwinsInv
<1>1. /\ req[c] # None /\ req[c] \in Requested /\ req[c].pc = "write"
      /\ UNCHANGED <<states, byAttr, byTwin, h>>
    BY <1>0 DEF UpdateTwin, At, Types, cache
<1>2. /\ req[c].id \in TwinIDs /\ req[c].def \in Definitions
      /\ DocumentOK(req[c].tw, defined[req[c].id])
    BY <1>1 DEF TwinsInv, RequestsOK, RequestOK, Requested
<1>3. CASE ~Exists(req[c].id)
  <2>1. req' = [req EXCEPT ![c] = None] /\ UNCHANGED <<twins, defined>>
      BY <1>3 DEF UpdateTwin, End
  <2> QED
      BY <1>1, <2>1, NoRequest, RequestOnly
<1>4. CASE Exists(req[c].id)
  <2>1. PICK t : t = req[c].id
      OBVIOUS
  <2>2. PICK tw : tw = Revised(req[c].tw, req[c].def)
      OBVIOUS
  <2>3. PICK r : r = [req[c] EXCEPT !.pc = "members"]
      OBVIOUS
  <2>4. /\ twins' = [twins EXCEPT ![t] = tw]
        /\ defined' = [defined EXCEPT ![t] = defined[t] \cup {LastDef(tw)}]
        /\ req' = [req EXCEPT ![c] = r]
      BY <1>4, <2>1, <2>2, <2>3 DEF UpdateTwin
  <2>5. t \in TwinIDs /\ defined[t] \in SUBSET Def
      BY <1>0, <1>2, <2>1 DEF Types
  <2>6. LastDef(tw) \in Def /\ DocumentOK(tw, defined[t] \cup {LastDef(tw)})
      BY <1>2, <2>1, <2>2, <2>5, RevisedOK
  <2>7. r \in Requested /\ r.pc = "members"
      BY <1>1, <2>3 DEF Requested
  <2>8. RequestOK(r, defined')
      BY <2>7 DEF RequestOK
  <2>9. Grows
      BY <1>0, <2>4, <2>5, <2>6 DEF Grows, Types
  <2>10. Types'
      BY <1>0, <1>1, <2>4, <2>6, <2>7, <2>9 DEF Types, Grows, DocumentOK
  <2>11. DocumentsOK'
    <3> SUFFICES ASSUME NEW u \in TwinIDs, Exists(u)'
                 PROVE  DocumentOK(twins'[u], defined'[u])
        BY DEF DocumentsOK
    <3>1. CASE u = t
        BY <1>0, <2>4, <2>6, <3>1 DEF Types
    <3>2. CASE u # t
        BY <1>0, <2>4, <2>9, <3>2, StillOK DEF Exists, Types
    <3> QED
        BY <3>1, <3>2
  <2>12. RequestsOK'
      BY <1>0, <2>4, <2>8, <2>9, StillOK DEF RequestsOK, Types
  <2> QED
      BY <1>1, <2>9, <2>10, <2>11, <2>12, StillOK DEF TwinsInv, HandlerOK, StatesNumbered
<1> QED
    BY <1>3, <1>4

LEMMA RemoveTwinOK ==
    ASSUME TwinsInv, NEW c \in Client, NEW t \in TwinIDs, RemoveTwin(c, t)
    PROVE  TwinsInv'
<1> DEFINE r == [pc |-> "members", id |-> t, tw |-> None, def |-> None, keys |-> {}]
<1>1. /\ req' = [req EXCEPT ![c] = r] /\ twins' = [twins EXCEPT ![t] = Removed]
      /\ UNCHANGED <<states, byAttr, byTwin, h, defined>>
    BY DEF RemoveTwin, Begin, cache
<1>2. r \in Requested /\ r.pc = "members"
    BY DEF Requested
<1>3. RequestOK(r, defined)
    BY <1>2 DEF RequestOK
<1> HIDE DEF r
<1>4. Types'
    BY <1>1, <1>2 DEF TwinsInv, Types
<1>5. DocumentsOK'
    BY <1>1 DEF TwinsInv, Types, DocumentsOK, Exists
<1>6. RequestsOK'
    BY <1>1, <1>3 DEF TwinsInv, Types, RequestsOK
<1> QED
    BY <1>1, <1>4, <1>5, <1>6
       DEF TwinsInv, HandlerOK, StatesNumbered, PayloadsDefined, CacheProvenance

-----------------------------------------------------------------------------
LEMMA KeysCached ==
    ASSUME NEW d \in Definitions
    PROVE  /\ KeysOf(d) \subseteq Keys
           /\ \A kk \in KeysOf(d) : ByAttribute(d, kk[1], kk[2])
<1>1. \A a \in ToSet(d) : a \in Attributes
    BY DEF Attributes
<1> QED
    BY <1>1 DEF KeysOf, Keys, ByAttribute

(* Twins are added to the cache under keys of definitions they had.        *)
LEMMA CacheAddOK ==
    ASSUME Types, CacheProvenance, NEW ids \in SUBSET TwinIDs, NEW keys \in SUBSET Keys,
           CacheAdd(ids, keys), defined' = defined,
           \A kk \in keys : \A t \in ids : \E d \in defined[t] : ByAttribute(d.attrs, kk[1], kk[2])
    PROVE  /\ byAttr' \in [Keys -> SUBSET TwinIDs]
           /\ byTwin' \in [TwinIDs -> SUBSET Keys]
           /\ CacheProvenance'
<1>1. byAttr' = [kk \in Keys |-> IF kk \in keys THEN byAttr[kk] \cup ids ELSE byAttr[kk]]
    BY DEF CacheAdd
<1>2. byAttr' \in [Keys -> SUBSET TwinIDs]
    BY <1>1 DEF Types
<1>3. byTwin' \in [TwinIDs -> SUBSET Keys]
    BY DEF CacheAdd, Types
<1>4. CacheProvenance'
    BY <1>1 DEF CacheProvenance
<1> QED
    BY <1>2, <1>3, <1>4

LEMMA CacheSaveOK ==
    ASSUME TwinsInv, NEW c \in Client, CacheSave(c)
    PROVE  TwinsInv'
<1>0. Types /\ CacheProvenance
    BY DEF TwinsInv
<1>1. /\ req[c] # None /\ req[c] \in Requested /\ req[c].pc = "cacheSave"
      /\ req' = [req EXCEPT ![c] = None]
      /\ UNCHANGED <<twins, states, defined, h>>
      /\ CacheAdd({req[c].id}, KeysOf(req[c].def))
    BY <1>0 DEF CacheSave, At, End, Types, store
<1>2. /\ req[c].id \in TwinIDs /\ req[c].def \in Definitions
      /\ [id |-> 0, attrs |-> req[c].def] \in defined[req[c].id]
    BY <1>1 DEF TwinsInv, RequestsOK, RequestOK, Requested
<1>3. \A kk \in KeysOf(req[c].def) : \A t \in {req[c].id} :
          \E d \in defined[t] : ByAttribute(d.attrs, kk[1], kk[2])
  <2> SUFFICES ASSUME NEW kk \in KeysOf(req[c].def)
               PROVE  \E d \in defined[req[c].id] : ByAttribute(d.attrs, kk[1], kk[2])
      OBVIOUS
  <2>1. PICK d \in defined[req[c].id] : d = [id |-> 0, attrs |-> req[c].def]
      BY <1>2
  <2>2. d.attrs = req[c].def
      BY <2>1
  <2> QED
      BY <1>2, <2>2, KeysCached
<1>a. {req[c].id} \in SUBSET TwinIDs /\ KeysOf(req[c].def) \in SUBSET Keys
    BY <1>2, KeysCached
<1>4. /\ byAttr' \in [Keys -> SUBSET TwinIDs]
      /\ byTwin' \in [TwinIDs -> SUBSET Keys]
      /\ CacheProvenance'
    BY <1>0, <1>1, <1>3, <1>a, CacheAddOK
<1>5. Types'
    BY <1>0, <1>1, <1>4 DEF Types
<1>6. RequestsOK'
    BY <1>0, <1>1, NoRequest DEF TwinsInv, RequestsOK, Types
<1> QED
    BY <1>1, <1>4, <1>5, <1>6
       DEF TwinsInv, DocumentsOK, Exists, HandlerOK, StatesNumbered, PayloadsDefined

LEMMA CacheMembersOK ==
    ASSUME TwinsInv, NEW c \in Client, CacheMembers(c)
    PROVE  TwinsInv'
<1>0. Types
    BY DEF TwinsInv
<1>1. /\ req[c] # None /\ req[c] \in Requested
      /\ UNCHANGED <<twins, states, byAttr, byTwin, h, defined>>
    BY <1>0 DEF CacheMembers, At, Types, store, cache
<1>2. PICK r : r = [req[c] EXCEPT !.pc = "drop", !.keys = byTwin[req[c].id]]
    OBVIOUS
<1>3. req' = [req EXCEPT ![c] = r]
    BY <1>2 DEF CacheMembers
<1>4. byTwin[req[c].id] \in SUBSET Keys
    BY <1>0, <1>1 DEF Types, Requested
<1>5. r \in Requested /\ r.pc = "drop"
    BY <1>1, <1>2, <1>4 DEF Requested
<1>6. RequestOK(r, defined)
    BY <1>5 DEF RequestOK
<1> QED
    BY <1>1, <1>3, <1>5, <1>6, RequestOnly

LEMMA CacheDropOK ==
    ASSUME TwinsInv, NEW c \in Client, CacheDrop(c)
    PROVE  TwinsInv'
<1>0. Types /\ CacheProvenance
    BY DEF TwinsInv
<1>1. /\ req' = [req EXCEPT ![c] = None] /\ UNCHANGED <<twins, states, defined, h>>
      /\ CacheRemove(req[c].id, req[c].keys)
    BY DEF CacheDrop, End, store
<1>2. /\ byAttr' \in [Keys -> SUBSET TwinIDs]
      /\ byTwin' \in [TwinIDs -> SUBSET Keys]
      /\ \A kk \in Keys : byAttr'[kk] \subseteq byAttr[kk]
    BY <1>0, <1>1 DEF CacheRemove, Types
<1>3. CacheProvenance'
    BY <1>0, <1>1, <1>2 DEF CacheProvenance
<1>4. Types'
    BY <1>0, <1>1, <1>2 DEF Types
<1>5. RequestsOK'
    BY <1>0, <1>1, NoRequest DEF TwinsInv, RequestsOK, Types
<1> QED
    BY <1>1, <1>3, <1>4, <1>5
       DEF TwinsInv, DocumentsOK, Exists, HandlerOK, StatesNumbered, PayloadsDefined

LEMMA RequestFailsOK ==
    ASSUME TwinsInv, NEW c \in Client, RequestFails(c)
    PROVE  TwinsInv'
BY NoRequest, RequestOnly DEF RequestFails, End, store, cache

-----------------------------------------------------------------------------
(* Nothing but the handler changes.                                        *)
LEMMA HandlerOnly ==
    ASSUME TwinsInv, NEW g \in Handling, HandlingOK(g, defined), h' = g,
           UNCHANGED <<twins, states, byAttr, byTwin, req, defined>>
    PROVE  TwinsInv'
<1>1. Types'
    BY DEF TwinsInv, Types
<1>2. HandlerOK'
    BY DEF HandlerOK
<1> QED
    BY <1>1, <1>2
       DEF TwinsInv, DocumentsOK, Exists, RequestsOK, StatesNumbered, PayloadsDefined, CacheProvenance

LEMMA IdleOK == Idle \in Handling /\ HandlingOK(Idle, defined)
BY DEF Idle, Handling, HandlingOK

LEMMA DeliverOK ==
    ASSUME TwinsInv, NEW m \in Messages, Deliver(m)
    PROVE  TwinsInv'
<1>1. h' = [Idle EXCEPT !.pc = "ids", !.msg = m]
      /\ UNCHANGED <<twins, states, byAttr, byTwin, req, defined>>
    BY DEF Deliver, store, cache
<1>2. h' \in Handling /\ h'.pc = "ids" /\ h'.msg = m
    BY <1>1, IdleOK DEF Handling
<1>3. HandlingOK(h', defined)
    BY <1>2 DEF HandlingOK
<1> QED
    BY <1>1, <1>2, <1>3, HandlerOnly

LEMMA CacheIDsOK ==
    ASSUME TwinsInv, CacheIDs
    PROVE  TwinsInv'
<1>1. PICK ids : /\ ids = Bag(byAttr[<<h.msg.channel, h.msg.subtopic>>],
                              byAttr[<<h.msg.channel, Wildcard>>])
                 /\ h' = [h EXCEPT !.pc = IF \E t \in TwinIDs : ids[t] > 0 THEN "states" ELSE "retrieve",
                                   !.ids = ids]
    BY DEF CacheIDs
<1>2. UNCHANGED <<twins, states, byAttr, byTwin, req, defined>> /\ h.pc = "ids" /\ h \in Handling
    BY DEF CacheIDs, store, cache, TwinsInv, Types
<1>3. ids \in [TwinIDs -> Nat]
    BY <1>1 DEF Bag
<1>4. h' \in Handling /\ h'.pc \in {"states", "retrieve"} /\ h'.msg = h.msg
    BY <1>1, <1>2, <1>3 DEF Handling
<1>5. HandlingOK(h', defined)
    BY <1>2, <1>4 DEF HandlingOK, HandlerOK, TwinsInv
<1> QED
    BY <1>2, <1>4, <1>5, HandlerOnly

LEMMA RetrieveByAttributeOK ==
    ASSUME TwinsInv, RetrieveByAttribute
    PROVE  TwinsInv'
<1>1. PICK ids :
          /\ ids = {t \in TwinIDs : Exists(t) /\ ByAttribute(LastDef(twins[t]).attrs, h.msg.channel, h.msg.subtopic)}
          /\ h' = IF ids = {} THEN Idle ELSE [h EXCEPT !.pc = "saveIDs", !.ids = Bag(ids, {})]
    BY DEF RetrieveByAttribute
<1>2. UNCHANGED <<twins, states, byAttr, byTwin, req, defined>> /\ h.pc = "retrieve" /\ h \in Handling
    BY DEF RetrieveByAttribute, store, cache, TwinsInv, Types
<1>3. CASE ids = {}
    BY <1>1, <1>2, <1>3, IdleOK, HandlerOnly
<1>4. CASE ids # {}
  <2>1. Bag(ids, {}) \in [TwinIDs -> Nat] /\ \A t \in TwinIDs : Bag(ids, {})[t] > 0 => t \in ids
      BY DEF Bag
  <2>2. h' \in Handling /\ h'.pc = "saveIDs" /\ h'.msg = h.msg /\ h'.ids = Bag(ids, {})
      BY <1>1, <1>2, <1>4, <2>1 DEF Handling
  <2>3. \A t \in ids : \E d \in defined[t] : ByAttribute(d.attrs, h.msg.channel, h.msg.subtopic)
      BY <1>1 DEF TwinsInv, DocumentsOK, DocumentOK
  <2>4. h.msg \in Messages
      BY <1>2 DEF TwinsInv, HandlerOK, HandlingOK
  <2>5. HandlingOK(h', defined)
      BY <2>1, <2>2, <2>3, <2>4 DEF HandlingOK
  <2> QED
      BY <1>2, <2>2, <2>5, HandlerOnly
<1> QED
    BY <1>3, <1>4

LEMMA SaveIDsOK ==
    ASSUME TwinsInv, SaveIDs
    PROVE  TwinsInv'
<1>0. Types /\ CacheProvenance
    BY DEF TwinsInv
<1>1. PICK ids : ids = {t \in TwinIDs : h.ids[t] > 0}
    OBVIOUS
<1>2. PICK kk : kk = <<h.msg.channel, h.msg.subtopic>>
    OBVIOUS
<1>3. /\ h.pc = "saveIDs" /\ CacheAdd(ids, {kk}) /\ h' = [h EXCEPT !.pc = "states"]
      /\ UNCHANGED <<twins, states, defined, req>>
    BY <1>1, <1>2 DEF SaveIDs, store
<1>4. h.msg \in Messages /\ kk \in Keys
  <2>1. h.msg \in Messages
      BY <1>3 DEF TwinsInv, HandlerOK, HandlingOK
  <2> QED
      BY <1>2, <2>1 DEF Keys, MsgKeys
<1>5. \A t \in ids : \E d \in defined[t] : ByAttribute(d.attrs, kk[1], kk[2])
    BY <1>1, <1>2, <1>3 DEF TwinsInv, HandlerOK, HandlingOK
<1>6. /\ byAttr' \in [Keys -> SUBSET TwinIDs]
      /\ byTwin' \in [TwinIDs -> SUBSET Keys]
      /\ CacheProvenance'
  <2>1. ids \in SUBSET TwinIDs /\ {kk} \in SUBSET Keys /\ defined' = defined
      BY <1>1, <1>3, <1>4
  <2>2. \A ll \in {kk} : \A t \in ids : \E d \in defined[t] : ByAttribute(d.attrs, ll[1], ll[2])
      BY <1>5
  <2> QED
      BY <1>0, <1>3, <2>1, <2>2, CacheAddOK
<1>7. h' \in Handling /\ h'.pc = "states" /\ h'.msg = h.msg
    BY <1>0, <1>3 DEF Types, Handling
<1>8. Types'
    BY <1>0, <1>3, <1>6, <1>7 DEF Types
<1>9. HandlerOK'
    BY <1>4, <1>7 DEF HandlerOK, HandlingOK
<1> QED
    BY <1>3, <1>6, <1>8, <1>9
       DEF TwinsInv, DocumentsOK, Exists, RequestsOK, StatesNumbered, PayloadsDefined

LEMMA NextTwinOK ==
    ASSUME Types, h.msg \in Messages, NEW ids \in [TwinIDs -> Nat]
    PROVE  NextTwin(ids) \in Handling /\ HandlingOK(NextTwin(ids), defined)
<1> DEFINE g == [h EXCEPT !.pc = "states", !.ids = ids, !.twin = None, !.def = None, !.n = 0]
<1>1. g \in Handling /\ g.pc = "states" /\ g.msg = h.msg
    BY DEF Types, Handling
<1>2. HandlingOK(g, defined)
    BY <1>1 DEF HandlingOK
<1> QED
    BY <1>1, <1>2, IdleOK DEF NextTwin

LEMMA RetrieveTwinOK ==
    ASSUME TwinsInv, NEW t \in TwinIDs, RetrieveTwin(t)
    PROVE  TwinsInv'
<1>0. Types
    BY DEF TwinsInv
<1>1. PICK ids : ids = [h.ids EXCEPT ![t] = h.ids[t] - 1]
    OBVIOUS
<1>2. PICK def : def = LastDef(twins[t])
    OBVIOUS
<1>3. /\ h.pc = "states" /\ h.ids[t] > 0 /\ h \in Handling
      /\ UNCHANGED <<twins, states, byAttr, byTwin, req, defined>>
    BY <1>0 DEF RetrieveTwin, store, cache, Types
<1>4. h.msg \in Messages
    BY <1>3 DEF TwinsInv, HandlerOK, HandlingOK
<1>5. ids \in [TwinIDs -> Nat]
    BY <1>1, <1>3 DEF Handling
<1>6. h' = IF ~Exists(t) THEN Idle
           ELSE IF h.msg.recs = <<>> \/ Matching(def.attrs, h.msg) = {} THEN NextTwin(ids)
           ELSE [h EXCEPT !.pc = "record", !.ids = ids, !.twin = t, !.def = def, !.n = 1]
    BY <1>1, <1>2 DEF RetrieveTwin
<1>7. CASE h' = Idle
    BY <1>3, <1>7, IdleOK, HandlerOnly
<1>8. CASE h' = NextTwin(ids)
    BY <1>0, <1>3, <1>4, <1>5, <1>8, NextTwinOK, HandlerOnly
<1>9. CASE /\ Exists(t) /\ h.msg.recs # <<>> /\ Matching(def.attrs, h.msg) # {}
           /\ h' = [h EXCEPT !.pc = "record", !.ids = ids, !.twin = t, !.def = def, !.n = 1]
  <2>1. def \in defined[t] /\ def \in Def
      BY <1>0, <1>2, <1>9 DEF TwinsInv, DocumentsOK, DocumentOK, Types
  <2>2. 1 \in 1..Len(h.msg.recs)
    <3>1. PICK s : s = h.msg.recs
        OBVIOUS
    <3>2. s \in Seq({"untimed", "near", "far"}) /\ s # <<>>
        BY <1>4, <1>9, <3>1, TwinsAssumption
    <3>3. 1 \in 1..Len(s)
        BY <3>2
    <3> QED
        BY <3>1, <3>3
  <2>3. /\ h' \in Handling /\ h'.pc = "record" /\ h'.msg = h.msg /\ h'.twin = t
        /\ h'.def = def /\ h'.n = 1
      BY <1>3, <1>5, <1>9, <2>1 DEF Handling
  <2>4. HandlingOK(h', defined)
      BY <1>4, <1>9, <2>1, <2>2, <2>3 DEF HandlingOK
  <2> QED
      BY <1>3, <2>3, <2>4, HandlerOnly
<1> QED
    BY <1>6, <1>7, <1>8, <1>9

(* The attribute whose value a record sets is persisted.                   *)
LEMMA FirstMatchingPersisted ==
    ASSUME NEW d \in Definitions, NEW m, Matching(d, m) # {}
    PROVE  FirstMatching(d, m).name \in Persisted(d)
<1>1. d \in Seq(ToSet(d))
    BY TwinsAssumption
<1>2. Matching(d, m) \subseteq Nat
    BY DEF Matching
<1>3. PICK i \in Matching(d, m) : \A j \in Matching(d, m) : ~(<<j, i>> \in OpToRel(<, Nat))
    BY <1>2, NatLessThanWellFounded, WFMin
<1>4. \A j \in Matching(d, m) : i <= j
  <2> SUFFICES ASSUME NEW j \in Matching(d, m) PROVE i <= j
      OBVIOUS
  <2>1. i \in Nat /\ j \in Nat
      BY <1>2, <1>3
  <2>2. ~(j < i)
      BY <1>3, <2>1 DEF OpToRel
  <2> QED
      BY <2>1, <2>2
<1>5. PICK n \in Matching(d, m) : FirstMatching(d, m) = d[n]
    BY <1>4 DEF FirstMatching
<1>6. n \in 1..Len(d) /\ d[n].persist
    BY <1>5 DEF Matching
<1>7. d[n] \in ToSet(d)
    BY <1>1, <1>6
<1> QED
    BY <1>5, <1>6, <1>7 DEF Persisted

Numbered(rows) == \A i \in 1..Len(rows) : rows[i].id = i - 1

(* What prepareState and the write after it do to the rows of a twin.      *)
LEMMA PrepareStateOK ==
    ASSUME NEW def \in Def, NEW m, Matching(def.attrs, m) # {}, NEW rec,
           NEW rows \in Seq(State), Numbered(rows)
    PROVE  LET new == PrepareState(def, m, rows, rec) IN
           /\ new \in Seq(State) /\ Numbered(new)
           /\ Len(new) >= Len(rows)
           /\ \A i \in 1..Len(rows) - 1 : new[i] = rows[i]
           /\ \A i \in 1..Len(new) :
                 \/ i \in 1..Len(rows) /\ new[i] = rows[i]
                 \/ new[i].def = def.id /\ new[i].payload \subseteq Persisted(def.attrs)
<1> DEFINE last == RetrieveLast(rows)
           kept == IF last = None THEN {} ELSE last.payload \cap Persisted(def.attrs)
           payload == kept \cup {FirstMatching(def.attrs, m).name}
           upd == [id |-> last.id, def |-> def.id, payload |-> payload]
           add == [id |-> IF last = None THEN 0 ELSE last.id + 1, def |-> def.id, payload |-> payload]
           new == PrepareState(def, m, rows, rec)
<1> SUFFICES /\ new \in Seq(State) /\ Numbered(new)
             /\ Len(new) >= Len(rows)
             /\ \A i \in 1..Len(rows) - 1 : new[i] = rows[i]
             /\ \A i \in 1..Len(new) :
                   \/ i \in 1..Len(rows) /\ new[i] = rows[i]
                   \/ new[i].def = def.id /\ new[i].payload \subseteq Persisted(def.attrs)
    OBVIOUS
<1>1. /\ def.attrs \in Definitions /\ def.id \in Nat
      /\ payload \subseteq Persisted(def.attrs)
    BY FirstMatchingPersisted DEF Def
<1>2. payload \in SUBSET {a.name : a \in Attributes}
  <2>1. ToSet(def.attrs) \subseteq Attributes
      BY <1>1 DEF Attributes
  <2>2. Persisted(def.attrs) \subseteq {a.name : a \in Attributes}
      BY <2>1 DEF Persisted
  <2> QED
      BY <1>1, <2>2
<1>3. Len(rows) \in Nat /\ (rows # <<>> <=> Len(rows) > 0)
    OBVIOUS
<1>4. rows # <<>> => last \in State /\ last # None /\ last.id = Len(rows) - 1
  <2> SUFFICES ASSUME rows # <<>> PROVE last \in State /\ last # None /\ last.id = Len(rows) - 1
      OBVIOUS
  <2>1. Len(rows) \in 1..Len(rows) /\ last = rows[Len(rows)]
      BY <1>3 DEF RetrieveLast
  <2>2. last \in State
      BY <2>1
  <2> QED
      BY <2>1, <2>2, NoneAssumption DEF Numbered
<1>5. rows = <<>> => last = None
    BY DEF RetrieveLast
<1>6. new = IF last # None /\ rec = "near" THEN UpdateRow(rows, upd) ELSE Append(rows, add)
    BY DEF PrepareState
<1>7. add \in State /\ add.id = Len(rows) /\ add.def = def.id /\ add.payload = payload
  <2>1. (IF last = None THEN 0 ELSE last.id + 1) = Len(rows)
      BY <1>3, <1>4, <1>5
  <2> HIDE DEF last, payload
  <2> QED
      BY <1>1, <1>2, <1>3, <2>1 DEF State
<1>8. last # None => upd \in State /\ upd.id = Len(rows) - 1 /\ upd.def = def.id /\ upd.payload = payload
  <2> SUFFICES ASSUME last # None
               PROVE  upd \in State /\ upd.id = Len(rows) - 1 /\ upd.def = def.id /\ upd.payload = payload
      OBVIOUS
  <2>1. last.id \in Nat /\ last.id = Len(rows) - 1
      BY <1>3, <1>4, <1>5 DEF State
  <2> HIDE DEF last, payload
  <2> QED
      BY <1>1, <1>2, <2>1 DEF State
<1> HIDE DEF new, upd, add, payload, kept
<1>9. CASE last # None /\ rec = "near"
  <2>1. new = [i \in 1..Len(rows) |-> IF rows[i].id = upd.id THEN upd ELSE rows[i]]
      BY <1>6, <1>9 DEF UpdateRow
  <2>2. new = [i \in 1..Len(rows) |-> IF i = Len(rows) THEN upd ELSE rows[i]]
    <3>1. \A i \in 1..Len(rows) : rows[i].id = upd.id <=> i = Len(rows)
        BY <1>3, <1>8, <1>9 DEF Numbered
    <3> QED
        BY <2>1, <3>1
  <2>3. /\ new \in Seq(State) /\ Len(new) = Len(rows)
        /\ \A i \in 1..Len(rows) : new[i] = IF i = Len(rows) THEN upd ELSE rows[i]
      BY <1>3, <1>8, <1>9, <2>2
  <2> QED
      BY <1>1, <1>3, <1>8, <1>9, <2>3 DEF Numbered
<1>10. CASE ~(last # None /\ rec = "near")
  <2>1. new = Append(rows, add)
      BY <1>6, <1>10
  <2>2. /\ new \in Seq(State) /\ Len(new) = Len(rows) + 1
        /\ \A i \in 1..Len(rows) : new[i] = rows[i]
        /\ new[Len(rows) + 1] = add
      BY <1>7, <2>1
  <2>3. \A i \in 1..Len(new) : i \in 1..Len(rows) \/ i = Len(rows) + 1
      BY <1>3, <2>2
  <2>4. Numbered(new)
      BY <1>3, <1>7, <2>2, <2>3 DEF Numbered
  <2> QED
      BY <1>1, <1>3, <1>7, <2>2, <2>3, <2>4
<1> QED
    BY <1>9, <1>10

(* What a step of the handler may do to the states of a twin.              *)
History(old, new) ==
    /\ Len(new) >= Len(old)
    /\ \A i \in 1..Len(old) - 1 : new[i] = old[i]

LEMMA SaveStateOK ==
    ASSUME TwinsInv, SaveState
    PROVE  TwinsInv' /\ \A t \in TwinIDs : History(states[t], states'[t])
<1>0. Types /\ StatesNumbered /\ PayloadsDefined
    BY DEF TwinsInv
<1>a. PICK t, def, m, rec : t = h.twin /\ def = h.def /\ m = h.msg /\ rec = h.msg.recs[h.n]
    OBVIOUS
<1>b. PICK old, rows : old = states[t] /\ rows = PrepareState(def, m, old, rec)
    OBVIOUS
<1>1. /\ t = h.twin /\ def = h.def
      /\ rows = PrepareState(h.def, h.msg, states[t], h.msg.recs[h.n])
    BY <1>a, <1>b
<1>2. /\ h.pc = "record" /\ states' = [states EXCEPT ![t] = rows]
      /\ h' = IF h.n < Len(h.msg.recs) THEN [h EXCEPT !.n = @ + 1] ELSE NextTwin(h.ids)
      /\ UNCHANGED <<twins, byAttr, byTwin, req, defined>>
    BY <1>1 DEF SaveState, cache
<1>3. /\ t \in TwinIDs /\ def \in defined[t] /\ Matching(def.attrs, h.msg) # {}
      /\ h.n \in 1..Len(h.msg.recs) /\ h.msg \in Messages
    BY <1>1, <1>2 DEF TwinsInv, HandlerOK, HandlingOK
<1>4. def \in Def /\ states[t] \in Seq(State) /\ Numbered(states[t]) /\ h \in Handling
    BY <1>0, <1>3 DEF Types, StatesNumbered, Numbered
<1>5. /\ rows \in Seq(State) /\ Numbered(rows) /\ History(states[t], rows)
      /\ \A i \in 1..Len(rows) :
            \/ i \in 1..Len(states[t]) /\ rows[i] = states[t][i]
            \/ rows[i].def = def.id /\ rows[i].payload \subseteq Persisted(def.attrs)
  <2>1. Matching(def.attrs, m) # {} /\ old \in Seq(State) /\ Numbered(old)
      BY <1>3, <1>4, <1>a, <1>b
  <2>2. LET new == PrepareState(def, m, old, rec) IN
        /\ new \in Seq(State) /\ Numbered(new)
        /\ Len(new) >= Len(old)
        /\ \A i \in 1..Len(old) - 1 : new[i] = old[i]
        /\ \A i \in 1..Len(new) :
              \/ i \in 1..Len(old) /\ new[i] = old[i]
              \/ new[i].def = def.id /\ new[i].payload \subseteq Persisted(def.attrs)
      BY <1>4, <2>1, PrepareStateOK, Zenon
  <2> QED
      BY <1>b, <2>2, Zenon DEF History
<1>6. h' \in Handling /\ HandlingOK(h', defined)
  <2>1. CASE h.n < Len(h.msg.recs)
    <3>1. h' = [h EXCEPT !.n = h.n + 1]
        BY <1>2, <2>1
    <3>2. /\ h' \in Handling /\ h'.pc = "record" /\ h'.msg = h.msg /\ h'.twin = h.twin
          /\ h'.def = h.def /\ h'.n = h.n + 1
        BY <1>2, <1>4, <3>1 DEF Handling
    <3>3. h.n + 1 \in 1..Len(h.msg.recs)
      <4>1. Len(h.msg.recs) \in Nat
          BY <1>3, TwinsAssumption
      <4> QED
          BY <1>3, <2>1, <4>1
    <3> QED
        BY <1>1, <1>3, <3>2, <3>3 DEF HandlingOK
  <2>2. CASE ~(h.n < Len(h.msg.recs))
    <3>1. h' = NextTwin(h.ids) /\ h.ids \in [TwinIDs -> Nat]
        BY <1>2, <1>4, <2>2 DEF Handling
    <3> QED
        BY <1>0, <1>3, <3>1, NextTwinOK
  <2> QED
      BY <2>1, <2>2
<1>7. Types'
    BY <1>0, <1>2, <1>5, <1>6 DEF Types
<1>8. StatesNumbered'
  <2> SUFFICES ASSUME NEW u \in TwinIDs PROVE Numbered(states'[u])
      BY DEF StatesNumbered, Numbered
  <2>1. states'[u] = IF u = t THEN rows ELSE states[u]
      BY <1>0, <1>2 DEF Types
  <2>2. Numbered(states[u])
      BY <1>0 DEF StatesNumbered, Numbered
  <2> QED
      BY <1>5, <2>1, <2>2
<1>9. PayloadsDefined'
  <2> SUFFICES ASSUME NEW u \in TwinIDs, NEW s \in ToSet(states'[u])
               PROVE  \E d \in defined[u] : d.id = s.def /\ s.payload \subseteq Persisted(d.attrs)
      BY <1>2 DEF PayloadsDefined
  <2>1. CASE u # t
    <3>1. states'[u] = states[u]
        BY <1>0, <1>2, <2>1 DEF Types
    <3> QED
        BY <1>0, <3>1 DEF PayloadsDefined
  <2>2. CASE u = t
    <3>1. s \in ToSet(rows)
        BY <1>0, <1>2, <2>2 DEF Types
    <3>2. PICK i \in 1..Len(rows) : s = rows[i]
        BY <1>5, <3>1 DEF ToSet
    <3>3. CASE i \in 1..Len(states[t]) /\ rows[i] = states[t][i]
      <4>1. s \in ToSet(states[t])
          BY <1>4, <3>2, <3>3 DEF ToSet
      <4> QED
          BY <1>0, <2>2, <4>1 DEF PayloadsDefined
    <3>4. CASE rows[i].def = def.id /\ rows[i].payload \subseteq Persisted(def.attrs)
        BY <1>3, <2>2, <3>2, <3>4
    <3> QED
        BY <1>5, <3>3, <3>4
  <2> QED
      BY <2>1, <2>2
<1>10. \A u \in TwinIDs : History(states[u], states'[u])
  <2> SUFFICES ASSUME NEW u \in TwinIDs PROVE History(states[u], states'[u])
      OBVIOUS
  <2>1. CASE u = t
      BY <1>0, <1>2, <1>5, <2>1 DEF Types
  <2>2. CASE u # t
    <3>1. states'[u] = states[u] /\ states[u] \in Seq(State)
        BY <1>0, <1>2, <2>2 DEF Types
    <3> QED
        BY <3>1 DEF History
  <2> QED
      BY <2>1, <2>2
<1>11. HandlerOK'
    BY <1>2, <1>6 DEF HandlerOK
<1> QED
    BY <1>2, <1>7, <1>8, <1>9, <1>10, <1>11
       DEF TwinsInv, DocumentsOK, Exists, RequestsOK, CacheProvenance

LEMMA HandlerFailsOK ==
    ASSUME TwinsInv, HandlerFails
    PROVE  TwinsInv'
BY IdleOK, HandlerOnly DEF HandlerFails, store, cache

-----------------------------------------------------------------------------
LEMMA NextInv ==
    ASSUME TwinsInv, [Next]_vars
    PROVE  TwinsInv' /\ \A t \in TwinIDs : History(states[t], states'[t])
<1>0. ASSUME states' = states
      PROVE  \A t \in TwinIDs : History(states[t], states'[t])
  <2> SUFFICES ASSUME NEW t \in TwinIDs PROVE History(states[t], states'[t])
      OBVIOUS
  <2>1. states'[t] = states[t] /\ Len(states[t]) \in Nat
      BY <1>0 DEF TwinsInv, Types
  <2> QED
      BY <2>1 DEF History
<1>1. ASSUME NEW c \in Client, Request(c) \/ RequestStep(c)
      PROVE  TwinsInv' /\ states' = states
  <2>1. TwinsInv'
      BY <1>1, AddTwinOK, ReadTwinOK, RemoveTwinOK, CacheSaveOK, UpdateTwinOK, CacheMembersOK,
         CacheDropOK, RequestFailsOK
         DEF Request, RequestStep
  <2>2. states' = states
      BY <1>1
         DEF Request, RequestStep, AddTwin, ReadTwin, RemoveTwin, CacheSave, UpdateTwin,
             CacheMembers, CacheDrop, RequestFails, store
  <2> QED
      BY <2>1, <2>2
<1>2. ASSUME NEW m \in Messages, Deliver(m)
      PROVE  TwinsInv' /\ states' = states
    BY <1>2, DeliverOK DEF Deliver, store
<1>3. ASSUME CacheIDs \/ RetrieveByAttribute \/ SaveIDs \/ (\E t \in TwinIDs : RetrieveTwin(t))
             \/ HandlerFails
      PROVE  TwinsInv' /\ states' = states
  <2>1. TwinsInv'
      BY <1>3, CacheIDsOK, RetrieveByAttributeOK, SaveIDsOK, RetrieveTwinOK, HandlerFailsOK
  <2>2. states' = states
      BY <1>3 DEF CacheIDs, RetrieveByAttribute, SaveIDs, RetrieveTwin, HandlerFails, store
  <2> QED
      BY <2>1, <2>2
<1>4. ASSUME UNCHANGED vars
      PROVE  TwinsInv' /\ states' = states
    BY <1>4
       DEF vars, TwinsInv, Types, DocumentsOK, Exists, RequestsOK, HandlerOK, StatesNumbered,
           PayloadsDefined, CacheProvenance
<1> QED
    BY <1>0, <1>1, <1>2, <1>3, <1>4, SaveStateOK DEF Next, HandlerStep

LEMMA Invariance == Spec => []TwinsInv
<1>1. TwinsInv /\ [Next]_vars => TwinsInv'
    BY NextInv
<1> QED
    BY InitInv, <1>1, PTL DEF Spec

(* The definitions of a twin carry their positions as ids, whatever        *)
(* updates overlap: UpdateTwin (twins/service.go) numbers a definition     *)
(* after the last of the document it read and writes that document whole.  *)
THEOREM DefinitionsAreNumbered == Spec => []DefinitionsNumbered
<1>1. TwinsInv => DefinitionsNumbered
    BY DEF TwinsInv, DocumentsOK, DocumentOK, DefinitionsNumbered
<1> QED
    BY <1>1, Invariance, PTL

(* A state holds attributes that the definition it names persists          *)
(* (prepareState), also when the definition changed since the handler read *)
(* the twin.                                                               *)
THEOREM PayloadsAreDefined == Spec => []PayloadsDefined
<1>1. TwinsInv => PayloadsDefined
    BY DEF TwinsInv
<1> QED
    BY <1>1, Invariance, PTL

(* The cache of twins (twins/redis/twins.go) leads a message only to twins *)
(* that had an attribute for it.                                           *)
THEOREM CacheHasProvenance == Spec => []CacheProvenance
<1>1. TwinsInv => CacheProvenance
    BY DEF TwinsInv
<1> QED
    BY <1>1, Invariance, PTL

(* No step rewrites a state but the last of a twin: the ids that Update of *)
(* twins/mongodb/states.go filters by are positions.                       *)
THEOREM HistoryIsKept == Spec => HistoryKept
<1>1. TwinsInv /\ [Next]_vars =>
          [\A t \in TwinIDs :
              /\ Len(states'[t]) >= Len(states[t])
              /\ \A i \in 1..Len(states[t]) - 1 : states'[t][i] = states[t][i]]_vars
    BY NextInv DEF History
<1> QED
    BY <1>1, Invariance, PTL DEF Spec, HistoryKept
=============================================================================
