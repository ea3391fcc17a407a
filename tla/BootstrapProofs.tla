--------------------------- MODULE BootstrapProofs ---------------------------
(***************************************************************************)
(* Proofs about the bootstrap service, for any number of things, channels, *)
(* users and requests, any stream, and any number of failures.             *)
(***************************************************************************)
EXTENDS Bootstrap, TLAPS

-----------------------------------------------------------------------------
(* What a request carries at each of its calls.                            *)

RequestOK(r) ==
    /\ r \in RequestType
    /\ r.op = "None" <=> r.pc = "idle"
    /\ r.op # "None" => r.own \in Owners
    /\ r.op = "Add" => r.ext \in ExtIDs
    /\ r.given => r.th \in ThingIDs
    /\ r.op \in {"Update", "ChangeState", "Remove"} => r.th \in ThingIDs
    /\ r.pc \in {"get", "save", "undo", "drop"} => r.op = "Add" /\ r.th \in ThingIDs
    /\ r.pc = "create" => r.op = "Add"
    /\ r.pc \in {"store", "tidy", "commit"} => r.op = "Update"

RequestsOK ==
    /\ req \in [Proc -> RequestType]
    /\ \A p \in Proc : RequestOK(req[p])

ConfigInv == ConfigTypeOK /\ ConfigIntegrity

ServiceInv == RequestsOK /\ ConfigInv

LEMMA IdleOK == RequestOK(Idle)
BY DEF RequestOK, RequestType, Idle, PCs, Ops, States

LEMMA ReplaceOK ==
    ASSUME RequestsOK, NEW p \in Proc, NEW r, RequestOK(r),
           req' = [req EXCEPT ![p] = r]
    PROVE  RequestsOK'
BY DEF RequestsOK, RequestOK

LEMMA ReturnOK ==
    ASSUME RequestsOK, NEW p \in Proc, Return(p)
    PROVE  RequestsOK'
BY IdleOK, ReplaceOK DEF Return

\* A request may go on to a call whose needs it meets.
LEMMA GotoOK ==
    ASSUME RequestsOK, NEW p \in Proc, NEW l \in PCs \ {"idle"}, Goto(p, l),
           req[p].op # "None",
           l \in {"get", "save", "undo", "drop"} =>
               req[p].op = "Add" /\ req[p].th \in ThingIDs,
           l = "create" => req[p].op = "Add",
           l \in {"store", "tidy", "commit"} => req[p].op = "Update"
    PROVE  RequestsOK'
<1> DEFINE r == [req[p] EXCEPT !.pc = l]
<1>1. RequestOK(req[p])
    BY DEF RequestsOK
<1>2. RequestOK(r)
    BY <1>1 DEF RequestOK, RequestType
<1>3. req' = [req EXCEPT ![p] = r]
    BY DEF Goto
<1>4. QED
    BY <1>2, <1>3, ReplaceOK

\* A request enters its transaction.
LEMMA EnterOK ==
    ASSUME RequestsOK, NEW p \in Proc, NEW l \in {"tidy", "commit"},
           NEW gone \in SUBSET ChannelIDs, Enter(p, l, gone), req[p].op = "Update"
    PROVE  /\ req' = [req EXCEPT ![p] = [req[p] EXCEPT !.pc = l, !.from = gone, !.todo = {}]]
           /\ RequestsOK'
<1> DEFINE r == [req[p] EXCEPT !.pc = l, !.from = gone, !.todo = {}]
<1>1. RequestOK(req[p])
    BY DEF RequestsOK
<1>2. RequestOK(r)
    BY <1>1 DEF RequestOK, RequestType, PCs
<1>3. req' = [req EXCEPT ![p] = r]
    BY DEF Enter, RequestsOK
<1>4. QED
    BY <1>2, <1>3, ReplaceOK

\* A request has selected the channels to delete.
LEMMA SelectOK ==
    ASSUME RequestsOK, NEW p \in Proc, NEW l \in {"commit", "sweep"},
           NEW S \in SUBSET ChannelIDs, req[p].op # "None",
           l = "commit" => req[p].op = "Update",
           req' = [req EXCEPT ![p].pc = l, ![p].todo = S]
    PROVE  /\ req' = [req EXCEPT ![p] = [req[p] EXCEPT !.pc = l, !.todo = S]]
           /\ RequestsOK'
<1> DEFINE r == [req[p] EXCEPT !.pc = l, !.todo = S]
<1>1. RequestOK(req[p])
    BY DEF RequestsOK
<1>2. RequestOK(r)
    BY <1>1 DEF RequestOK, RequestType, PCs
<1>3. req' = [req EXCEPT ![p] = r]
    BY DEF RequestsOK
<1>4. QED
    BY <1>2, <1>3, ReplaceOK

\* The loops lead a request to a call whose needs it meets.
LEMMA ContinueOK ==
    ASSUME RequestsOK, NEW p \in Proc, NEW r \in RequestType, RequestOK(r),
           r.op # "None", Continue(p, r)
    PROVE  RequestsOK'
<1> DEFINE s == [r EXCEPT !.pc = NextPC(r)]
<1>1. /\ NextPC(r) \in PCs \ {"idle", "save", "undo", "drop", "tidy", "commit", "sweep"}
      /\ NextPC(r) = "get" => r.op = "Add" /\ r.given
      /\ NextPC(r) = "create" => r.op = "Add"
      /\ NextPC(r) = "store" => r.op = "Update"
  <2>1. CASE r.todo # {}
      BY <2>1 DEF NextPC, PCs
  <2>2. CASE r.todo = {} /\ r.op = "Add"
      BY <2>2 DEF NextPC, PCs
  <2>3. CASE r.todo = {} /\ r.op # "Add"
    <3>1. r.from \ r.to # {} \/ (r.from \subseteq r.to /\ r.to # r.from) \/ r.from = r.to
        OBVIOUS
    <3>2. QED
        BY <2>3, <3>1 DEF NextPC, PCs
  <2>4. QED
      BY <2>1, <2>2, <2>3
<1>2. RequestOK(s)
    BY <1>1 DEF RequestOK, RequestType
<1>3. req' = [req EXCEPT ![p] = s]
    BY DEF Continue
<1>4. QED
    BY <1>2, <1>3, ReplaceOK

-----------------------------------------------------------------------------
(* The tables.                                                             *)

LEMMA ConfigUnchanged ==
    ASSUME ConfigInv, UNCHANGED configVars
    PROVE  ConfigInv'
BY DEF ConfigInv, ConfigTypeOK, ConfigIntegrity, ConfigExists, configVars, tables

\* Deleting a config deletes its connections.
LEMMA DeleteConfigOK ==
    ASSUME ConfigInv, NEW t, DeleteConfig(t), UNCHANGED bsChannels
    PROVE  ConfigInv'
<1> USE StoreAssumption, BootstrapAssumption
<1>1. ConfigTypeOK'
    BY DEF ConfigInv, ConfigTypeOK, DeleteConfig, States
<1>2. ConfigIntegrity'
    BY DEF ConfigInv, ConfigTypeOK, ConfigIntegrity, ConfigExists, DeleteConfig
<1>3. QED
    BY <1>1, <1>2 DEF ConfigInv

\* Deleting channels leaves the connections of the others whole.
LEMMA SweepOK ==
    ASSUME ConfigInv, NEW S, Sweep(S)
    PROVE  ConfigInv'
<1>1. ConfigTypeOK'
    BY DEF ConfigInv, ConfigTypeOK, Sweep, Without
<1>2. \A x \in bsConns' : x \in bsConns /\ bsChannels'[x[1]] = bsChannels[x[1]]
    BY DEF ConfigInv, ConfigTypeOK, Sweep, Without
<1>3. ConfigIntegrity'
    BY <1>2 DEF ConfigInv, ConfigIntegrity, ConfigExists, Sweep
<1>4. QED
    BY <1>1, <1>3 DEF ConfigInv

\* Save: the new row, its channels and its connections.
LEMMA SaveOK ==
    ASSUME ConfigInv, NEW r \in RequestType, RequestOK(r), r.pc = "save", Saveable(r),
           cfgOwner' = [cfgOwner EXCEPT ![r.th] = r.own],
           cfgState' = [cfgState EXCEPT ![r.th] = "Inactive"],
           cfgExt' = [cfgExt EXCEPT ![r.th] = r.ext],
           bsChannels' = Inserted(r.own, r.want),
           bsConns' = bsConns \cup (r.want \X {r.th})
    PROVE  ConfigInv'
<1> USE StoreAssumption, BootstrapAssumption
<1>1. /\ r.own \in Owners /\ r.ext \in ExtIDs /\ r.th \in ThingIDs
      /\ r.want \subseteq ChannelIDs
      /\ r.own # None /\ r.ext # None
    BY DEF RequestOK, RequestType
<1>2. ConfigTypeOK'
    BY <1>1 DEF ConfigInv, ConfigTypeOK, Inserted, States
<1>3. \A c \in ChannelIDs : bsChannels'[c] = IF c \in r.want THEN r.own ELSE bsChannels[c]
    BY DEF Inserted
<1>4. \A c \in r.want : bsChannels[c] \in {None, r.own}
    BY DEF Saveable, Insertable
<1>5. ASSUME NEW x \in bsConns'
      PROVE  cfgOwner'[x[2]] # None /\ bsChannels'[x[1]] = cfgOwner'[x[2]]
  <2>1. CASE x \in bsConns
    <3>1. /\ x[1] \in ChannelIDs /\ x[2] \in ThingIDs
          /\ cfgOwner[x[2]] # None /\ bsChannels[x[1]] = cfgOwner[x[2]]
        BY <2>1 DEF ConfigInv, ConfigTypeOK, ConfigIntegrity, ConfigExists
    <3>2. cfgOwner'[x[2]] = cfgOwner[x[2]]
        BY <3>1 DEF Saveable, ConfigExists, ConfigInv, ConfigTypeOK
    <3>3. bsChannels'[x[1]] = bsChannels[x[1]]
        BY <3>1, <1>3, <1>4
    <3>4. QED
        BY <3>1, <3>2, <3>3
  <2>2. CASE x \in r.want \X {r.th}
      BY <2>2, <1>1, <1>3 DEF ConfigInv, ConfigTypeOK
  <2>3. QED
      BY <2>1, <2>2
<1>6. \A t \in ThingIDs : cfgOwner'[t] # None <=> cfgExt'[t] # None
    BY <1>1 DEF ConfigInv, ConfigTypeOK, ConfigIntegrity, ConfigExists
<1>7. \A t, u \in ThingIDs : cfgOwner'[t] # None /\ cfgExt'[t] = cfgExt'[u] => t = u
    BY <1>1 DEF ConfigInv, ConfigTypeOK, ConfigIntegrity, ConfigExists, Saveable
<1>8. QED
    BY <1>2, <1>5, <1>6, <1>7 DEF ConfigInv, ConfigIntegrity, ConfigExists

\* UpdateConnections: the connections of one config replaced, the channels
\* that its cleanup selected deleted.
LEMMA CommitOK ==
    ASSUME RequestsOK, ConfigInv, NEW p \in Proc, CommitConnections(p)
    PROVE  ConfigInv'
<1> USE StoreAssumption
<1> DEFINE r == req[p]
           conns == Replaced(r)
           chans == Inserted(r.own, r.want)
<1>1. CASE Committable(r)
  <2>1. /\ r.own \in Owners /\ r.th \in ThingIDs /\ r.want \subseteq ChannelIDs
        /\ r.own # None /\ cfgOwner[r.th] = r.own
      BY <1>1 DEF CommitConnections, Committable, RequestsOK, RequestOK, RequestType
  <2>2. /\ bsConns' = {x \in conns : x[1] \notin r.todo}
        /\ bsChannels' = Without(chans, r.todo)
        /\ UNCHANGED <<cfgOwner, cfgState, cfgExt>>
      BY <1>1 DEF CommitConnections
  <2>3. chans \in [ChannelIDs -> Owners \cup {None}]
      BY <2>1 DEF Inserted, ConfigInv, ConfigTypeOK
  <2>4. conns \subseteq ChannelIDs \X ThingIDs
      BY <2>1 DEF ConfigInv, ConfigTypeOK, Replaced
  <2>5. ConfigTypeOK'
    <3>1. bsChannels' \in [ChannelIDs -> Owners \cup {None}]
        BY <2>2, <2>3 DEF Without
    <3>2. bsConns' \subseteq ChannelIDs \X ThingIDs
        BY <2>2, <2>4
    <3>3. QED
        BY <2>2, <3>1, <3>2 DEF ConfigInv, ConfigTypeOK
  <2>6. \A c \in r.want : bsChannels[c] \in {None, r.own}
      BY <1>1 DEF Committable, Insertable
  <2>7. ASSUME NEW x \in conns
        PROVE  x[1] \in ChannelIDs /\ cfgOwner[x[2]] # None /\ chans[x[1]] = cfgOwner[x[2]]
    <3>1. CASE x \in bsConns
        BY <3>1, <2>1, <2>6
           DEF Inserted, ConfigInv, ConfigTypeOK, ConfigIntegrity, ConfigExists
    <3>2. CASE x \in r.want \X {r.th}
        BY <3>2, <2>1 DEF Inserted
    <3>3. QED
        BY <3>1, <3>2 DEF Replaced
  <2>8. \A x \in bsConns' : x \in conns /\ bsChannels'[x[1]] = chans[x[1]]
    <3> HIDE DEF conns, chans
    <3>1. QED
        BY <2>2, <2>4 DEF Without
  <2>9. ConfigIntegrity'
    <3> HIDE DEF conns, chans
    <3>1. QED
        BY <2>2, <2>7, <2>8 DEF ConfigInv, ConfigIntegrity, ConfigExists
  <2>10. QED
      BY <2>5, <2>9 DEF ConfigInv
<1>2. CASE ~Committable(r)
    BY <1>2, ConfigUnchanged DEF CommitConnections
<1>3. QED
    BY <1>1, <1>2

-----------------------------------------------------------------------------
(* The steps.                                                              *)

LEMMA InitOK == Init => ServiceInv
<1> SUFFICES ASSUME Init PROVE ServiceInv
    OBVIOUS
<1>1. RequestsOK
    BY IdleOK DEF Init, RequestsOK, RequestOK
<1>2. ConfigInv
    BY DEF Init, ConfigInv, ConfigTypeOK, ConfigIntegrity, ConfigExists, States
<1>3. QED
    BY <1>1, <1>2 DEF ServiceInv

\* The requests of users.
LEMMA Arrivals ==
    ASSUME NEW p \in Proc,
           Add(p) \/ UpdateConnections(p) \/ ChangeState(p) \/ Remove(p)
    PROVE  \E r : /\ Arrive(p, r) /\ RequestOK(r) /\ ~Holds(r)
                  /\ r.op = "Add" /\ ~r.given => r.th = None
<1>1. CASE Add(p)
  <2>1. PICK o \in Owners, t \in ThingIDs \cup {None}, C \in SUBSET ChannelIDs,
             e \in ExtIDs :
           Arrive(p, [Idle EXCEPT !.op = "Add", !.pc = "list", !.own = o, !.th = t,
                                  !.given = (t # None), !.ext = e,
                                  !.want = C, !.todo = C])
      BY <1>1 DEF Add
  <2> DEFINE r == [Idle EXCEPT !.op = "Add", !.pc = "list", !.own = o, !.th = t,
                               !.given = (t # None), !.ext = e,
                               !.want = C, !.todo = C]
  <2>2. RequestOK(r) /\ ~Holds(r) /\ (r.op = "Add" /\ ~r.given => r.th = None)
      BY <2>1 DEF RequestOK, RequestType, Holds, Idle, PCs, Ops, States
  <2>3. QED
      BY <2>1, <2>2
<1>2. CASE UpdateConnections(p)
  <2>1. PICK o \in Owners, t \in ThingIDs, C \in SUBSET ChannelIDs :
           Arrive(p, [Idle EXCEPT !.op = "Update", !.pc = "load", !.own = o, !.th = t,
                                  !.want = C, !.todo = C])
      BY <1>2 DEF UpdateConnections
  <2> DEFINE r == [Idle EXCEPT !.op = "Update", !.pc = "load", !.own = o, !.th = t,
                               !.want = C, !.todo = C]
  <2>2. RequestOK(r) /\ ~Holds(r) /\ (r.op = "Add" /\ ~r.given => r.th = None)
      BY <2>1 DEF RequestOK, RequestType, Holds, Idle, PCs, Ops, States
  <2>3. QED
      BY <2>1, <2>2
<1>3. CASE ChangeState(p)
  <2>1. PICK o \in Owners, t \in ThingIDs, s \in States :
           Arrive(p, [Idle EXCEPT !.op = "ChangeState", !.pc = "load", !.own = o,
                                  !.th = t, !.st = s])
      BY <1>3 DEF ChangeState
  <2> DEFINE r == [Idle EXCEPT !.op = "ChangeState", !.pc = "load", !.own = o,
                               !.th = t, !.st = s]
  <2>2. RequestOK(r) /\ ~Holds(r) /\ (r.op = "Add" /\ ~r.given => r.th = None)
      BY <2>1 DEF RequestOK, RequestType, Holds, Idle, PCs, Ops
  <2>3. QED
      BY <2>1, <2>2
<1>4. CASE Remove(p)
  <2>1. PICK o \in Owners, t \in ThingIDs :
           Arrive(p, [Idle EXCEPT !.op = "Remove", !.pc = "del", !.own = o, !.th = t])
      BY <1>4 DEF Remove
  <2> DEFINE r == [Idle EXCEPT !.op = "Remove", !.pc = "del", !.own = o, !.th = t]
  <2>2. RequestOK(r) /\ ~Holds(r) /\ (r.op = "Add" /\ ~r.given => r.th = None)
      BY <2>1 DEF RequestOK, RequestType, Holds, Idle, PCs, Ops, States
  <2>3. QED
      BY <2>1, <2>2
<1>5. QED
    BY <1>1, <1>2, <1>3, <1>4

LEMMA ArrivalOK ==
    ASSUME ServiceInv, NEW p \in Proc,
           Add(p) \/ UpdateConnections(p) \/ ChangeState(p) \/ Remove(p)
    PROVE  ServiceInv'
<1>1. PICK r : Arrive(p, r) /\ RequestOK(r)
    BY Arrivals
<1>2. RequestsOK'
    BY <1>1, ReplaceOK DEF ServiceInv, Arrive
<1>3. ConfigInv'
    BY <1>1, ConfigUnchanged DEF ServiceInv, Arrive
<1>4. QED
    BY <1>2, <1>3 DEF ServiceInv

\* Calls that leave the service's own tables alone.
LEMMA CallOK ==
    ASSUME ServiceInv, NEW p \in Proc,
           \/ ListExisting(p) \/ FetchChannel(p) \/ DisconnectThing(p)
           \/ ConnectThing(p) \/ CreateThing(p) \/ GetThing(p) \/ DropThing(p)
           \/ LoadConfig(p) \/ LoadChannels(p) \/ StoreConnections(p)
           \/ TidyChannels(p) \/ RemoveCleanup(p) \/ RequestFails(p)
    PROVE  ServiceInv'
<1>1. RequestsOK /\ RequestOK(req[p])
    BY DEF ServiceInv, RequestsOK
<1> DEFINE r == req[p]
<1>2. r \in RequestType
    BY <1>1 DEF RequestOK
<1>3. ConfigInv'
  <2>1. UNCHANGED configVars
      BY DEF ListExisting, FetchChannel, DisconnectThing, ConnectThing, CreateThing,
             GetThing, DropThing, LoadConfig, LoadChannels, StoreConnections,
             TidyChannels, RemoveCleanup, RequestFails
  <2>2. QED
      BY <2>1, ConfigUnchanged DEF ServiceInv
<1>4. RequestsOK'
  <2>1. CASE ListExisting(p)
    <3> DEFINE known == {c \in r.want : bsChannels[c] = r.own}
               s == [r EXCEPT !.known = known, !.todo = @ \ known]
    <3>1. Continue(p, s) /\ r.pc = "list"
        BY <2>1 DEF ListExisting
    <3>2. s \in RequestType /\ RequestOK(s) /\ s.op # "None"
        BY <1>1, <1>2, <3>1 DEF RequestOK, RequestType
    <3>3. QED
        BY <1>1, <3>1, <3>2, ContinueOK
  <2>2. CASE FetchChannel(p)
    <3>1. r.pc = "fetch"
        BY <2>2 DEF FetchChannel
    <3>2. PICK c \in r.todo :
             Continue(p, [r EXCEPT !.todo = @ \ {c}]) \/ Return(p)
        BY <2>2 DEF FetchChannel
    <3> DEFINE s == [r EXCEPT !.todo = @ \ {c}]
    <3>3. s \in RequestType /\ RequestOK(s) /\ s.op # "None"
        BY <1>1, <1>2, <3>1 DEF RequestOK, RequestType
    <3>4. QED
        BY <1>1, <3>2, <3>3, ContinueOK, ReturnOK
  <2>3. CASE DisconnectThing(p)
    <3>1. r.pc = "disc"
        BY <2>3 DEF DisconnectThing
    <3>2. PICK c \in r.from \ r.to : Continue(p, [r EXCEPT !.from = @ \ {c}])
        BY <2>3 DEF DisconnectThing
    <3> DEFINE s == [r EXCEPT !.from = @ \ {c}]
    <3>3. s \in RequestType /\ RequestOK(s) /\ s.op # "None"
        BY <1>1, <1>2, <3>1 DEF RequestOK, RequestType
    <3>4. QED
        BY <1>1, <3>2, <3>3, ContinueOK
  <2>4. CASE ConnectThing(p)
    <3>1. r.pc = "conn"
        BY <2>4 DEF ConnectThing
    <3>2. PICK c \in r.to \ r.from :
             Continue(p, [r EXCEPT !.from = @ \cup {c}]) \/ Return(p)
        BY <2>4 DEF ConnectThing
    <3> DEFINE s == [r EXCEPT !.from = @ \cup {c}]
    <3>3. s \in RequestType /\ RequestOK(s) /\ s.op # "None"
        BY <1>1, <1>2, <3>1, <3>2 DEF RequestOK, RequestType
    <3>4. QED
        BY <1>1, <3>2, <3>3, ContinueOK, ReturnOK
  <2>5. CASE CreateThing(p)
    <3>1. CASE Return(p)
        BY <1>1, <3>1, ReturnOK
    <3>2. ASSUME NEW t \in ThingIDs, req' = [req EXCEPT ![p].th = t, ![p].pc = "get"]
          PROVE  RequestsOK'
      <4> DEFINE s == [r EXCEPT !.th = t, !.pc = "get"]
      <4>1. r.pc = "create"
          BY <2>5 DEF CreateThing
      <4>2. RequestOK(s)
          BY <1>1, <1>2, <4>1 DEF RequestOK, RequestType, PCs
      <4>3. req' = [req EXCEPT ![p] = s]
          BY <3>2, <1>1 DEF RequestsOK
      <4>4. QED
          BY <1>1, <4>2, <4>3, ReplaceOK
    <3>3. QED
        BY <2>5, <3>1, <3>2 DEF CreateThing
  <2>6. CASE GetThing(p)
      BY <1>1, <2>6, GotoOK, ReturnOK DEF GetThing, RequestOK, PCs
  <2>7. CASE DropThing(p)
      BY <1>1, <2>7, ReturnOK DEF DropThing
  <2>8. CASE LoadConfig(p)
    <3>1. r.pc = "load"
        BY <2>8 DEF LoadConfig
    <3>2. CASE req' = [req EXCEPT ![p].st = cfgState[r.th], ![p].pc = "chans"]
               /\ r.op = "Update"
      <4> DEFINE s == [r EXCEPT !.st = cfgState[r.th], !.pc = "chans"]
      <4>1. cfgState[r.th] \in States
          BY <1>1, <3>2 DEF RequestOK, ServiceInv, ConfigInv, ConfigTypeOK
      <4>2. RequestOK(s)
          BY <1>1, <1>2, <3>1, <4>1 DEF RequestOK, RequestType, PCs
      <4>3. req' = [req EXCEPT ![p] = s]
          BY <3>2, <1>1 DEF RequestsOK
      <4>4. QED
          BY <1>1, <4>2, <4>3, ReplaceOK
    <3>3. CASE Goto(p, "chans")
        BY <1>1, <3>1, <3>3, GotoOK DEF RequestOK, PCs
    <3>4. CASE Return(p)
        BY <1>1, <3>4, ReturnOK
    <3>5. QED
        BY <2>8, <3>2, <3>3, <3>4 DEF LoadConfig
  <2>9. CASE LoadChannels(p)
    <3> DEFINE C == {c \in ChannelsOf(r.th) : bsChannels[c] = r.own}
               toList == [r EXCEPT !.pc = "list",
                            !.from = IF r.st = "Active" THEN C ELSE {},
                            !.to = IF r.st = "Active" THEN r.want ELSE {}]
               toConnect == [r EXCEPT !.to = C]
               toDisconnect == [r EXCEPT !.from = C]
    <3>1. r.pc = "chans" /\ C \subseteq ChannelIDs
        BY <2>9 DEF LoadChannels, ChannelsOf
    <3>2. RequestOK(toList)
        BY <1>1, <1>2, <3>1 DEF RequestOK, RequestType, PCs
    <3>3. /\ RequestOK(toConnect) /\ toConnect \in RequestType /\ toConnect.op # "None"
          /\ RequestOK(toDisconnect) /\ toDisconnect \in RequestType
          /\ toDisconnect.op # "None"
        BY <1>1, <1>2, <3>1 DEF RequestOK, RequestType
    <3>4. CASE req' = [req EXCEPT ![p].pc = "list",
                          ![p].from = IF r.st = "Active" THEN C ELSE {},
                          ![p].to = IF r.st = "Active" THEN r.want ELSE {}]
      <4>1. req' = [req EXCEPT ![p] = toList]
          BY <3>4, <1>1 DEF RequestsOK
      <4>2. QED
          BY <1>1, <3>2, <4>1, ReplaceOK
    <3>5. CASE Continue(p, toConnect) \/ Continue(p, toDisconnect)
        BY <1>1, <3>3, <3>5, ContinueOK
    <3>6. QED
        BY <2>9, <3>4, <3>5 DEF LoadChannels
  <2>10. CASE RequestFails(p)
    <3>1. ASSUME NEW c \in r.from \ r.to, r.pc = "disc",
                 Continue(p, [r EXCEPT !.from = @ \ {c}])
          PROVE  RequestsOK'
      <4> DEFINE s == [r EXCEPT !.from = @ \ {c}]
      <4>1. s \in RequestType /\ RequestOK(s) /\ s.op # "None"
          BY <1>1, <1>2, <3>1 DEF RequestOK, RequestType
      <4>2. QED
          BY <1>1, <3>1, <4>1, ContinueOK
    <3>2. CASE Return(p)
        BY <1>1, <3>2, ReturnOK
    <3>3. CASE r.pc = "get" /\ r.given /\ Goto(p, "drop")
        BY <1>1, <3>3, GotoOK DEF RequestOK, PCs
    <3>4. CASE r.pc = "save" /\ ~r.given /\ Goto(p, "undo")
        BY <1>1, <3>4, GotoOK DEF RequestOK, PCs
    <3>5. QED
        BY <2>10, <3>1, <3>2, <3>3, <3>4 DEF RequestFails
  <2>11. CASE StoreConnections(p)
    <3>1. r.pc = "store" /\ r.op = "Update"
        BY <1>1, <2>11 DEF StoreConnections, RequestOK
    <3>2. ChannelsOf(r.th) \in SUBSET ChannelIDs
        BY DEF ChannelsOf
    <3>3. CASE Enter(p, "tidy", ChannelsOf(r.th))
        BY <1>1, <3>1, <3>2, <3>3, EnterOK
    <3>4. CASE Enter(p, "commit", {})
      <4>1. {} \in SUBSET ChannelIDs
          OBVIOUS
      <4>2. QED
          BY <1>1, <3>1, <3>4, <4>1, EnterOK, Zenon
    <3>5. CASE Return(p)
        BY <1>1, <3>5, ReturnOK
    <3>6. QED
        BY <2>11, <3>3, <3>4, <3>5 DEF StoreConnections
  <2>12. CASE TidyChannels(p) \/ RemoveCleanup(p)
    <3>1. r.op # "None" /\ (TidyChannels(p) => r.op = "Update")
        BY <1>1, <2>12 DEF TidyChannels, RemoveCleanup, RequestOK
    <3>2. \A conns : Dangling(conns) \in SUBSET ChannelIDs
        BY DEF Dangling
    <3>3. CASE TidyChannels(p)
        BY <1>1, <3>1, <3>2, <3>3, SelectOK DEF TidyChannels
    <3>4. CASE RemoveCleanup(p)
        BY <1>1, <3>1, <3>2, <3>4, SelectOK DEF RemoveCleanup
    <3>5. QED
        BY <2>12, <3>3, <3>4
  <2>13. QED
      BY <2>1, <2>2, <2>3, <2>4, <2>5, <2>6, <2>7, <2>8, <2>9, <2>10, <2>11, <2>12
<1>5. QED
    BY <1>3, <1>4 DEF ServiceInv

\* Calls that change the service's own tables.
LEMMA TableCallOK ==
    ASSUME ServiceInv, NEW p \in Proc,
           \/ SaveConfig(p) \/ CommitConnections(p) \/ SetState(p)
           \/ RemoveConfig(p) \/ RemoveSweep(p)
    PROVE  ServiceInv'
<1>1. RequestsOK /\ RequestOK(req[p]) /\ ConfigInv
    BY DEF ServiceInv, RequestsOK
<1> DEFINE r == req[p]
<1>2. r \in RequestType
    BY <1>1 DEF RequestOK
<1>3. CASE SaveConfig(p)
  <2>1. r.pc = "save"
      BY <1>3 DEF SaveConfig
  <2>2. CASE Saveable(r)
    <3>1. ConfigInv'
        BY <1>1, <1>2, <1>3, <2>1, <2>2, SaveOK DEF SaveConfig
    <3>2. RequestsOK'
        BY <1>1, <1>3, <2>2, ReturnOK DEF SaveConfig
    <3>3. QED
        BY <3>1, <3>2 DEF ServiceInv
  <2>3. CASE ~Saveable(r)
    <3>1. ConfigInv'
        BY <1>1, <1>3, <2>3, ConfigUnchanged DEF SaveConfig
    <3>2. RequestsOK'
        BY <1>1, <1>3, <2>1, <2>3, ReturnOK, GotoOK DEF SaveConfig, RequestOK, PCs
    <3>3. QED
        BY <3>1, <3>2 DEF ServiceInv
  <2>4. QED
      BY <2>2, <2>3
<1>4. CASE CommitConnections(p)
    BY <1>1, <1>4, CommitOK, ReturnOK DEF CommitConnections, ServiceInv
<1>5. CASE SetState(p)
  <2>1. r.st \in States
      BY <1>2 DEF RequestType
  <2>2. cfgState' \in [ThingIDs -> States]
      BY <1>1, <1>5, <2>1 DEF SetState, ConfigInv, ConfigTypeOK
  <2>3. ConfigInv'
      BY <1>1, <1>5, <2>2
         DEF SetState, ConfigInv, ConfigTypeOK, ConfigIntegrity, ConfigExists, tables
  <2>4. RequestsOK'
      BY <1>1, <1>5, ReturnOK DEF SetState
  <2>5. QED
      BY <2>3, <2>4 DEF ServiceInv
<1>6. CASE RemoveConfig(p)
  <2>1. ConfigInv'
      BY <1>1, <1>6, DeleteConfigOK, ConfigUnchanged DEF RemoveConfig
  <2>2. RequestsOK'
      BY <1>1, <1>6, GotoOK DEF RemoveConfig, RequestOK, PCs
  <2>3. QED
      BY <2>1, <2>2 DEF ServiceInv
<1>7. CASE RemoveSweep(p)
    BY <1>1, <1>7, SweepOK, ReturnOK DEF RemoveSweep, ServiceInv
<1>8. QED
    BY <1>3, <1>4, <1>5, <1>6, <1>7

\* The consumer, whatever is in the batch.
LEMMA ConsumerOK ==
    ASSUME ServiceInv, Consume \/ HandlerFails \/ HandleCleanupFails
    PROVE  ServiceInv'
<1>1. RequestsOK /\ ConfigInv
    BY DEF ServiceInv
<1>2. ASSUME UNCHANGED req PROVE RequestsOK'
    BY <1>1, <1>2 DEF RequestsOK
<1>3. CASE Read
    BY <1>1, <1>2, <1>3, ConfigUnchanged DEF Read, ServiceInv
<1>4. CASE HandleRemoveThing
    BY <1>1, <1>2, <1>4, DeleteConfigOK DEF HandleRemoveThing, ServiceInv
<1>5. CASE HandleCleanup
    BY <1>1, <1>2, <1>5, ConfigUnchanged DEF HandleCleanup, ServiceInv
<1>6. CASE HandleDisconnectThing
  <2>1. cfgState' \in [ThingIDs -> States]
      BY <1>1, <1>6 DEF HandleDisconnectThing, ConfigInv, ConfigTypeOK, States
  <2>2. ConfigInv'
      BY <1>1, <1>6, <2>1
         DEF HandleDisconnectThing, ConfigInv, ConfigTypeOK, ConfigIntegrity,
             ConfigExists, tables
  <2>3. RequestsOK'
      BY <1>2, <1>6 DEF HandleDisconnectThing
  <2>4. QED
      BY <2>2, <2>3 DEF ServiceInv
<1>7. CASE HandleRemoveChannel
  <2>1. ConfigTypeOK'
      BY <1>1, <1>7 DEF HandleRemoveChannel, ConfigInv, ConfigTypeOK
  <2>2. ConfigIntegrity'
      BY <1>1, <1>7
         DEF HandleRemoveChannel, ConfigInv, ConfigTypeOK, ConfigIntegrity, ConfigExists
  <2>3. RequestsOK'
      BY <1>2, <1>7 DEF HandleRemoveChannel
  <2>4. QED
      BY <2>1, <2>2, <2>3 DEF ServiceInv, ConfigInv
<1>8. CASE HandleUpdateChannel
    BY <1>1, <1>8, IdleOK, ConfigUnchanged
       DEF HandleUpdateChannel, Stop, ServiceInv, RequestsOK, RequestOK
<1>9. CASE HandlerFails \/ HandleCleanupFails
    BY <1>1, <1>2, <1>9, ConfigUnchanged DEF HandlerFails, HandleCleanupFails, ServiceInv
<1>10. CASE HandleSweep
    BY <1>1, <1>2, <1>10, SweepOK DEF HandleSweep, ServiceInv
<1>11. QED
    BY <1>3, <1>4, <1>5, <1>6, <1>7, <1>8, <1>9, <1>10 DEF Consume

LEMMA NextOK == ServiceInv /\ [Next]_vars => ServiceInv'
<1> SUFFICES ASSUME ServiceInv, [Next]_vars PROVE ServiceInv'
    OBVIOUS
<1>1. ASSUME UNCHANGED <<configVars, req>> PROVE ServiceInv'
    BY <1>1, ConfigUnchanged DEF ServiceInv, RequestsOK
<1>2. ASSUME NEW p \in Proc,
             Add(p) \/ UpdateConnections(p) \/ ChangeState(p) \/ Remove(p)
      PROVE  ServiceInv'
    BY <1>2, ArrivalOK
<1>3. ASSUME NEW p \in Proc, RequestStep(p) \/ RequestFails(p) PROVE ServiceInv'
    BY <1>3, CallOK, TableCallOK DEF RequestStep
<1>4. CASE Users \/ XAdd
    BY <1>1, <1>4 DEF Users, UserRemoveThing, UserRemoveChannel, UserUpdateChannel,
                      UserConnect, UserDisconnect, XAdd
<1>5. CASE Consume \/ HandlerFails \/ HandleCleanupFails
    BY <1>5, ConsumerOK
<1>6. CASE Crash
    BY <1>6, IdleOK, ConfigUnchanged
       DEF Crash, Stop, ServiceInv, RequestsOK, RequestOK
<1>7. CASE UNCHANGED vars
    BY <1>1, <1>7 DEF vars
<1>8. QED
    BY <1>2, <1>3, <1>4, <1>5, <1>6, <1>7 DEF Next, Steps

\* The configs of the bootstrap service stay consistent, for every number of
\* concurrent requests of any users, every stream of events, in any order,
\* and every sequence of failures and crashes: the transactions of Save and
\* UpdateConnections check what ListExisting read earlier once more, and a
\* cleanup that works from a stale selection takes connections along.
THEOREM ConfigsConsistent == Spec => []ConfigIntegrity
<1>1. ServiceInv => ConfigIntegrity
    BY DEF ServiceInv, ConfigInv
<1>2. QED
    BY <1>1, InitOK, NextOK, PTL DEF Spec

-----------------------------------------------------------------------------
(* Dangling channels.                                                      *)

\* Every channel of the service is connected to some config.
Tidy == \A c \in Dangling(bsConns) : bsChannels[c] = None

CleanupAhead == cleaning # "off" \/ \E p \in Proc : req[p].pc \in {"clean", "sweep"}

FaultsOK == faults \in Nat

\* What request r has selected is what it would select now.
Fresh(r) ==
    /\ r.pc = "sweep" => r.todo = Dangling(bsConns)
    /\ r.pc = "commit" =>
         (r.from = {} /\ r.todo = {}) \/ r.todo = Dangling(Replaced(r))

AllFresh ==
    /\ \A p \in Proc : Fresh(req[p])
    /\ cleaning = "sweep" => doomed = Dangling(bsConns)

TidyInv ==
    /\ ServiceInv /\ FaultsOK
    /\ NoFailure /\ ~raced => AllFresh /\ (Tidy \/ CleanupAhead)

\* A step without a failure follows steps without a failure.
LEMMA FaultsCounted ==
    ASSUME FaultsOK, [Next]_vars
    PROVE  FaultsOK' /\ (NoFailure' => UNCHANGED faults)
<1> USE BootstrapAssumption DEF FaultsOK, NoFailure
<1>1. CASE UNCHANGED faults
    BY <1>1
<1>2. CASE Fault
    BY <1>2 DEF Fault
<1>3. CASE faults' = Overflowed
    BY <1>3 DEF Overflowed
<1>4. UNCHANGED faults \/ Fault \/ faults' = Overflowed
  <2>1. ASSUME NEW p \in Proc,
               Add(p) \/ UpdateConnections(p) \/ ChangeState(p) \/ Remove(p)
        PROVE  UNCHANGED faults
      BY <2>1 DEF Add, UpdateConnections, ChangeState, Remove, Arrive, Unasked
  <2>2. ASSUME NEW p \in Proc, RequestStep(p) \/ RequestFails(p)
        PROVE  UNCHANGED faults \/ Fault
      BY <2>2 DEF RequestStep, RequestFails, ListExisting, FetchChannel,
                  DisconnectThing, ConnectThing, CreateThing, GetThing, SaveConfig,
                  DropThing, LoadConfig, LoadChannels, StoreConnections, TidyChannels,
                  CommitConnections, SetState, RemoveConfig, RemoveCleanup, RemoveSweep,
                  Unasked, Notify
  <2>3. CASE Users \/ XAdd
      BY <2>3 DEF Users, UserRemoveThing, UserRemoveChannel, UserUpdateChannel,
                  UserConnect, UserDisconnect, Notify, XAdd
  <2>4. CASE Consume
      BY <2>4 DEF Consume, Read, HandleRemoveThing, HandleCleanup, HandleSweep,
                  HandleDisconnectThing, HandleRemoveChannel, HandleUpdateChannel, Unasked
  <2>5. CASE HandlerFails \/ HandleCleanupFails \/ Crash
      BY <2>5 DEF HandlerFails, HandleCleanupFails, Crash
  <2>6. CASE UNCHANGED vars
      BY <2>6 DEF vars
  <2>7. QED
      BY <2>1, <2>2, <2>3, <2>4, <2>5, <2>6 DEF Next, Steps
<1>5. QED
    BY <1>1, <1>2, <1>3, <1>4

\* A step of request p changes the request to one that has selected nothing,
\* or that has done so in this step.
LEMMA RequestShape ==
    ASSUME ServiceInv, NEW p \in Proc,
           \/ Add(p) \/ UpdateConnections(p) \/ ChangeState(p) \/ Remove(p)
           \/ RequestStep(p) \/ RequestFails(p)
    PROVE  \E r : /\ req' = [req EXCEPT ![p] = r]
                  /\ Holds(r) => UNCHANGED tables /\ Fresh(r)
<1> DEFINE q == req[p]
           Shape == \E r : /\ req' = [req EXCEPT ![p] = r]
                           /\ Holds(r) => UNCHANGED tables /\ Fresh(r)
<1> SUFFICES Shape
    OBVIOUS
<1>1. RequestsOK /\ RequestOK(q) /\ q \in RequestType /\ req \in [Proc -> RequestType]
    BY DEF ServiceInv, RequestsOK
<1>2. ASSUME NEW r, req' = [req EXCEPT ![p] = r], ~Holds(r) PROVE Shape
    BY <1>2
<1>3. ASSUME Return(p) PROVE Shape
    BY <1>2, <1>3 DEF Return, Holds, Idle
<1>4. ASSUME NEW l, l \notin {"commit", "sweep"}, Goto(p, l) PROVE Shape
  <2>1. ~Holds([q EXCEPT !.pc = l])
      BY <1>1, <1>4 DEF Holds, RequestType
  <2>2. req' = [req EXCEPT ![p] = [q EXCEPT !.pc = l]]
      BY <1>1, <1>4 DEF Goto
  <2>3. QED
      BY <1>2, <2>1, <2>2
<1>5. ASSUME NEW r \in RequestType, Continue(p, r) PROVE Shape
  <2>1. NextPC(r) \notin {"commit", "sweep"}
    <3>1. r.from \ r.to # {} \/ (r.from \subseteq r.to /\ r.to # r.from) \/ r.from = r.to
        OBVIOUS
    <3>2. QED
        BY <3>1 DEF NextPC
  <2>2. ~Holds([r EXCEPT !.pc = NextPC(r)])
      BY <2>1 DEF Holds, RequestType
  <2>3. QED
      BY <1>2, <1>5, <2>2 DEF Continue
<1> HIDE DEF Shape
<1>6. CASE Add(p) \/ UpdateConnections(p) \/ ChangeState(p) \/ Remove(p)
  <2>1. PICK r : Arrive(p, r) /\ ~Holds(r)
      BY <1>6, Arrivals
  <2>2. QED
      BY <1>2, <2>1 DEF Arrive
<1>7. CASE ListExisting(p)
  <2> DEFINE known == {c \in q.want : bsChannels[c] = q.own}
             s == [q EXCEPT !.known = known, !.todo = @ \ known]
  <2>1. Continue(p, s)
      BY <1>7 DEF ListExisting
  <2>2. s \in RequestType
      BY <1>1 DEF RequestType
  <2>3. QED
      BY <1>5, <2>1, <2>2
<1>8. ASSUME NEW c, Continue(p, [q EXCEPT !.todo = @ \ {c}]) PROVE Shape
  <2>1. [q EXCEPT !.todo = @ \ {c}] \in RequestType
      BY <1>1 DEF RequestType
  <2>2. QED
      BY <1>5, <1>8, <2>1
<1>9. ASSUME NEW c, Continue(p, [q EXCEPT !.from = @ \ {c}]) PROVE Shape
  <2>1. [q EXCEPT !.from = @ \ {c}] \in RequestType
      BY <1>1 DEF RequestType
  <2>2. QED
      BY <1>5, <1>9, <2>1
<1>10. ASSUME NEW c \in ChannelIDs, Continue(p, [q EXCEPT !.from = @ \cup {c}]) PROVE Shape
  <2>1. [q EXCEPT !.from = @ \cup {c}] \in RequestType
      BY <1>1 DEF RequestType
  <2>2. QED
      BY <1>5, <1>10, <2>1
<1>11. CASE FetchChannel(p)
    BY <1>3, <1>8, <1>11 DEF FetchChannel
<1>12. CASE DisconnectThing(p)
    BY <1>9, <1>12 DEF DisconnectThing
<1>13. CASE ConnectThing(p)
  <2>1. q.to \subseteq ChannelIDs
      BY <1>1 DEF RequestType
  <2>2. QED
      BY <1>3, <1>10, <1>13, <2>1 DEF ConnectThing
<1>14. CASE CreateThing(p)
  <2>1. ASSUME NEW t, req' = [req EXCEPT ![p].th = t, ![p].pc = "get"] PROVE Shape
    <3>1. req' = [req EXCEPT ![p] = [q EXCEPT !.th = t, !.pc = "get"]]
        BY <1>1, <2>1
    <3>2. ~Holds([q EXCEPT !.th = t, !.pc = "get"])
        BY <1>1 DEF Holds, RequestType
    <3>3. QED
        BY <1>2, <3>1, <3>2
  <2>2. QED
      BY <1>3, <1>14, <2>1 DEF CreateThing
<1>15. CASE GetThing(p) \/ SaveConfig(p) \/ DropThing(p) \/ SetState(p) \/ RemoveConfig(p)
            \/ CommitConnections(p) \/ RemoveSweep(p)
    BY <1>3, <1>4, <1>15 DEF GetThing, SaveConfig, DropThing, SetState, RemoveConfig,
                             CommitConnections, RemoveSweep
<1>16. CASE LoadConfig(p)
  <2>1. ASSUME NEW x, req' = [req EXCEPT ![p].st = x, ![p].pc = "chans"] PROVE Shape
    <3>1. req' = [req EXCEPT ![p] = [q EXCEPT !.st = x, !.pc = "chans"]]
        BY <1>1, <2>1
    <3>2. ~Holds([q EXCEPT !.st = x, !.pc = "chans"])
        BY <1>1 DEF Holds, RequestType
    <3>3. QED
        BY <1>2, <3>1, <3>2
  <2>2. QED
      BY <1>3, <1>4, <1>16, <2>1 DEF LoadConfig
<1>17. CASE LoadChannels(p)
  <2> DEFINE C == {c \in ChannelsOf(q.th) : bsChannels[c] = q.own}
  <2>1. ASSUME NEW x, NEW y,
               req' = [req EXCEPT ![p].pc = "list", ![p].from = x, ![p].to = y]
        PROVE  Shape
    <3>1. req' = [req EXCEPT ![p] = [q EXCEPT !.pc = "list", !.from = x, !.to = y]]
        BY <1>1, <2>1
    <3>2. ~Holds([q EXCEPT !.pc = "list", !.from = x, !.to = y])
        BY <1>1 DEF Holds, RequestType
    <3>3. QED
        BY <1>2, <3>1, <3>2
  <2>2. [q EXCEPT !.to = C] \in RequestType /\ [q EXCEPT !.from = C] \in RequestType
      BY <1>1 DEF RequestType, ChannelsOf
  <2>3. CASE Continue(p, [q EXCEPT !.to = C]) \/ Continue(p, [q EXCEPT !.from = C])
      BY <1>5, <2>2, <2>3
  <2>4. CASE req' = [req EXCEPT ![p].pc = "list",
                       ![p].from = IF q.st = "Active" THEN C ELSE {},
                       ![p].to = IF q.st = "Active" THEN q.want ELSE {}]
      BY <2>1, <2>4
  <2>5. QED
      BY <1>17, <2>3, <2>4 DEF LoadChannels
<1>18. CASE StoreConnections(p)
  <2>1. q.op = "Update" /\ UNCHANGED tables
      BY <1>1, <1>18 DEF StoreConnections, RequestOK, configVars
  <2>2. ChannelsOf(q.th) \in SUBSET ChannelIDs
      BY DEF ChannelsOf
  <2>3. CASE Enter(p, "tidy", ChannelsOf(q.th))
    <3> DEFINE s == [q EXCEPT !.pc = "tidy", !.from = ChannelsOf(q.th), !.todo = {}]
    <3>1. req' = [req EXCEPT ![p] = s]
        BY <1>1, <2>1, <2>2, <2>3, EnterOK
    <3>2. ~Holds(s)
        BY <1>1 DEF Holds, RequestType
    <3>3. QED
        BY <1>2, <3>1, <3>2
  <2>4. CASE Enter(p, "commit", {})
    <3> DEFINE s == [q EXCEPT !.pc = "commit", !.from = {}, !.todo = {}]
    <3>1. req' = [req EXCEPT ![p] = s]
        BY <1>1, <2>1, <2>4, EnterOK
    <3>2. Fresh(s)
        BY <1>1 DEF Fresh, RequestType
    <3>3. QED
        BY <2>1, <3>1, <3>2 DEF Shape
  <2>5. QED
      BY <1>3, <1>18, <2>3, <2>4 DEF StoreConnections
<1>19. CASE TidyChannels(p)
  <2> DEFINE s == [q EXCEPT !.pc = "commit", !.todo = Dangling(Replaced(q))]
  <2>1. q.op = "Update" /\ UNCHANGED tables
      BY <1>1, <1>19 DEF TidyChannels, RequestOK, configVars
  <2>2. Dangling(Replaced(q)) \in SUBSET ChannelIDs
      BY DEF Dangling
  <2>3. req' = [req EXCEPT ![p] = s]
      BY <1>1, <1>19, <2>1, <2>2, SelectOK DEF TidyChannels
  <2>4. Replaced(s) = Replaced(q)
      BY <1>1 DEF Replaced, RequestType
  <2>5. Fresh(s)
      BY <1>1, <2>4 DEF Fresh, RequestType
  <2>6. QED
      BY <2>1, <2>3, <2>5 DEF Shape
<1>20. CASE RemoveCleanup(p)
  <2> DEFINE s == [q EXCEPT !.pc = "sweep", !.todo = Dangling(bsConns)]
  <2>1. q.op # "None" /\ UNCHANGED tables
      BY <1>1, <1>20 DEF RemoveCleanup, RequestOK, configVars
  <2>2. Dangling(bsConns) \in SUBSET ChannelIDs
      BY DEF Dangling
  <2>3. req' = [req EXCEPT ![p] = s]
      BY <1>1, <1>20, <2>1, <2>2, SelectOK DEF RemoveCleanup
  <2>4. Fresh(s)
      BY <1>1 DEF Fresh, RequestType
  <2>5. QED
      BY <2>1, <2>3, <2>4 DEF Shape
<1>21. CASE RequestFails(p)
    BY <1>3, <1>4, <1>9, <1>21 DEF RequestFails
<1>22. QED
    BY <1>6, <1>7, <1>11, <1>12, <1>13, <1>14, <1>15, <1>16, <1>17, <1>18, <1>19, <1>20,
       <1>21 DEF RequestStep

\* The steps of others than requests leave the requests alone or end them.
LEMMA OthersShape ==
    ASSUME Users \/ XAdd \/ Consume \/ HandlerFails \/ HandleCleanupFails \/ Crash
    PROVE  UNCHANGED req \/ \A p \in Proc : req'[p] = Idle
<1>1. CASE Crash \/ HandleUpdateChannel
    BY <1>1 DEF Crash, HandleUpdateChannel, Stop
<1>2. CASE Users \/ XAdd \/ HandlerFails \/ HandleCleanupFails
    BY <1>2 DEF Users, UserRemoveThing, UserRemoveChannel, UserUpdateChannel, UserConnect,
                UserDisconnect, XAdd, HandlerFails, HandleCleanupFails
<1>3. CASE Consume /\ ~HandleUpdateChannel
    BY <1>3 DEF Consume, Read, HandleRemoveThing, HandleCleanup, HandleSweep,
                HandleDisconnectThing, HandleRemoveChannel
<1>4. QED
    BY <1>1, <1>2, <1>3

\* Unless the tables change under it, a selection stays what it was.
LEMMA FreshStep ==
    ASSUME ServiceInv, AllFresh, [Next]_vars, ~raced'
    PROVE  AllFresh'
<1>1. req \in [Proc -> RequestType]
    BY DEF ServiceInv, RequestsOK
<1>2. UNCHANGED tables \/ ~Overlap
    BY DEF Next, Recorded, vars, configVars
<1>3. ASSUME NEW p \in Proc, req'[p] = req[p], UNCHANGED tables PROVE Fresh(req[p])'
    BY <1>3 DEF AllFresh, Fresh, Dangling, Replaced, tables
<1>4. ASSUME NEW p \in Proc, req'[p] = req[p] PROVE Fresh(req[p])'
  <2>1. CASE Holds(req[p])
      BY <1>2, <1>3, <1>4, <2>1 DEF Overlap
  <2>2. CASE ~Holds(req[p])
      BY <1>4, <2>2 DEF Holds, Fresh
  <2>3. QED
      BY <2>1, <2>2
<1>5. \A p \in Proc : Fresh(req[p])'
  <2>1. ASSUME NEW p \in Proc,
               \/ Add(p) \/ UpdateConnections(p) \/ ChangeState(p) \/ Remove(p)
               \/ RequestStep(p) \/ RequestFails(p),
               NEW q \in Proc
        PROVE  Fresh(req[q])'
    <3>1. PICK r : /\ req' = [req EXCEPT ![p] = r]
                   /\ Holds(r) => UNCHANGED tables /\ Fresh(r)
        BY <2>1, RequestShape
    <3>2. CASE q # p
        BY <1>1, <1>4, <3>1, <3>2
    <3>3. CASE q = p /\ Holds(r)
        BY <1>1, <3>1, <3>3 DEF Fresh, Dangling, Replaced, tables
    <3>4. CASE q = p /\ ~Holds(r)
        BY <1>1, <3>1, <3>4 DEF Fresh, Holds
    <3>5. QED
        BY <3>2, <3>3, <3>4
  <2>2. CASE UNCHANGED req
      BY <1>4, <2>2
  <2>3. CASE \A p \in Proc : req'[p] = Idle
      BY <2>3 DEF Fresh, Idle
  <2>4. QED
      BY <2>1, <2>2, <2>3, OthersShape DEF Next, Steps, vars
<1>6. cleaning' = "sweep" => doomed' = Dangling(bsConns')
  <2>1. CASE UNCHANGED <<cleaning, doomed>>
      BY <1>2, <2>1 DEF AllFresh, Overlap, tables
  <2>2. CASE HandleCleanup
      BY <2>2 DEF HandleCleanup, configVars, tables
  <2>3. CASE cleaning' # "sweep"
      BY <2>3
  <2>4. UNCHANGED <<cleaning, doomed>> \/ HandleCleanup \/ cleaning' # "sweep"
    <3>1. ASSUME NEW p \in Proc,
                 Add(p) \/ UpdateConnections(p) \/ ChangeState(p) \/ Remove(p)
          PROVE  UNCHANGED <<cleaning, doomed>>
        BY <3>1 DEF Add, UpdateConnections, ChangeState, Remove, Arrive, consumerVars
    <3>2. ASSUME NEW p \in Proc, RequestStep(p) \/ RequestFails(p)
          PROVE  UNCHANGED <<cleaning, doomed>>
        BY <3>2 DEF RequestStep, RequestFails, ListExisting, FetchChannel,
                    DisconnectThing, ConnectThing, CreateThing, GetThing, SaveConfig,
                    DropThing, LoadConfig, LoadChannels, StoreConnections, TidyChannels,
                    CommitConnections, SetState, RemoveConfig, RemoveCleanup, RemoveSweep,
                    consumerVars
    <3>3. CASE Users \/ XAdd
        BY <3>3 DEF Users, UserRemoveThing, UserRemoveChannel, UserUpdateChannel,
                    UserConnect, UserDisconnect, XAdd, consumerVars
    <3>4. CASE Consume
        BY <3>4 DEF Consume, Read, HandleRemoveThing, HandleSweep, HandleDisconnectThing,
                    HandleRemoveChannel, HandleUpdateChannel, Stop
    <3>5. CASE HandlerFails \/ HandleCleanupFails \/ Crash
        BY <3>5 DEF HandlerFails, HandleCleanupFails, Crash, Stop
    <3>6. CASE UNCHANGED vars
        BY <3>6 DEF vars, consumerVars
    <3>7. QED
        BY <3>1, <3>2, <3>3, <3>4, <3>5, <3>6 DEF Next, Steps
  <2>5. QED
      BY <2>1, <2>2, <2>3, <2>4
<1>7. QED
    BY <1>5, <1>6 DEF AllFresh, Dangling

\* A cleanup that deletes what is dangling leaves nothing dangling.
LEMMA SweepTidies ==
    ASSUME ConfigInv, Sweep(Dangling(bsConns))
    PROVE  Tidy'
BY DEF Tidy, Sweep, Without, Dangling, ConfigInv, ConfigTypeOK

\* A request that is not about to clean up leaves the cleanups of others.
LEMMA AheadKept ==
    ASSUME RequestsOK, CleanupAhead, NEW p \in Proc, req[p].pc \notin {"clean", "sweep"},
           NEW r, req' = [req EXCEPT ![p] = r], UNCHANGED cleaning
    PROVE  CleanupAhead'
BY DEF RequestsOK, CleanupAhead

\* Channels that come with their connections leave the tables tidy.
LEMMA InsertTidy ==
    ASSUME ConfigInv, Tidy, NEW o, NEW want \in SUBSET ChannelIDs, NEW t \in ThingIDs,
           \A c \in ChannelIDs : bsChannels'[c] = Inserted(o, want)[c],
           bsConns' = bsConns \cup (want \X {t})
    PROVE  Tidy'
<1> SUFFICES ASSUME NEW c \in Dangling(bsConns)', c \in ChannelIDs
             PROVE  bsChannels'[c] = None
    BY DEF Tidy, Dangling
<1>1. <<c, t>> \notin bsConns'
    BY DEF Dangling
<1>2. c \notin want
    BY <1>1
<1>3. c \in Dangling(bsConns)
    BY DEF Dangling
<1>4. QED
    BY <1>2, <1>3 DEF Inserted, Tidy

\* What UpdateConnections leaves behind it deletes.
LEMMA CommitTidy ==
    ASSUME RequestsOK, ConfigInv, Tidy, NEW p \in Proc, Fresh(req[p]), CommitConnections(p)
    PROVE  Tidy'
<1> DEFINE r == req[p]
           R == Replaced(r)
<1>1. r.th \in ThingIDs /\ r.want \subseteq ChannelIDs /\ r.pc = "commit"
    BY DEF CommitConnections, RequestsOK, RequestOK, RequestType
<1>2. CASE ~Committable(r)
    BY <1>2 DEF CommitConnections, configVars, tables, Tidy, Dangling
<1>3. CASE Committable(r) /\ r.from = {} /\ r.todo = {}
  <2>1. bsConns' = R /\ \A c \in ChannelIDs : bsChannels'[c] = Inserted(r.own, r.want)[c]
      BY <1>3 DEF CommitConnections, Without
  <2>2. R = bsConns \cup (r.want \X {r.th})
      BY <1>3 DEF Replaced
  <2>3. QED
      BY <1>1, <2>1, <2>2, InsertTidy
<1>4. CASE Committable(r) /\ r.todo = Dangling(R)
  <2>1. /\ bsConns' = {x \in R : x[1] \notin Dangling(R)}
        /\ bsChannels' = Without(Inserted(r.own, r.want), Dangling(R))
      BY <1>4 DEF CommitConnections
  <2> HIDE DEF R
  <2>2. ASSUME NEW c \in ChannelIDs, c \notin Dangling(R)
        PROVE  c \notin Dangling(bsConns')
      BY <2>1, <2>2 DEF Dangling
  <2>3. QED
      BY <2>1, <2>2 DEF Tidy, Without, Dangling
<1>5. QED
    BY <1>1, <1>2, <1>3, <1>4 DEF Fresh

LEMMA TidyStep ==
    ASSUME ServiceInv, AllFresh, Tidy \/ CleanupAhead, [Next]_vars, FaultsOK, NoFailure'
    PROVE  Tidy' \/ CleanupAhead'
<1>1. RequestsOK /\ ConfigInv /\ req \in [Proc -> RequestType]
    BY DEF ServiceInv, RequestsOK
<1>2. UNCHANGED faults
    BY FaultsCounted
<1>3. ASSUME UNCHANGED tables, Tidy PROVE Tidy'
    BY <1>3 DEF Tidy, Dangling, tables
<1>4. ASSUME UNCHANGED <<tables, req, cleaning>>
      PROVE  Tidy' \/ CleanupAhead'
    BY <1>3, <1>4 DEF CleanupAhead
<1>5. ASSUME NEW p \in Proc,
             \/ Add(p) \/ UpdateConnections(p) \/ ChangeState(p) \/ Remove(p)
             \/ RequestStep(p) \/ RequestFails(p)
      PROVE  Tidy' \/ CleanupAhead'
  <2>1. PICK r : req' = [req EXCEPT ![p] = r]
      BY <1>5, RequestShape
  <2>2. UNCHANGED cleaning
    <3>1. CASE Add(p) \/ UpdateConnections(p) \/ ChangeState(p) \/ Remove(p)
        BY <3>1 DEF Add, UpdateConnections, ChangeState, Remove, Arrive, consumerVars
    <3>2. CASE RequestStep(p) \/ RequestFails(p)
        BY <3>2 DEF RequestStep, RequestFails, ListExisting, FetchChannel,
                    DisconnectThing, ConnectThing, CreateThing, GetThing, SaveConfig,
                    DropThing, LoadConfig, LoadChannels, StoreConnections, TidyChannels,
                    CommitConnections, SetState, RemoveConfig, RemoveCleanup, RemoveSweep,
                    consumerVars
    <3>3. QED
        BY <1>5, <3>1, <3>2
  <2>3. ASSUME Tidy => Tidy', req[p].pc \notin {"clean", "sweep"}
        PROVE  Tidy' \/ CleanupAhead'
      BY <1>1, <2>1, <2>2, <2>3, AheadKept
  <2>4. CASE Add(p) \/ UpdateConnections(p) \/ ChangeState(p) \/ Remove(p)
    <3>1. UNCHANGED tables /\ req[p].pc = "idle"
        BY <2>4 DEF Add, UpdateConnections, ChangeState, Remove, Arrive, configVars
    <3>2. QED
        BY <1>3, <2>3, <3>1
  <2>5. CASE \/ ListExisting(p) \/ FetchChannel(p) \/ DisconnectThing(p)
             \/ ConnectThing(p) \/ CreateThing(p) \/ GetThing(p) \/ DropThing(p)
             \/ LoadConfig(p) \/ LoadChannels(p) \/ SetState(p)
             \/ StoreConnections(p) \/ TidyChannels(p)
    <3>1. UNCHANGED tables /\ req[p].pc \notin {"clean", "sweep"}
        BY <2>5 DEF ListExisting, FetchChannel, DisconnectThing, ConnectThing, CreateThing,
                    GetThing, DropThing, LoadConfig, LoadChannels, SetState,
                    StoreConnections, TidyChannels, configVars
    <3>2. QED
        BY <1>3, <2>3, <3>1
  <2>6. CASE SaveConfig(p)
    <3> DEFINE q == req[p]
    <3>1. q.pc = "save" /\ q.th \in ThingIDs /\ q.want \in SUBSET ChannelIDs
        BY <1>1, <2>6 DEF SaveConfig, RequestsOK, RequestOK, RequestType
    <3>2. CASE Saveable(q)
      <4>1. /\ bsChannels' = Inserted(q.own, q.want)
            /\ bsConns' = bsConns \cup (q.want \X {q.th})
          BY <2>6, <3>2 DEF SaveConfig
      <4>2. Tidy => Tidy'
          BY <1>1, <3>1, <4>1, InsertTidy
      <4>3. QED
          BY <2>3, <3>1, <4>2
    <3>3. CASE ~Saveable(q)
      <4>1. UNCHANGED tables
          BY <2>6, <3>3 DEF SaveConfig, configVars
      <4>2. QED
          BY <1>3, <2>3, <3>1, <4>1
    <3>4. QED
        BY <3>2, <3>3
  <2>7. CASE CommitConnections(p)
    <3>1. Fresh(req[p]) /\ req[p].pc = "commit"
        BY <2>7 DEF AllFresh, CommitConnections
    <3>2. Tidy => Tidy'
        BY <1>1, <2>7, <3>1, CommitTidy
    <3>3. QED
        BY <2>3, <3>1, <3>2
  <2>8. CASE RemoveConfig(p) \/ RemoveCleanup(p)
      BY <1>1, <2>8 DEF RemoveConfig, RemoveCleanup, Goto, CleanupAhead, RequestType
  <2>9. CASE RemoveSweep(p)
    <3>1. Sweep(Dangling(bsConns))
        BY <2>9 DEF RemoveSweep, AllFresh, Fresh
    <3>2. QED
        BY <1>1, <3>1, SweepTidies
  <2>10. CASE RequestFails(p)
      BY <1>2, <2>10 DEF RequestFails, Fault, FaultsOK
  <2>11. QED
      BY <1>5, <2>4, <2>5, <2>6, <2>7, <2>8, <2>9, <2>10 DEF RequestStep
<1>6. CASE Users \/ XAdd
    BY <1>4, <1>6 DEF Users, UserRemoveThing, UserRemoveChannel, UserUpdateChannel,
                      UserConnect, UserDisconnect, XAdd, configVars, consumerVars
<1>7. CASE Consume
  <2>1. CASE Read \/ HandleDisconnectThing
      BY <1>4, <2>1 DEF Read, HandleDisconnectThing, configVars
  <2>2. CASE HandleRemoveThing \/ HandleCleanup
      BY <2>2 DEF HandleRemoveThing, HandleCleanup, CleanupAhead
  <2>3. CASE HandleSweep
    <3>1. Sweep(Dangling(bsConns))
        BY <2>3 DEF HandleSweep, AllFresh
    <3>2. QED
        BY <1>1, <3>1, SweepTidies
  <2>4. CASE HandleRemoveChannel
    <3>1. Tidy => Tidy'
        BY <1>1, <2>4 DEF HandleRemoveChannel, Tidy, Dangling, ConfigInv, ConfigTypeOK
    <3>2. CleanupAhead => CleanupAhead'
        BY <2>4 DEF HandleRemoveChannel, CleanupAhead
    <3>3. QED
        BY <3>1, <3>2
  <2>5. CASE HandleUpdateChannel
      BY <2>5, BootstrapAssumption DEF HandleUpdateChannel, Overflowed, NoFailure
  <2>6. QED
      BY <1>7, <2>1, <2>2, <2>3, <2>4, <2>5 DEF Consume
<1>8. CASE HandlerFails \/ HandleCleanupFails \/ Crash
    BY <1>2, <1>8 DEF HandlerFails, HandleCleanupFails, Crash, Fault, FaultsOK
<1>9. CASE UNCHANGED vars
    BY <1>4, <1>9 DEF vars, configVars, consumerVars
<1>10. QED
    BY <1>5, <1>6, <1>7, <1>8, <1>9 DEF Next, Steps

\* While nothing fails, a channel is left dangling only when the tables
\* changed between two statements of one cleanup: for any number of
\* overlapping Remove, UpdateConnections and Add, and any stream of events,
\* a channel without a config otherwise has a cleanup ahead.
THEOREM NoDanglingChannels == Spec => []DanglingCleaned
<1>1. Init => TidyInv
  <2>1. Init => FaultsOK /\ Tidy
      BY DEF Init, FaultsOK, Tidy, Dangling
  <2>2. Init => AllFresh
      BY DEF Init, AllFresh, Fresh, Idle
  <2>3. QED
      BY <2>1, <2>2, InitOK DEF TidyInv
<1>2. TidyInv /\ [Next]_vars => TidyInv'
  <2> SUFFICES ASSUME TidyInv, [Next]_vars PROVE TidyInv'
      OBVIOUS
  <2>1. ServiceInv' /\ FaultsOK'
      BY NextOK, FaultsCounted DEF TidyInv
  <2>2. ASSUME NoFailure', ~raced' PROVE AllFresh' /\ (Tidy' \/ CleanupAhead')
    <3>1. NoFailure
        BY <2>2, FaultsCounted DEF TidyInv, NoFailure
    <3>2. ~raced
        BY <2>2, Zenon DEF Next, Recorded, vars
    <3>3. QED
        BY <2>2, <3>1, <3>2, FreshStep, TidyStep DEF TidyInv
  <2>3. QED
      BY <2>1, <2>2 DEF TidyInv
<1>3. TidyInv => DanglingCleaned
    BY DEF TidyInv, DanglingCleaned, Tidy, CleanupAhead
<1>4. QED
    BY <1>1, <1>2, <1>3, PTL DEF Spec

-----------------------------------------------------------------------------
(* Things that Add created.                                                *)

Created(r) == r.op = "Add" /\ ~r.given /\ r.th # None

\* A thing an Add created is the caller's, or gone again, and the Add is
\* about to fetch it, to save its config or to undo the creation.
CreatedOK(r, owners, ids) ==
    Created(r) =>
        /\ r.pc \in {"get", "save", "undo"}
        /\ r.th \in ids /\ owners[r.th] \in {r.own, None}

CreatedInv ==
    /\ thingOwner \in [ThingIDs -> Owners \cup {None}]
    /\ \A t \in ThingIDs : ThingExists(t) => t \in issued
    /\ \A p \in Proc : CreatedOK(req[p], thingOwner, issued)

\* What AddLeavesNoOrphan says of one request.
NoOrphan(p) ==
    NoFailure' /\ Created(req[p]) /\ req'[p].op = "None"
        => cfgOwner'[req[p].th] # None \/ thingOwner'[req[p].th] = None

\* An id is issued once: nobody makes a thing of somebody else's.
LEMMA ThingsKept ==
    ASSUME ServiceInv, CreatedInv, [Next]_vars
    PROVE  /\ thingOwner' \in [ThingIDs -> Owners \cup {None}]
           /\ issued \subseteq issued'
           /\ \A t \in ThingIDs : ThingExists(t)' => t \in issued'
           /\ \A t \in issued \cap ThingIDs : thingOwner'[t] \in {thingOwner[t], None}
<1> DEFINE Goal == /\ thingOwner' \in [ThingIDs -> Owners \cup {None}]
                   /\ issued \subseteq issued'
                   /\ \A t \in ThingIDs : ThingExists(t)' => t \in issued'
                   /\ \A t \in issued \cap ThingIDs : thingOwner'[t] \in {thingOwner[t], None}
<1>1. ASSUME UNCHANGED <<thingOwner, issued>> PROVE Goal
    BY <1>1 DEF CreatedInv, ThingExists
<1>2. ASSUME NEW o, NEW t, DeleteThing(o, t) PROVE Goal
    BY <1>2 DEF CreatedInv, DeleteThing, ThingExists
<1>3. ASSUME NEW o \in Owners, NEW t \in ThingIDs, CreateOneThing(o, t) PROVE Goal
    BY <1>3 DEF CreatedInv, CreateOneThing, SaveThings, ThingExists
<1> SUFFICES Goal
    OBVIOUS
<1> HIDE DEF Goal
<1>4. ASSUME NEW p \in Proc,
             Add(p) \/ UpdateConnections(p) \/ ChangeState(p) \/ Remove(p)
      PROVE  Goal
    BY <1>1, <1>4 DEF Add, UpdateConnections, ChangeState, Remove, Arrive, Unasked, storeVars
<1>5. ASSUME NEW p \in Proc, CreateThing(p) PROVE Goal
  <2>1. req[p].own \in Owners
      BY <1>5 DEF CreateThing, ServiceInv, RequestsOK, RequestOK
  <2>2. QED
      BY <1>1, <1>3, <1>5, <2>1 DEF CreateThing, Unasked, storeVars
<1>6. ASSUME NEW p \in Proc, DropThing(p) PROVE Goal
    BY <1>2, <1>6 DEF DropThing
<1>7. ASSUME NEW p \in Proc,
             \/ ListExisting(p) \/ FetchChannel(p) \/ GetThing(p) \/ SaveConfig(p)
             \/ LoadConfig(p) \/ LoadChannels(p) \/ SetState(p) \/ StoreConnections(p)
             \/ TidyChannels(p) \/ CommitConnections(p) \/ RemoveConfig(p)
             \/ RemoveCleanup(p) \/ RemoveSweep(p) \/ RequestFails(p)
      PROVE  Goal
    BY <1>1, <1>7 DEF ListExisting, FetchChannel, GetThing, SaveConfig, LoadConfig,
                      LoadChannels, SetState, StoreConnections, TidyChannels,
                      CommitConnections, RemoveConfig, RemoveCleanup, RemoveSweep,
                      RequestFails, Unasked, storeVars
<1>8. ASSUME NEW p \in Proc, DisconnectThing(p) \/ ConnectThing(p) PROVE Goal
    BY <1>1, <1>8 DEF DisconnectThing, ConnectThing, DeleteConnection, InsertConnections,
                      Unasked, storeVars
<1>9. CASE Users
  <2>1. CASE UserRemoveThing
      BY <1>2, <2>1 DEF UserRemoveThing
  <2>2. CASE UserRemoveChannel \/ UserUpdateChannel
      BY <1>1, <2>2 DEF UserRemoveChannel, UserUpdateChannel, DeleteChannel, storeVars
  <2>3. CASE UserConnect \/ UserDisconnect
      BY <1>1, <2>3 DEF UserConnect, UserDisconnect, InsertConnections, DeleteConnection
  <2>4. QED
      BY <1>9, <2>1, <2>2, <2>3 DEF Users
<1>10. CASE XAdd \/ Consume \/ HandlerFails \/ HandleCleanupFails \/ Crash
            \/ UNCHANGED vars
  <2>1. UNCHANGED <<thingOwner, issued>>
      BY <1>10 DEF XAdd, Consume, Read, HandleRemoveThing, HandleCleanup, HandleSweep,
                   HandleDisconnectThing, HandleRemoveChannel, HandleUpdateChannel,
                   HandlerFails, HandleCleanupFails, Crash, Stop, Unasked, storeVars, vars
  <2>2. QED
      BY <1>1, <2>1
<1>11. QED
    BY <1>4, <1>5, <1>6, <1>7, <1>8, <1>9, <1>10 DEF Next, Steps, RequestStep

\* A request that no step touches keeps what it says about its thing.
LEMMA CreatedKept ==
    ASSUME ServiceInv, CreatedInv, [Next]_vars, NEW p \in Proc
    PROVE  CreatedOK(req[p], thingOwner', issued')
<1>1. req[p] \in RequestType
    BY DEF ServiceInv, RequestsOK
<1>2. Created(req[p]) => req[p].th \in issued \cap ThingIDs
    BY <1>1 DEF CreatedInv, CreatedOK, Created, RequestType
<1>3. QED
    BY <1>2, ThingsKept DEF CreatedInv, CreatedOK

LEMMA IdleCreated == ~Created(Idle) /\ Idle.op = "None"
BY DEF Created, Idle

\* One step of a request.
LEMMA CreatedStep ==
    ASSUME ServiceInv, FaultsOK, CreatedInv, [Next]_vars, NEW p \in Proc,
           \/ Add(p) \/ UpdateConnections(p) \/ ChangeState(p) \/ Remove(p)
           \/ RequestStep(p) \/ RequestFails(p)
    PROVE  \E r : /\ req' = [req EXCEPT ![p] = r]
                  /\ CreatedOK(r, thingOwner', issued')
                  /\ NoFailure' /\ Created(req[p]) /\ r.op = "None"
                        => cfgOwner'[req[p].th] # None \/ thingOwner'[req[p].th] = None
<1> DEFINE q == req[p]
           Goal(r) == /\ req' = [req EXCEPT ![p] = r]
                      /\ CreatedOK(r, thingOwner', issued')
                      /\ NoFailure' /\ Created(q) /\ r.op = "None"
                            => cfgOwner'[q.th] # None \/ thingOwner'[q.th] = None
<1> SUFFICES \E r : Goal(r)
    OBVIOUS
<1>1. q \in RequestType /\ RequestOK(q) /\ CreatedOK(q, thingOwner, issued)
    BY DEF ServiceInv, RequestsOK, CreatedInv
<1>2. CreatedOK(q, thingOwner', issued')
    BY CreatedKept
<1>3. ASSUME Return(p), ~Created(q) PROVE Goal(Idle)
    BY <1>3, IdleCreated DEF Return, CreatedOK
<1>4. ASSUME NEW l \in {"save", "undo"}, Goto(p, l) PROVE Goal([q EXCEPT !.pc = l])
  <2>1. [q EXCEPT !.pc = l].op = q.op
      BY <1>1 DEF RequestType
  <2>2. CreatedOK([q EXCEPT !.pc = l], thingOwner', issued')
      BY <1>1, <1>2 DEF CreatedOK, Created, RequestType
  <2>3. QED
      BY <1>4, <2>1, <2>2 DEF Goto, Created
<1>5. ASSUME NEW r \in RequestType, ~Created(r), ~Created(q), req' = [req EXCEPT ![p] = r]
      PROVE  Goal(r)
    BY <1>5 DEF CreatedOK
<1>6. ASSUME NEW r \in RequestType, ~Created(r), ~Created(q), Continue(p, r)
      PROVE  \E s : Goal(s)
  <2>1. ~Created([r EXCEPT !.pc = NextPC(r)])
      BY <1>6 DEF Created, RequestType
  <2>2. Goal([r EXCEPT !.pc = NextPC(r)])
      BY <1>6, <2>1 DEF Continue, CreatedOK
  <2>3. QED
      BY <2>2
<1>7. ASSUME NEW l \in PCs, ~Created(q), Goto(p, l) PROVE \E s : Goal(s)
  <2>1. [q EXCEPT !.pc = l] \in RequestType /\ ~Created([q EXCEPT !.pc = l])
      BY <1>1, <1>7 DEF RequestType, Created
  <2>2. QED
      BY <1>5, <1>7, <2>1 DEF Goto
<1>8. q.pc \notin {"get", "save", "undo"} => ~Created(q)
    BY <1>1 DEF CreatedOK
<1> HIDE DEF Goal
<1>9. CASE Add(p) \/ UpdateConnections(p) \/ ChangeState(p) \/ Remove(p)
  <2>1. PICK r : Arrive(p, r) /\ ~Created(r)
      BY <1>9, Arrivals DEF Created
  <2>2. QED
      BY <1>8, <2>1 DEF Arrive, Goal, CreatedOK
<1>10. CASE ListExisting(p)
  <2> DEFINE known == {c \in q.want : bsChannels[c] = q.own}
             s == [q EXCEPT !.known = known, !.todo = @ \ known]
  <2>1. q.pc = "list" /\ Continue(p, s)
      BY <1>10 DEF ListExisting
  <2>2. ~Created(q) /\ s \in RequestType /\ ~Created(s)
      BY <1>1, <1>8, <2>1 DEF RequestType, Created
  <2>3. QED
      BY <1>6, <2>1, <2>2
<1>11. CASE FetchChannel(p)
  <2>1. PICK c \in q.todo :
           q.pc = "fetch" /\ (Continue(p, [q EXCEPT !.todo = @ \ {c}]) \/ Return(p))
      BY <1>11 DEF FetchChannel
  <2> DEFINE s == [q EXCEPT !.todo = @ \ {c}]
  <2>2. ~Created(q) /\ s \in RequestType /\ ~Created(s)
      BY <1>1, <1>8, <2>1 DEF RequestType, Created
  <2>3. QED
      BY <1>3, <1>6, <2>1, <2>2
<1>12. CASE DisconnectThing(p)
  <2>1. PICK c \in q.from \ q.to :
           q.pc = "disc" /\ Continue(p, [q EXCEPT !.from = @ \ {c}])
      BY <1>12 DEF DisconnectThing
  <2> DEFINE s == [q EXCEPT !.from = @ \ {c}]
  <2>2. ~Created(q) /\ s \in RequestType /\ ~Created(s)
      BY <1>1, <1>8, <2>1 DEF RequestType, Created
  <2>3. QED
      BY <1>6, <2>1, <2>2
<1>13. CASE ConnectThing(p)
  <2>1. PICK c \in q.to \ q.from :
           q.pc = "conn" /\ (Continue(p, [q EXCEPT !.from = @ \cup {c}]) \/ Return(p))
      BY <1>13 DEF ConnectThing
  <2> DEFINE s == [q EXCEPT !.from = @ \cup {c}]
  <2>2. ~Created(q) /\ s \in RequestType /\ ~Created(s)
      BY <1>1, <1>8, <2>1 DEF RequestType, Created
  <2>3. QED
      BY <1>3, <1>6, <2>1, <2>2
<1>14. CASE CreateThing(p)
  <2>1. q.pc = "create" /\ ~Created(q) /\ q.own \in Owners
      BY <1>1, <1>8, <1>14 DEF CreateThing, RequestOK
  <2>2. ASSUME NEW t \in ThingIDs, CreateOneThing(q.own, t),
               req' = [req EXCEPT ![p].th = t, ![p].pc = "get"]
        PROVE  \E r : Goal(r)
    <3> DEFINE s == [q EXCEPT !.th = t, !.pc = "get"]
    <3>1. req' = [req EXCEPT ![p] = s]
        BY <2>2 DEF ServiceInv, RequestsOK
    <3>2. s.pc = "get" /\ s.th = t /\ s.own = q.own
        BY <1>1 DEF RequestType
    <3>3. t \in issued' /\ thingOwner'[t] \in {q.own, thingOwner[t]}
        BY <2>2 DEF CreateOneThing, SaveThings, CreatedInv
    <3>4. thingOwner[t] = None
        BY <2>2 DEF CreateOneThing, SaveThings, CreatedInv, ThingExists
    <3>5. QED
        BY <2>1, <3>1, <3>2, <3>3, <3>4 DEF Goal, CreatedOK
  <2>3. QED
      BY <1>3, <1>14, <2>1, <2>2 DEF CreateThing
<1>15. CASE GetThing(p)
  <2>1. thingOwner' = thingOwner
      BY <1>15 DEF GetThing, Unasked, storeVars
  <2>2. CASE thingOwner[q.th] = q.own
      BY <1>4, <1>15, <2>2 DEF GetThing
  <2>3. CASE thingOwner[q.th] # q.own
    <3>1. Return(p)
        BY <1>15, <2>3 DEF GetThing
    <3>2. Goal(Idle)
        BY <1>1, <2>1, <2>3, <3>1, IdleCreated DEF Goal, Return, CreatedOK
    <3>3. QED
        BY <3>2
  <2>4. QED
      BY <2>2, <2>3
<1>16. CASE SaveConfig(p)
  <2>1. q.pc = "save" /\ q.own \in Owners /\ q.th \in ThingIDs
      BY <1>1, <1>16 DEF SaveConfig, RequestOK
  <2>2. CASE Saveable(q)
    <3>1. Return(p) /\ cfgOwner' = [cfgOwner EXCEPT ![q.th] = q.own]
        BY <1>16, <2>2 DEF SaveConfig
    <3>2. cfgOwner'[q.th] # None
        BY <2>1, <3>1, StoreAssumption DEF ServiceInv, ConfigInv, ConfigTypeOK
    <3>3. Goal(Idle)
        BY <3>1, <3>2, IdleCreated DEF Goal, Return, CreatedOK
    <3>4. QED
        BY <3>3
  <2>3. CASE ~Saveable(q) /\ q.given
    <3>1. Return(p) /\ ~Created(q)
        BY <1>16, <2>3 DEF SaveConfig, Created
    <3>2. QED
        BY <1>3, <3>1
  <2>4. CASE ~Saveable(q) /\ ~q.given
      BY <1>4, <1>16, <2>4 DEF SaveConfig
  <2>5. QED
      BY <2>2, <2>3, <2>4
<1>17. CASE DropThing(p)
  <2>1. DeleteThing(q.own, q.th) /\ Return(p)
      BY <1>17 DEF DropThing
  <2>2. Created(q) => thingOwner'[q.th] = None
      BY <1>1, <2>1 DEF DeleteThing, CreatedOK, CreatedInv, Created, RequestType
  <2>3. Goal(Idle)
      BY <2>1, <2>2, IdleCreated DEF Goal, Return, CreatedOK
  <2>4. QED
      BY <2>3
<1>18. CASE LoadConfig(p)
  <2>1. q.pc = "load" /\ ~Created(q)
      BY <1>8, <1>18 DEF LoadConfig
  <2>2. CASE req' = [req EXCEPT ![p].st = cfgState[q.th], ![p].pc = "chans"]
    <3> DEFINE s == [q EXCEPT !.st = cfgState[q.th], !.pc = "chans"]
    <3>1. req' = [req EXCEPT ![p] = s] /\ ~Created(s)
        BY <1>1, <2>1, <2>2 DEF ServiceInv, RequestsOK, RequestType, Created
    <3>2. QED
        BY <2>1, <3>1 DEF Goal, CreatedOK
  <2>3. CASE Goto(p, "chans") \/ Return(p)
      BY <1>3, <1>7, <2>1, <2>3 DEF PCs
  <2>4. QED
      BY <1>18, <2>2, <2>3 DEF LoadConfig
<1>19. CASE LoadChannels(p)
  <2> DEFINE C == {c \in ChannelsOf(q.th) : bsChannels[c] = q.own}
             s == [q EXCEPT !.pc = "list", !.from = IF q.st = "Active" THEN C ELSE {},
                            !.to = IF q.st = "Active" THEN q.want ELSE {}]
  <2>1. q.pc = "chans" /\ ~Created(q)
      BY <1>8, <1>19 DEF LoadChannels
  <2>2. CASE req' = [req EXCEPT ![p].pc = "list",
                       ![p].from = IF q.st = "Active" THEN C ELSE {},
                       ![p].to = IF q.st = "Active" THEN q.want ELSE {}]
    <3>1. req' = [req EXCEPT ![p] = s] /\ ~Created(s)
        BY <1>1, <2>1, <2>2 DEF ServiceInv, RequestsOK, RequestType, Created
    <3>2. QED
        BY <2>1, <3>1 DEF Goal, CreatedOK
  <2>3. /\ [q EXCEPT !.to = C] \in RequestType /\ ~Created([q EXCEPT !.to = C])
        /\ [q EXCEPT !.from = C] \in RequestType /\ ~Created([q EXCEPT !.from = C])
      BY <1>1, <2>1 DEF RequestType, Created, ChannelsOf
  <2>4. QED
      BY <1>6, <1>19, <2>1, <2>2, <2>3 DEF LoadChannels
<1>20. CASE SetState(p) \/ CommitConnections(p) \/ RemoveSweep(p)
  <2>1. ~Created(q) /\ Return(p)
      BY <1>8, <1>20 DEF SetState, CommitConnections, RemoveSweep
  <2>2. QED
      BY <1>3, <2>1
<1>21. CASE RemoveConfig(p)
  <2>1. ~Created(q) /\ Goto(p, "clean")
      BY <1>8, <1>21 DEF RemoveConfig
  <2>2. QED
      BY <1>7, <2>1 DEF PCs
<1>22. CASE StoreConnections(p)
  <2>1. ~Created(q) /\ q.op = "Update"
      BY <1>1, <1>8, <1>22 DEF StoreConnections, RequestOK
  <2>2. ASSUME NEW l \in {"tidy", "commit"}, NEW gone \in SUBSET ChannelIDs,
               Enter(p, l, gone)
        PROVE  \E r : Goal(r)
    <3> DEFINE s == [q EXCEPT !.pc = l, !.from = gone, !.todo = {}]
    <3>1. req' = [req EXCEPT ![p] = s]
        BY <2>2 DEF Enter, ServiceInv, RequestsOK
    <3>2. s.op = "Update"
        BY <1>1, <2>1 DEF RequestType
    <3>3. QED
        BY <2>1, <3>1, <3>2 DEF Goal, CreatedOK, Created
  <2>3. ChannelsOf(q.th) \in SUBSET ChannelIDs
      BY DEF ChannelsOf
  <2>4. QED
      BY <1>3, <1>22, <2>1, <2>2, <2>3 DEF StoreConnections
<1>23. CASE TidyChannels(p) \/ RemoveCleanup(p)
  <2>1. ~Created(q) /\ q.op # "None" /\ (TidyChannels(p) => q.op = "Update")
      BY <1>1, <1>8, <1>23 DEF TidyChannels, RemoveCleanup, RequestOK
  <2>2. ASSUME NEW l \in {"commit", "sweep"}, NEW S \in SUBSET ChannelIDs,
               l = "commit" => q.op = "Update",
               req' = [req EXCEPT ![p].pc = l, ![p].todo = S]
        PROVE  \E r : Goal(r)
    <3> DEFINE s == [q EXCEPT !.pc = l, !.todo = S]
    <3>1. req' = [req EXCEPT ![p] = s]
        BY <2>1, <2>2, SelectOK DEF ServiceInv
    <3>2. ~Created(s)
        BY <1>1, <2>1 DEF RequestType, Created
    <3>3. QED
        BY <2>1, <3>1, <3>2 DEF Goal, CreatedOK
  <2>3. \A conns : Dangling(conns) \in SUBSET ChannelIDs
      BY DEF Dangling
  <2>4. CASE TidyChannels(p)
      BY <2>1, <2>2, <2>3, <2>4 DEF TidyChannels
  <2>5. CASE RemoveCleanup(p)
      BY <2>1, <2>2, <2>3, <2>5 DEF RemoveCleanup
  <2>6. QED
      BY <1>23, <2>4, <2>5
<1>24. CASE RequestFails(p)
  <2>1. ~NoFailure'
      BY <1>24 DEF RequestFails, Fault, FaultsOK, NoFailure
  <2>2. CASE Return(p)
    <3>1. Goal(Idle)
        BY <2>1, <2>2, IdleCreated DEF Goal, Return, CreatedOK
    <3>2. QED
        BY <3>1
  <2>3. CASE Goto(p, "undo")
      BY <1>4, <2>3
  <2>4. CASE q.given /\ Goto(p, "drop")
    <3>1. ~Created(q)
        BY <2>4 DEF Created
    <3>2. QED
        BY <1>7, <2>4, <3>1 DEF PCs
  <2>5. ASSUME NEW c, q.pc = "disc", Continue(p, [q EXCEPT !.from = @ \ {c}])
        PROVE  \E r : Goal(r)
    <3> DEFINE s == [q EXCEPT !.from = @ \ {c}]
    <3>1. ~Created(q) /\ s \in RequestType /\ ~Created(s)
        BY <1>1, <1>8, <2>5 DEF RequestType, Created
    <3>2. QED
        BY <1>6, <2>5, <3>1
  <2>6. QED
      BY <1>24, <2>2, <2>3, <2>4, <2>5 DEF RequestFails
<1>25. QED
    BY <1>9, <1>10, <1>11, <1>12, <1>13, <1>14, <1>15, <1>16, <1>17, <1>18, <1>19, <1>20,
       <1>21, <1>22, <1>23, <1>24 DEF RequestStep

LEMMA CreatedNext ==
    ASSUME ServiceInv, FaultsOK, CreatedInv, [Next]_vars
    PROVE  CreatedInv' /\ \A p \in Proc : NoOrphan(p)
<1>1. req \in [Proc -> RequestType] /\ \A p \in Proc : CreatedOK(req[p], thingOwner', issued')
    BY CreatedKept DEF ServiceInv, RequestsOK
<1>2. \A p \in Proc : Created(req[p]) => req[p].op # "None"
    BY DEF Created
<1>3. (\A p \in Proc : CreatedOK(req'[p], thingOwner', issued') /\ NoOrphan(p))
  <2>1. ASSUME NEW p \in Proc,
               \/ Add(p) \/ UpdateConnections(p) \/ ChangeState(p) \/ Remove(p)
               \/ RequestStep(p) \/ RequestFails(p),
               NEW q \in Proc
        PROVE  CreatedOK(req'[q], thingOwner', issued') /\ NoOrphan(q)
    <3>1. PICK r : /\ req' = [req EXCEPT ![p] = r]
                   /\ CreatedOK(r, thingOwner', issued')
                   /\ NoFailure' /\ Created(req[p]) /\ r.op = "None"
                         => cfgOwner'[req[p].th] # None \/ thingOwner'[req[p].th] = None
        BY <2>1, CreatedStep
    <3>2. CASE q = p
        BY <1>1, <3>1, <3>2 DEF NoOrphan
    <3>3. CASE q # p
      <4>1. req'[q] = req[q]
          BY <1>1, <3>1, <3>3
      <4>2. QED
          BY <1>1, <1>2, <4>1 DEF NoOrphan
    <3>4. QED
        BY <3>2, <3>3
  <2>2. ASSUME UNCHANGED req, NEW q \in Proc
        PROVE  CreatedOK(req'[q], thingOwner', issued') /\ NoOrphan(q)
      BY <1>1, <1>2, <2>2 DEF NoOrphan
  <2>3. ASSUME Crash \/ HandleUpdateChannel, NEW q \in Proc
        PROVE  CreatedOK(req'[q], thingOwner', issued') /\ NoOrphan(q)
    <3>1. req'[q] = Idle
        BY <2>3 DEF Crash, HandleUpdateChannel, Stop
    <3>2. ~NoFailure'
        BY <2>3, BootstrapAssumption
           DEF Crash, HandleUpdateChannel, Fault, FaultsOK, NoFailure, Overflowed
    <3>3. QED
        BY <3>1, <3>2, IdleCreated DEF NoOrphan, CreatedOK
  <2>4. Users \/ XAdd => UNCHANGED req
      BY DEF Users, UserRemoveThing, UserRemoveChannel, UserUpdateChannel, UserConnect,
             UserDisconnect, XAdd
  <2>5. Consume \/ HandlerFails \/ HandleCleanupFails
            => UNCHANGED req \/ HandleUpdateChannel
      BY DEF Consume, Read, HandleRemoveThing, HandleCleanup, HandleSweep,
             HandleDisconnectThing, HandleRemoveChannel, HandlerFails, HandleCleanupFails
  <2>6. UNCHANGED vars => UNCHANGED req
      BY DEF vars
  <2>7. QED
      BY <2>1, <2>2, <2>3, <2>4, <2>5, <2>6 DEF Next, Steps
<1>4. QED
    BY <1>3, ThingsKept DEF CreatedInv

\* While nothing fails, an Add that made a thing in the things service ends
\* with a config for it, or with the thing gone: however many Adds for one
\* external id, removals and events overlap it.
THEOREM AddsLeaveNoOrphan == Spec => AddLeavesNoOrphan
<1> DEFINE Inv == ServiceInv /\ FaultsOK /\ CreatedInv
<1>1. Init => Inv
  <2>1. Init => ServiceInv /\ FaultsOK
      BY InitOK DEF Init, FaultsOK
  <2>2. Init => CreatedInv
      BY StoreAssumption, IdleCreated DEF Init, CreatedInv, CreatedOK, ThingExists
  <2>3. QED
      BY <2>1, <2>2
<1>2. Inv /\ [Next]_vars => Inv' /\ [\A p \in Proc : NoOrphan(p)]_vars
    BY NextOK, FaultsCounted, CreatedNext
<1>3. (\A p \in Proc : NoOrphan(p)) <=>
      \A p \in Proc :
         /\ NoFailure'
         /\ req[p].op = "Add" /\ ~req[p].given /\ req[p].th # None
         /\ req'[p].op = "None"
         => cfgOwner'[req[p].th] # None \/ thingOwner'[req[p].th] = None
    BY DEF NoOrphan, Created
<1>4. QED
    BY <1>1, <1>2, <1>3, PTL DEF Spec, AddLeavesNoOrphan
=============================================================================
