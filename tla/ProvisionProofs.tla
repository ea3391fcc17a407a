-------------------------- MODULE ProvisionProofs --------------------------
(***************************************************************************)
(* Proofs about the provision service and the certificates it asks for,    *)
(* for any number of requests, any layouts of things and any number of     *)
(* channels and of failing calls.                                          *)
(***************************************************************************)
EXTENDS Provision, WellFoundedInduction, TLAPS

Config == [active : BOOLEAN, cert : BOOLEAN]

(* The calls of Provision, by the loop they are in.                        *)
MakingThings == {"idle", "meta", "createThing", "thing"}
MakingChannels == {"createChannel", "channel"}
Configuring == {"bootstrap", "view", "cert", "updateCert", "whitelist"}
Calls == MakingThings \cup MakingChannels \cup Configuring \cup {"gateway", "recover", "done"}

Types ==
    /\ conf \in [layout : Layouts, x509 : BOOLEAN, whitelist : BOOLEAN, pki : BOOLEAN]
    /\ meta \in [1..N -> Requests \cup {None}]
    /\ pc \in [Requests -> Calls]
    /\ k \in [Requests -> Nat]
    /\ made \in [Requests -> Seq(ThingIDs)]
    /\ chans \in [Requests -> Seq(ChannelIDs)]
    /\ err \in [Requests -> Errors \cup {None}]
    /\ undone \in [Requests -> BOOLEAN]
    /\ things \in [ThingIDs -> Requests \cup {"none", None}]
    /\ channels \subseteq ChannelIDs
    /\ configs \in [ThingIDs -> Config \cup {None}]
    /\ certs \in [ThingIDs -> Nat \cup {None}]
    /\ issued \in [ThingIDs -> Nat]

(* The lists of a request are its own things and channels, in order.       *)
ListsOK(r) ==
    /\ \A i \in 1..Len(made[r]) : made[r][i] = <<r, i>>
    /\ \A j \in 1..Len(chans[r]) : chans[r][j] = <<r, j>>

(* How far the lists are at each call, and when there is an error.         *)
PlaceOK(r) ==
    /\ pc[r] \in MakingThings => k[r] \in 1..N /\ Len(made[r]) = k[r] - 1 /\ chans[r] = <<>>
    /\ pc[r] = "idle" => k[r] = 1
    /\ pc[r] \in MakingChannels =>
          k[r] \in 1..NumChannels /\ Len(made[r]) = N /\ Len(chans[r]) = k[r] - 1
    /\ pc[r] \in Configuring => k[r] \in 1..N
    /\ pc[r] \in Configuring \cup {"gateway"} \/ Succeeded(r) =>
          Len(made[r]) = N /\ Len(chans[r]) = NumChannels
    /\ pc[r] \notin {"recover", "done"} => err[r] = None
    /\ pc[r] = "recover" => err[r] # None

(* The external_id of a thing about to be made has been set, by this       *)
(* request or by another.                                                  *)
MetaOK(r) == pc[r] = "createThing" /\ Layout[k[r]] => meta[k[r]] # None

(* What a request without an error has made, it has.                       *)
MadeOK(r) ==
    err[r] = None =>
        /\ \A i \in 1..Len(made[r]) : things[<<r, i>>] # None
        /\ pc[r] = "thing" => things[<<r, k[r]>>] # None
        /\ \A j \in 1..Len(chans[r]) : <<r, j>> \in channels
        /\ pc[r] = "channel" => <<r, k[r]>> \in channels

IsConfig(c, active, cert) == c \in Config /\ c.active = active /\ c.cert = cert

(* Its configs are ready up to the thing it is at, ...                     *)
Ready(r, i) == Layout[i] => IsConfig(configs[<<r, i>>], conf.whitelist, conf.x509)

ReadyOK(r) ==
    err[r] = None =>
        /\ pc[r] \in Configuring => \A i \in 1..k[r] - 1 : Ready(r, i)
        /\ pc[r] \in {"gateway", "done"} => \A i \in 1..N : Ready(r, i)
        /\ pc[r] = "done" => \E i \in 1..N : <<r, i>> \in gateways

(* ... and the config of that one is what the calls so far have made of it. *)
ConfigOK(r) ==
    /\ pc[r] \in {"view", "cert", "updateCert"} /\ Layout[k[r]] =>
          IsConfig(configs[<<r, k[r]>>], FALSE, FALSE)
    /\ pc[r] = "updateCert" => conf.x509
    /\ pc[r] = "whitelist" /\ Layout[k[r]] =>
          IsConfig(configs[<<r, k[r]>>], FALSE, conf.x509)

(* The errors after which recover deletes nothing come before there is     *)
(* anything to delete.                                                     *)
EarlyOK(r) ==
    /\ err[r] = "ErrFailedToCreateToken" => made[r] = <<>>
    /\ err[r] \in {"ErrFailedToCreateToken", "ErrFailedThingCreation",
                   "ErrFailedThingRetrieval"} => chans[r] = <<>>

LeftOK(r) ==
    Failed(r) /\ undone[r] =>
        /\ \A t \in ThingIDs : t[1] = r /\ things[t] # None =>
              \/ t \notin Range(made[r])
              \/ err[r] \in {"ErrFailedThingCreation", "ErrFailedCreation"}
        /\ \A c \in channels : c[1] = r => c \notin Range(chans[r]) \/ err[r] = "ErrFailedCreation"

RequestOK(r) ==
    /\ ListsOK(r)
    /\ PlaceOK(r)
    /\ MetaOK(r)
    /\ MadeOK(r)
    /\ ReadyOK(r)
    /\ ConfigOK(r)
    /\ EarlyOK(r)
    /\ LeftOK(r)

ProvisionInv == Types /\ \A r \in Requests : RequestOK(r)

-----------------------------------------------------------------------------
LEMMA LayoutOK ==
    ASSUME Types
    PROVE  /\ Layout \in Seq(BOOLEAN) /\ N \in Nat \ {0}
           /\ \A r \in Requests, i \in 1..N : <<r, i>> \in ThingIDs /\ Layout[i] \in BOOLEAN
           /\ \A r \in Requests, j \in 1..NumChannels : <<r, j>> \in ChannelIDs
<1>1. Layout \in Layouts
    BY DEF Types, Layout
<1>2. Layout \in Seq(BOOLEAN) /\ \E i \in 1..Len(Layout) : Layout[i]
    BY <1>1, LayoutAssumption
<1>3. N \in Nat \ {0}
    BY <1>2 DEF N
<1>4. 1..N \in {1..Len(l) : l \in Layouts}
    BY <1>1 DEF N
<1> QED
    BY <1>2, <1>3, <1>4 DEF ThingIDs, ChannelIDs, N

LEMMA InitInv == Init => ProvisionInv
<1> SUFFICES ASSUME Init PROVE ProvisionInv
    OBVIOUS
<1>1. Types
    BY DEF Init, Types, Calls, MakingThings
<1> SUFFICES ASSUME NEW r \in Requests PROVE RequestOK(r)
    BY <1>1 DEF ProvisionInv
<1>2. /\ pc[r] = "idle" /\ k[r] = 1 /\ made[r] = <<>> /\ chans[r] = <<>> /\ err[r] = None
    BY DEF Init
<1> QED
    BY <1>1, <1>2, LayoutOK, NoneAssumption
       DEF RequestOK, ListsOK, PlaceOK, MetaOK, MadeOK, ReadyOK, ConfigOK, EarlyOK, LeftOK,
           Errors, MakingThings, MakingChannels, Configuring, Succeeded, Failed

-----------------------------------------------------------------------------
(* A step in which request q takes no part: its locals and what is its own *)
(* stay, apart from configs of things that are gone.                       *)
Elsewhere(q) ==
    /\ conf' = conf
    /\ pc'[q] = pc[q] /\ k'[q] = k[q] /\ made'[q] = made[q] /\ chans'[q] = chans[q]
    /\ err'[q] = err[q] /\ undone'[q] = undone[q]
    /\ \A t \in ThingIDs : t[1] = q =>
          things'[t] = things[t] /\ (things[t] # None => configs'[t] = configs[t])
    /\ \A c \in ChannelIDs : c[1] = q => (c \in channels' <=> c \in channels)
    /\ gateways \subseteq gateways'
    /\ \A i \in 1..N : meta[i] # None => meta'[i] # None

LEMMA ElsewhereOK ==
    ASSUME Types, Types', NEW q \in Requests, RequestOK(q), Elsewhere(q)
    PROVE  RequestOK(q)'
<1>1. /\ N' = N /\ Layout' = Layout /\ Succeeded(q)' = Succeeded(q) /\ Failed(q)' = Failed(q)
      /\ N \in Nat
    BY LayoutOK DEF Elsewhere, Layout, N, Succeeded, Failed
<1>2. made[q] \in Seq(ThingIDs) /\ chans[q] \in Seq(ChannelIDs)
    BY DEF Types
<1>3. /\ \A i \in 1..N : <<q, i>> \in ThingIDs
      /\ \A j \in 1..NumChannels : <<q, j>> \in ChannelIDs
    BY LayoutOK
<1>4. ListsOK(q)'
    BY DEF RequestOK, ListsOK, Elsewhere
<1>5. PlaceOK(q)'
    BY <1>1 DEF RequestOK, PlaceOK, Elsewhere
<1>6. MetaOK(q)'
    BY <1>1 DEF RequestOK, MetaOK, PlaceOK, MakingThings, Elsewhere
<1>7. MadeOK(q)'
  <2> SUFFICES ASSUME err[q] = None
               PROVE  MadeOK(q)'
      BY DEF MadeOK, Elsewhere
  <2>1. \A i \in 1..Len(made[q]) : things'[<<q, i>>] # None
    <3> SUFFICES ASSUME NEW i \in 1..Len(made[q]) PROVE things'[<<q, i>>] # None
        OBVIOUS
    <3>1. <<q, i>> \in ThingIDs
        BY <1>2 DEF RequestOK, ListsOK
    <3> QED
        BY <3>1 DEF RequestOK, MadeOK, Elsewhere
  <2>2. pc[q] = "thing" => things'[<<q, k[q]>>] # None
      BY <1>3 DEF RequestOK, MadeOK, PlaceOK, MakingThings, Elsewhere
  <2>3. \A j \in 1..Len(chans[q]) : <<q, j>> \in channels'
    <3> SUFFICES ASSUME NEW j \in 1..Len(chans[q]) PROVE <<q, j>> \in channels'
        OBVIOUS
    <3>0. chans[q][j] \in ChannelIDs
        BY <1>2
    <3>1. <<q, j>> \in ChannelIDs
        BY <3>0 DEF RequestOK, ListsOK
    <3> QED
        BY <3>1 DEF RequestOK, MadeOK, Elsewhere
  <2>4. pc[q] = "channel" => <<q, k[q]>> \in channels'
      BY <1>3 DEF RequestOK, MadeOK, PlaceOK, MakingChannels, Elsewhere
  <2> QED
      BY <2>1, <2>2, <2>3, <2>4 DEF MadeOK, Elsewhere
<1>8. /\ pc[q] \in Configuring \cup {"gateway"} \/ Succeeded(q) =>
            \A i \in 1..N : configs'[<<q, i>>] = configs[<<q, i>>]
      /\ pc[q] \in Configuring => err[q] = None
  <2> SUFFICES ASSUME pc[q] \in Configuring \cup {"gateway"} \/ Succeeded(q)
               PROVE  \A i \in 1..N : configs'[<<q, i>>] = configs[<<q, i>>]
      BY DEF RequestOK, PlaceOK, Configuring
  <2>1. Len(made[q]) = N /\ err[q] = None
      BY DEF RequestOK, PlaceOK, Succeeded, Configuring
  <2>2. \A i \in 1..N : things[<<q, i>>] # None
      BY <2>1 DEF RequestOK, MadeOK
  <2> QED
      BY <2>2, <1>3 DEF Elsewhere
<1>9. ReadyOK(q)'
    BY <1>1, <1>8 DEF RequestOK, ReadyOK, Ready, PlaceOK, Elsewhere, Succeeded, Configuring
<1>10. ConfigOK(q)'
    BY <1>1, <1>8 DEF RequestOK, ConfigOK, PlaceOK, Elsewhere, Configuring
<1>11. EarlyOK(q)'
    BY DEF RequestOK, EarlyOK, Elsewhere
<1>12. LeftOK(q)'
    BY <1>1 DEF RequestOK, LeftOK, Elsewhere, Types
<1> QED
    BY <1>4, <1>5, <1>6, <1>7, <1>9, <1>10, <1>11, <1>12 DEF RequestOK

-----------------------------------------------------------------------------
LEMMA CurrentThing ==
    ASSUME Types, NEW r \in Requests, RequestOK(r), pc[r] \in Configuring
    PROVE  /\ Current(r) = <<r, k[r]>> /\ Current(r) \in ThingIDs
           /\ k[r] \in 1..N
           /\ NeedsBootstrap(Current(r)) = Layout[k[r]]
<1>1. k[r] \in 1..N /\ Len(made[r]) = N
    BY DEF RequestOK, PlaceOK
<1>2. Current(r) = <<r, k[r]>>
    BY <1>1 DEF RequestOK, ListsOK, Current
<1> QED
    BY <1>1, <1>2, LayoutOK DEF NeedsBootstrap

LEMMA IssueTypes ==
    ASSUME Types, NEW t \in ThingIDs, Issue(t) \/ IssueUnsaved(t)
    PROVE  /\ certs' \in [ThingIDs -> Nat \cup {None}] /\ issued' \in [ThingIDs -> Nat]
<1>1. issued' = [issued EXCEPT ![t] = @ + 1]
    BY DEF Issue, IssueUnsaved, Sign
<1>2. certs' = certs \/ certs' = [certs EXCEPT ![t] = issued[t] + 1]
    BY DEF Issue, IssueUnsaved, Serial
<1>3. issued \in [ThingIDs -> Nat] /\ certs \in [ThingIDs -> Nat \cup {None}]
    BY DEF Types
<1>4. issued[t] + 1 \in Nat
    BY <1>3
<1> QED
    BY <1>1, <1>2, <1>3, <1>4

LEMMA StepTypes ==
    ASSUME ProvisionInv, NEW r \in Requests, Step(r)
    PROVE  Types'
<1> USE DEF ProvisionInv
<1>0. /\ RequestOK(r)
      /\ \A i \in 1..N : <<r, i>> \in ThingIDs
      /\ \A j \in 1..NumChannels : <<r, j>> \in ChannelIDs
    BY LayoutOK
<1>1. conf' = conf /\ N' = N
    BY DEF Step, Begin, SetMetadata, CreateThing, GetThing, CreateChannel, GetChannel,
           AddBootstrap, ViewBootstrap, ProvisionCert, UpdateCert, Whitelist, UpdateGateway,
           Recover, N, Layout
<1> SUFFICES Types'
    OBVIOUS
<1>2. CASE Begin(r)
    BY <1>1, <1>2 DEF Begin, Fail, Goto, Types, Calls, MakingThings, Errors, server, certvars
<1>3. CASE SetMetadata(r)
    BY <1>0, <1>1, <1>3
       DEF SetMetadata, Goto, Types, Calls, MakingThings, server, certvars, RequestOK, PlaceOK
<1>4. CASE CreateThing(r)
  <2>1. k[r] \in 1..N
      BY <1>4 DEF CreateThing, RequestOK, PlaceOK, MakingThings
  <2>2. (IF Layout[k[r]] THEN meta[k[r]] ELSE "none") \in Requests \cup {"none", None}
      BY <2>1 DEF Types
  <2>3. things' \in [ThingIDs -> Requests \cup {"none", None}]
      BY <1>4, <2>2 DEF CreateThing, Types
  <2>4. pc' \in [Requests -> Calls] /\ err' \in [Requests -> Errors \cup {None}]
      BY <1>4 DEF CreateThing, Fail, Goto, Types, Calls, MakingThings, Errors
  <2> QED
      BY <1>1, <1>4, <2>3, <2>4 DEF CreateThing, Types, certvars
<1>5. CASE GetThing(r)
  <2>1. k[r] \in 1..N /\ <<r, k[r]>> \in ThingIDs
      BY <1>0, <1>5 DEF GetThing, RequestOK, PlaceOK, MakingThings
  <2>0. Append(made[r], <<r, k[r]>>) \in Seq(ThingIDs)
      BY <2>1 DEF Types
  <2>2. made' \in [Requests -> Seq(ThingIDs)] /\ k' \in [Requests -> Nat]
    <3>1. made' \in [Requests -> Seq(ThingIDs)]
        BY <1>5, <2>0 DEF GetThing, Types
    <3>2. k' \in {k, [k EXCEPT ![r] = k[r] + 1], [k EXCEPT ![r] = 1]}
        BY <1>5 DEF GetThing
    <3>3. k \in [Requests -> Nat]
        BY DEF Types
    <3>4. k' \in [Requests -> Nat]
        BY <3>2, <3>3
    <3> QED
        BY <3>1, <3>4
  <2>3. pc' \in [Requests -> Calls] /\ err' \in [Requests -> Errors \cup {None}]
    <3>1. pc' \in [Requests -> Calls]
        BY <1>5 DEF GetThing, Fail, Goto, Types, Calls, MakingThings, MakingChannels
    <3>2. err' \in [Requests -> Errors \cup {None}]
        BY <1>5 DEF GetThing, Fail, Types, Errors
    <3> QED
        BY <3>1, <3>2
  <2> QED
      BY <1>1, <1>5, <2>2, <2>3 DEF GetThing, Types, server, certvars
<1>6. CASE CreateChannel(r)
    BY <1>0, <1>1, <1>6
       DEF CreateChannel, Fail, Goto, Types, Calls, MakingChannels, Errors, certvars,
           RequestOK, PlaceOK
<1>7. CASE GetChannel(r)
  <2>1. k[r] \in 1..NumChannels /\ <<r, k[r]>> \in ChannelIDs
      BY <1>0, <1>7 DEF GetChannel, RequestOK, PlaceOK, MakingChannels
  <2>0. Append(chans[r], <<r, k[r]>>) \in Seq(ChannelIDs)
      BY <2>1 DEF Types
  <2>2. chans' \in [Requests -> Seq(ChannelIDs)] /\ k' \in [Requests -> Nat]
    <3>1. chans' \in [Requests -> Seq(ChannelIDs)]
        BY <1>7, <2>0 DEF GetChannel, Types
    <3>2. k' \in {k, [k EXCEPT ![r] = k[r] + 1], [k EXCEPT ![r] = 1]}
        BY <1>7 DEF GetChannel
    <3>3. k \in [Requests -> Nat]
        BY DEF Types
    <3>4. k' \in [Requests -> Nat]
        BY <3>2, <3>3
    <3> QED
        BY <3>1, <3>4
  <2>3. pc' \in [Requests -> Calls] /\ err' \in [Requests -> Errors \cup {None}]
    <3>1. pc' \in [Requests -> Calls]
        BY <1>7 DEF GetChannel, Fail, Goto, Types, Calls, MakingChannels, Configuring
    <3>2. err' \in [Requests -> Errors \cup {None}]
        BY <1>7 DEF GetChannel, Fail, Types, Errors
    <3> QED
        BY <3>1, <3>2
  <2> QED
      BY <1>1, <1>7, <2>2, <2>3 DEF GetChannel, Types, server, certvars
<1>8. CASE AddBootstrap(r)
  <2>1. configs' \in [ThingIDs -> Config \cup {None}]
    <3>1. [active |-> FALSE, cert |-> FALSE] \in Config
        BY DEF Config
    <3> QED
        BY <1>8, <3>1 DEF AddBootstrap, Types
  <2>2. pc' \in [Requests -> Calls] /\ err' \in [Requests -> Errors \cup {None}]
      BY <1>8 DEF AddBootstrap, Fail, Goto, Types, Calls, Configuring, Errors
  <2> QED
      BY <1>1, <1>8, <2>1, <2>2 DEF AddBootstrap, Types, certvars
<1>9. CASE ViewBootstrap(r)
    BY <1>1, <1>9 DEF ViewBootstrap, Fail, Goto, Types, Calls, Configuring, Errors, server, certvars
<1>10. CASE ProvisionCert(r)
  <2>1. /\ certs' \in [ThingIDs -> Nat \cup {None}] /\ issued' \in [ThingIDs -> Nat]
      BY <1>10, CurrentThing, IssueTypes DEF ProvisionCert, Configuring, Types
  <2>2. pc' \in [Requests -> Calls] /\ err' \in [Requests -> Errors \cup {None}]
      BY <1>10 DEF ProvisionCert, Fail, Goto, Types, Calls, Configuring, Errors
  <2> QED
      BY <1>1, <1>10, <2>1, <2>2 DEF ProvisionCert, Types, server
<1>11. CASE UpdateCert(r)
  <2>1. configs' \in [ThingIDs -> Config \cup {None}]
    <3>1. pc[r] = "updateCert" /\ pc[r] \in Configuring
        BY <1>11 DEF UpdateCert, Configuring
    <3>0. Current(r) = <<r, k[r]>> /\ NeedsBootstrap(Current(r)) = Layout[k[r]]
        BY <3>1, CurrentThing
    <3>2. NeedsBootstrap(Current(r)) => configs[Current(r)] \in Config
      <4>1. Layout[k[r]] => configs[<<r, k[r]>>] \in Config
          BY <1>0, <3>1 DEF RequestOK, ConfigOK, IsConfig
      <4> QED
          BY <3>0, <4>1
    <3>3. NeedsBootstrap(Current(r)) => [configs[Current(r)] EXCEPT !.cert = TRUE] \in Config
        BY <3>2 DEF Config
    <3> QED
        BY <1>11, <3>3 DEF UpdateCert, Types
  <2> QED
      BY <1>1, <1>11, <2>1
         DEF UpdateCert, Fail, Goto, Types, Calls, Configuring, Errors, certvars
<1>12. CASE Whitelist(r)
  <2>1. configs' \in [ThingIDs -> Config \cup {None}]
    <3>1. pc[r] \in Configuring
        BY <1>12 DEF Whitelist, Configuring
    <3>2. Current(r) \in ThingIDs
        BY <3>1, CurrentThing
    <3>3. configs[Current(r)] # None => [configs[Current(r)] EXCEPT !.active = TRUE] \in Config
        BY <3>2 DEF Types, Config
    <3> QED
        BY <1>12, <3>3 DEF Whitelist, Types
  <2>2. k' \in [Requests -> Nat]
      BY <1>12 DEF Whitelist, Types
  <2> QED
      BY <1>1, <1>12, <2>1, <2>2
         DEF Whitelist, Fail, Goto, Types, Calls, Configuring, Errors, certvars
<1>13. CASE UpdateGateway(r)
    BY <1>1, <1>13 DEF UpdateGateway, Fail, Goto, Types, Calls, Errors, certvars
<1>14. CASE Recover(r)
  <2>1. /\ things' \in [ThingIDs -> Requests \cup {"none", None}]
        /\ channels' \subseteq ChannelIDs
        /\ undone' \in [Requests -> BOOLEAN]
        /\ configs' \in [ThingIDs -> Config \cup {None}]
    <3> DEFINE c == Clean(err[r])
               ths == IF c.things THEN Range(made[r]) ELSE {}
               chs == IF c.channels THEN Range(chans[r]) ELSE {}
               cfs == IF c.configs THEN {t \in Range(made[r]) : NeedsBootstrap(t)} ELSE {}
    <3>1. PICK keptThings \in SUBSET ths, keptChannels \in SUBSET chs, keptConfigs \in SUBSET cfs :
               /\ IF keptThings \cup keptChannels \cup keptConfigs = {}
                    THEN UNCHANGED <<faults, undone>>
                    ELSE Fault /\ undone' = [undone EXCEPT ![r] = FALSE]
               /\ things' = [t \in ThingIDs |-> IF t \in ths \ keptThings THEN None ELSE things[t]]
               /\ channels' = channels \ (chs \ keptChannels)
               /\ configs' = [t \in ThingIDs |-> IF t \in cfs \ keptConfigs THEN None ELSE configs[t]]
        BY <1>14 DEF Recover
    <3> HIDE DEF c, ths, chs, cfs
    <3> QED
        BY <3>1 DEF Types
  <2>2. pc' \in [Requests -> Calls]
      BY <1>14 DEF Recover, Goto, Types, Calls
  <2> QED
      BY <1>1, <1>14, <2>1, <2>2 DEF Recover, Types, certvars
<1> QED
    BY <1>2, <1>3, <1>4, <1>5, <1>6, <1>7, <1>8, <1>9, <1>10, <1>11, <1>12, <1>13, <1>14 DEF Step

-----------------------------------------------------------------------------
(* A request deletes what it has made, and nothing else.                   *)
LEMMA OwnLists ==
    ASSUME NEW r \in Requests, ListsOK(r), Types
    PROVE  /\ \A t \in Range(made[r]) : t[1] = r /\ t \in ThingIDs
           /\ \A c \in Range(chans[r]) : c[1] = r /\ c \in ChannelIDs
           /\ \A i \in 1..Len(made[r]) : <<r, i>> \in Range(made[r])
           /\ \A j \in 1..Len(chans[r]) : <<r, j>> \in Range(chans[r])
<1>1. made[r] \in Seq(ThingIDs) /\ chans[r] \in Seq(ChannelIDs)
    BY DEF Types
<1>2. DOMAIN made[r] = 1..Len(made[r]) /\ DOMAIN chans[r] = 1..Len(chans[r])
    BY <1>1
<1>3. \A i \in 1..Len(made[r]) : made[r][i] \in ThingIDs
    BY <1>1
<1>4. \A i \in 1..Len(chans[r]) : chans[r][i] \in ChannelIDs
    BY <1>1
<1> QED
    BY <1>2, <1>3, <1>4 DEF ListsOK, Range

LEMMA Others ==
    ASSUME ProvisionInv, NEW r \in Requests, Step(r), NEW q \in Requests, q # r
    PROVE  Elsewhere(q)
<1> USE DEF ProvisionInv
<1>0. RequestOK(r)
    OBVIOUS
<1>b. CASE Begin(r)
    BY <1>b DEF Begin, Fail, Goto, Types, Elsewhere, server
<1>c. CASE SetMetadata(r)
  <2>1. meta' \in {meta, [meta EXCEPT ![k[r]] = r]}
      BY <1>c DEF SetMetadata
  <2>2. \A i \in 1..N : meta[i] # None => meta'[i] # None
      BY <2>1, NoneAssumption DEF Types
  <2> QED
      BY <1>c, <2>2 DEF SetMetadata, Goto, Types, Elsewhere, server
<1>d. CASE CreateThing(r)
    BY <1>d DEF CreateThing, Fail, Goto, Types, Elsewhere
<1>e. CASE GetThing(r)
    BY <1>e DEF GetThing, Fail, Goto, Types, Elsewhere, server
<1>f. CASE CreateChannel(r)
    BY <1>f DEF CreateChannel, Fail, Goto, Types, Elsewhere
<1>g. CASE GetChannel(r)
    BY <1>g DEF GetChannel, Fail, Goto, Types, Elsewhere, server
<1>h. CASE AddBootstrap(r)
  <2>1. Current(r) = <<r, k[r]>>
      BY <1>0, <1>h, CurrentThing DEF AddBootstrap, Configuring
  <2> QED
      BY <1>h, <2>1 DEF AddBootstrap, Fail, Goto, Types, Elsewhere
<1>i. CASE ViewBootstrap(r)
    BY <1>i DEF ViewBootstrap, Fail, Goto, Types, Elsewhere, server
<1>j. CASE ProvisionCert(r)
    BY <1>j DEF ProvisionCert, Fail, Goto, Types, Elsewhere, server
<1>k. CASE UpdateCert(r)
  <2>1. Current(r) = <<r, k[r]>>
      BY <1>0, <1>k, CurrentThing DEF UpdateCert, Configuring
  <2> QED
      BY <1>k, <2>1 DEF UpdateCert, Fail, Goto, Types, Elsewhere
<1>l. CASE Whitelist(r)
  <2>1. Current(r) = <<r, k[r]>>
      BY <1>0, <1>l, CurrentThing DEF Whitelist, Configuring
  <2> QED
      BY <1>l, <2>1 DEF Whitelist, Fail, Goto, Types, Elsewhere
<1>m. CASE UpdateGateway(r)
    BY <1>m DEF UpdateGateway, Fail, Goto, Types, Elsewhere
<1>n. CASE Recover(r)
  <2> DEFINE cl == Clean(err[r])
             ths == IF cl.things THEN Range(made[r]) ELSE {}
             chs == IF cl.channels THEN Range(chans[r]) ELSE {}
             cfs == IF cl.configs THEN {t \in Range(made[r]) : NeedsBootstrap(t)} ELSE {}
  <2>1. PICK keptThings \in SUBSET ths, keptChannels \in SUBSET chs, keptConfigs \in SUBSET cfs :
             /\ IF keptThings \cup keptChannels \cup keptConfigs = {}
                  THEN UNCHANGED <<faults, undone>>
                  ELSE Fault /\ undone' = [undone EXCEPT ![r] = FALSE]
             /\ things' = [t \in ThingIDs |-> IF t \in ths \ keptThings THEN None ELSE things[t]]
             /\ channels' = channels \ (chs \ keptChannels)
             /\ configs' = [t \in ThingIDs |-> IF t \in cfs \ keptConfigs THEN None ELSE configs[t]]
      BY <1>n DEF Recover
  <2>3. (\A t \in ths \cup cfs : t[1] = r) /\ (\A c \in chs : c[1] = r)
      BY <1>0, OwnLists DEF RequestOK
  <2>4. /\ pc' = [pc EXCEPT ![r] = "done"]
        /\ UNCHANGED <<conf, meta, k, made, chans, err, gateways, certvars>>
      BY <1>n DEF Recover, Goto
  <2> HIDE DEF cl, ths, chs, cfs
  <2>5. undone'[q] = undone[q]
      BY <2>1 DEF Types
  <2>6. \A t \in ThingIDs : t[1] = q => things'[t] = things[t] /\ configs'[t] = configs[t]
      BY <2>1, <2>3
  <2>7. \A c \in ChannelIDs : c[1] = q => (c \in channels' <=> c \in channels)
      BY <2>1, <2>3
  <2> QED
      BY <2>4, <2>5, <2>6, <2>7 DEF Elsewhere, Types
<1> QED
    BY <1>b, <1>c, <1>d, <1>e, <1>f, <1>g, <1>h, <1>i, <1>j, <1>k, <1>l, <1>m, <1>n DEF Step

-----------------------------------------------------------------------------
(* A call fails: there is an error, and the request has only its lists.    *)
LEMMA FailOK ==
    ASSUME Types, NEW r \in Requests, ListsOK(r), NEW e \in Errors, Fail(r, e),
           made' = made, chans' = chans,
           e = "ErrFailedToCreateToken" => made[r] = <<>>,
           e \in {"ErrFailedToCreateToken", "ErrFailedThingCreation",
                  "ErrFailedThingRetrieval"} => chans[r] = <<>>
    PROVE  RequestOK(r)'
<1>1. pc'[r] = "recover" /\ err'[r] = e /\ e # None
    BY NoneAssumption DEF Fail, Goto, Types
<1>2. ListsOK(r)'
    BY DEF ListsOK
<1>3. EarlyOK(r)'
    BY <1>1 DEF EarlyOK
<1> QED
    BY <1>1, <1>2, <1>3
       DEF RequestOK, PlaceOK, MetaOK, MadeOK, ReadyOK, ConfigOK, LeftOK, Succeeded, Failed,
           MakingThings, MakingChannels, Configuring

(* A request that goes on without an error.                                *)
LEMMA GoesOn ==
    ASSUME Types, NEW r \in Requests, RequestOK(r),
           pc[r] \notin {"recover", "done"}, err' = err
    PROVE  /\ err[r] = None /\ err'[r] = None
           /\ EarlyOK(r)' /\ LeftOK(r)'
<1>1. err[r] = None
    BY DEF RequestOK, PlaceOK
<1> QED
    BY <1>1, NoneAssumption DEF EarlyOK, LeftOK, Failed, Errors

LEMMA BeginOK ==
    ASSUME Types, NEW r \in Requests, RequestOK(r), Begin(r)
    PROVE  RequestOK(r)'
<1>0. pc[r] = "idle" /\ k[r] = 1 /\ Len(made[r]) = 0 /\ chans[r] = <<>> /\ made[r] = <<>>
  <2>1. pc[r] = "idle" /\ k[r] = 1 /\ Len(made[r]) = 0 /\ chans[r] = <<>>
      BY DEF Begin, RequestOK, PlaceOK, MakingThings
  <2>2. made[r] \in Seq(ThingIDs)
      BY DEF Types
  <2> QED
      BY <2>1, <2>2
<1>1. CASE Fail(r, "ErrFailedToCreateToken")
  <2>1. made' = made /\ chans' = chans /\ ListsOK(r) /\ "ErrFailedToCreateToken" \in Errors
      BY DEF Begin, RequestOK, Errors
  <2> QED
      BY <1>0, <1>1, <2>1, FailOK
<1>2. CASE pc' = [pc EXCEPT ![r] = "meta"] /\ UNCHANGED err
  <2>1. /\ err[r] = None /\ err'[r] = None /\ EarlyOK(r)' /\ LeftOK(r)'
      BY <1>0, <1>2, GoesOn
  <2>2. pc'[r] = "meta" /\ UNCHANGED <<conf, k, made, chans, err, things, channels>>
        /\ N' = N
      BY <1>2 DEF Begin, Types, server, N, Layout
  <2> QED
      BY <1>0, <2>1, <2>2
         DEF RequestOK, ListsOK, PlaceOK, MetaOK, MadeOK, ReadyOK, ConfigOK, Succeeded,
             MakingThings, MakingChannels, Configuring
<1> QED
    BY <1>1, <1>2 DEF Begin, Goto

LEMMA SetMetadataOK ==
    ASSUME Types, NEW r \in Requests, RequestOK(r), SetMetadata(r)
    PROVE  RequestOK(r)'
<1>1. pc[r] = "meta" /\ k[r] \in 1..N
    BY DEF SetMetadata, RequestOK, PlaceOK, MakingThings
<1>2. /\ err[r] = None /\ err'[r] = None /\ EarlyOK(r)' /\ LeftOK(r)'
    BY <1>1, GoesOn DEF SetMetadata
<1>3. /\ pc'[r] = "createThing" /\ UNCHANGED <<conf, k, made, chans, err, things, channels>>
      /\ N' = N /\ Layout' = Layout
    BY DEF SetMetadata, Goto, Types, server, N, Layout
<1>4. MetaOK(r)'
    BY <1>1, <1>3, NoneAssumption DEF SetMetadata, MetaOK, Types
<1> QED
    BY <1>1, <1>2, <1>3, <1>4
       DEF RequestOK, ListsOK, PlaceOK, MadeOK, ReadyOK, ConfigOK, Succeeded,
           MakingThings, MakingChannels, Configuring

LEMMA CreateThingOK ==
    ASSUME Types, NEW r \in Requests, RequestOK(r), CreateThing(r)
    PROVE  RequestOK(r)'
<1>1. pc[r] = "createThing" /\ k[r] \in 1..N /\ Len(made[r]) = k[r] - 1 /\ chans[r] = <<>>
    BY DEF CreateThing, RequestOK, PlaceOK, MakingThings
<1>2. CASE Fail(r, "ErrFailedThingCreation")
  <2>1. made' = made /\ chans' = chans /\ ListsOK(r) /\ "ErrFailedThingCreation" \in Errors
      BY DEF CreateThing, RequestOK, Errors
  <2> QED
      BY <1>1, <1>2, <2>1, FailOK
<1>3. CASE /\ things' = [things EXCEPT ![<<r, k[r]>>] = IF Layout[k[r]] THEN meta[k[r]] ELSE "none"]
           /\ pc' = [pc EXCEPT ![r] = "thing"] /\ UNCHANGED err
  <2>1. /\ err[r] = None /\ err'[r] = None /\ EarlyOK(r)' /\ LeftOK(r)'
      BY <1>1, <1>3, GoesOn
  <2>2. pc'[r] = "thing" /\ UNCHANGED <<conf, k, made, chans, err, channels>> /\ N' = N
      BY <1>3 DEF CreateThing, Types, N, Layout
  <2>3. (IF Layout[k[r]] THEN meta[k[r]] ELSE "none") # None
      BY <1>1, NoneAssumption DEF RequestOK, MetaOK
  <2>4. <<r, k[r]>> \in ThingIDs
      BY <1>1, LayoutOK
  <2>5. /\ things'[<<r, k[r]>>] # None
        /\ \A i \in 1..Len(made[r]) : things'[<<r, i>>] = things[<<r, i>>]
    <3>1. \A i \in 1..Len(made[r]) : <<r, i>> # <<r, k[r]>>
        BY <1>1
    <3> QED
        BY <1>3, <2>3, <2>4, <3>1 DEF Types
  <2>6. MadeOK(r)'
      BY <1>1, <2>1, <2>2, <2>5 DEF RequestOK, MadeOK
  <2> QED
      BY <1>1, <2>1, <2>2, <2>6
         DEF RequestOK, ListsOK, PlaceOK, MetaOK, ReadyOK, ConfigOK, Succeeded,
             MakingThings, MakingChannels, Configuring
<1> QED
    BY <1>2, <1>3 DEF CreateThing, Goto

(* The list of a request grows by the next thing, or channel.              *)
LEMMA Appended ==
    ASSUME NEW S, NEW s \in Seq(S), NEW x \in S
    PROVE  /\ Len(Append(s, x)) = Len(s) + 1
           /\ \A i \in 1..Len(s) : Append(s, x)[i] = s[i]
           /\ Append(s, x)[Len(s) + 1] = x
OBVIOUS

LEMMA GetThingOK ==
    ASSUME Types, NEW r \in Requests, RequestOK(r), GetThing(r)
    PROVE  RequestOK(r)'
<1>1. pc[r] = "thing" /\ k[r] \in 1..N /\ Len(made[r]) = k[r] - 1 /\ chans[r] = <<>>
    BY DEF GetThing, RequestOK, PlaceOK, MakingThings
<1>2. CASE Fail(r, "ErrFailedThingRetrieval") /\ UNCHANGED <<made, k>>
  <2>1. made' = made /\ chans' = chans /\ ListsOK(r) /\ "ErrFailedThingRetrieval" \in Errors
      BY <1>2 DEF GetThing, RequestOK, Errors
  <2> QED
      BY <1>1, <1>2, <2>1, FailOK
<1>3. CASE /\ made' = [made EXCEPT ![r] = Append(@, <<r, k[r]>>)]
           /\ IF k[r] < N THEN Goto(r, "meta") /\ k' = [k EXCEPT ![r] = @ + 1]
                          ELSE Goto(r, "createChannel") /\ k' = [k EXCEPT ![r] = 1]
           /\ UNCHANGED err
  <2>1. /\ err[r] = None /\ err'[r] = None /\ EarlyOK(r)' /\ LeftOK(r)'
      BY <1>1, <1>3, GoesOn
  <2>2. UNCHANGED <<conf, chans, err, things, channels>> /\ N' = N
      BY <1>3 DEF GetThing, N, Layout, server
  <2>3. <<r, k[r]>> \in ThingIDs /\ made[r] \in Seq(ThingIDs) /\ N \in Nat \ {0}
      BY <1>1, LayoutOK DEF Types
  <2>4. made'[r] = Append(made[r], <<r, k[r]>>)
      BY <1>3 DEF Types
  <2>5. /\ Len(made'[r]) = k[r]
        /\ \A i \in 1..k[r] : made'[r][i] = <<r, i>> /\ things[<<r, i>>] # None
    <3>1. \A i \in 1..k[r] : i = k[r] \/ i \in 1..Len(made[r])
        BY <1>1
    <3>2. k[r] = Len(made[r]) + 1
        BY <1>1, <2>3
    <3>3. \A i \in 1..Len(made[r]) : made[r][i] = <<r, i>> /\ things[<<r, i>>] # None
        BY <2>1 DEF RequestOK, ListsOK, MadeOK
    <3>4. things[<<r, k[r]>>] # None
        BY <1>1, <2>1 DEF RequestOK, MadeOK
    <3> QED
        BY <2>3, <2>4, <3>1, <3>2, <3>3, <3>4, Appended
  <2>6. \/ pc'[r] = "meta" /\ k'[r] = k[r] + 1 /\ k[r] < N
        \/ pc'[r] = "createChannel" /\ k'[r] = 1 /\ k[r] = N
      BY <1>1, <1>3, <2>3 DEF Goto, Types
  <2>0. Len(chans[r]) = 0
      BY <1>1
  <2>7. ListsOK(r)' /\ MadeOK(r)'
      BY <2>0, <2>1, <2>2, <2>5, <2>6 DEF RequestOK, ListsOK, MadeOK
  <2>8. PlaceOK(r)'
      BY <1>1, <2>0, <2>1, <2>2, <2>3, <2>5, <2>6, LayoutAssumption
         DEF PlaceOK, Succeeded, MakingThings, MakingChannels, Configuring
  <2> QED
      BY <2>1, <2>6, <2>7, <2>8 DEF RequestOK, MetaOK, ReadyOK, ConfigOK, Configuring
<1> QED
    BY <1>2, <1>3 DEF GetThing

LEMMA CreateChannelOK ==
    ASSUME Types, NEW r \in Requests, RequestOK(r), CreateChannel(r)
    PROVE  RequestOK(r)'
<1>1. /\ pc[r] = "createChannel" /\ k[r] \in 1..NumChannels /\ Len(made[r]) = N
      /\ Len(chans[r]) = k[r] - 1
    BY DEF CreateChannel, RequestOK, PlaceOK, MakingChannels
<1>2. CASE Fail(r, "ErrFailedCreation")
  <2>1. made' = made /\ chans' = chans /\ ListsOK(r) /\ "ErrFailedCreation" \in Errors
      BY DEF CreateChannel, RequestOK, Errors
  <2> QED
      BY <1>2, <2>1, FailOK
<1>3. CASE /\ channels' = channels \cup {<<r, k[r]>>}
           /\ pc' = [pc EXCEPT ![r] = "channel"] /\ UNCHANGED err
  <2>1. /\ err[r] = None /\ err'[r] = None /\ EarlyOK(r)' /\ LeftOK(r)'
      BY <1>1, <1>3, GoesOn
  <2>2. pc'[r] = "channel" /\ UNCHANGED <<conf, k, made, chans, err, things>> /\ N' = N
      BY <1>3 DEF CreateChannel, Types, N, Layout
  <2> QED
      BY <1>1, <1>3, <2>1, <2>2
         DEF RequestOK, ListsOK, PlaceOK, MetaOK, MadeOK, ReadyOK, ConfigOK, Succeeded,
             MakingThings, MakingChannels, Configuring
<1> QED
    BY <1>2, <1>3 DEF CreateChannel, Goto

LEMMA GetChannelOK ==
    ASSUME Types, NEW r \in Requests, RequestOK(r), GetChannel(r)
    PROVE  RequestOK(r)'
<1>1. /\ pc[r] = "channel" /\ k[r] \in 1..NumChannels /\ Len(made[r]) = N
      /\ Len(chans[r]) = k[r] - 1
    BY DEF GetChannel, RequestOK, PlaceOK, MakingChannels
<1>2. CASE Fail(r, "ErrFailedChannelRetrieval") /\ UNCHANGED <<chans, k>>
  <2>1. made' = made /\ chans' = chans /\ ListsOK(r) /\ "ErrFailedChannelRetrieval" \in Errors
      BY <1>2 DEF GetChannel, RequestOK, Errors
  <2> QED
      BY <1>1, <1>2, <2>1, FailOK
<1>3. CASE /\ chans' = [chans EXCEPT ![r] = Append(@, <<r, k[r]>>)]
           /\ IF k[r] < NumChannels
                THEN Goto(r, "createChannel") /\ k' = [k EXCEPT ![r] = @ + 1]
                ELSE Goto(r, "bootstrap") /\ k' = [k EXCEPT ![r] = 1]
           /\ UNCHANGED err
  <2>1. /\ err[r] = None /\ err'[r] = None /\ EarlyOK(r)' /\ LeftOK(r)'
      BY <1>1, <1>3, GoesOn
  <2>2. UNCHANGED <<conf, made, err, things, channels>> /\ N' = N
      BY <1>3 DEF GetChannel, N, Layout, server
  <2>3. <<r, k[r]>> \in ChannelIDs /\ chans[r] \in Seq(ChannelIDs) /\ N \in Nat \ {0}
        /\ NumChannels \in Nat
      BY <1>1, LayoutOK, LayoutAssumption DEF Types
  <2>4. chans'[r] = Append(chans[r], <<r, k[r]>>)
      BY <1>3 DEF Types
  <2>5. /\ Len(chans'[r]) = k[r]
        /\ \A i \in 1..k[r] : chans'[r][i] = <<r, i>> /\ <<r, i>> \in channels
    <3>1. \A i \in 1..k[r] : i = k[r] \/ i \in 1..Len(chans[r])
        BY <1>1
    <3>2. k[r] = Len(chans[r]) + 1
        BY <1>1, <2>3
    <3>3. \A i \in 1..Len(chans[r]) : chans[r][i] = <<r, i>> /\ <<r, i>> \in channels
        BY <2>1 DEF RequestOK, ListsOK, MadeOK
    <3>4. <<r, k[r]>> \in channels
        BY <1>1, <2>1 DEF RequestOK, MadeOK
    <3> QED
        BY <2>3, <2>4, <3>1, <3>2, <3>3, <3>4, Appended
  <2>6. \/ pc'[r] = "createChannel" /\ k'[r] = k[r] + 1 /\ k[r] < NumChannels
        \/ pc'[r] = "bootstrap" /\ k'[r] = 1 /\ k[r] = NumChannels
      BY <1>1, <1>3, <2>3 DEF Goto, Types
  <2>7. ListsOK(r)' /\ MadeOK(r)'
      BY <1>1, <2>1, <2>2, <2>5, <2>6 DEF RequestOK, ListsOK, MadeOK
  <2>8. PlaceOK(r)'
      BY <1>1, <2>1, <2>2, <2>3, <2>5, <2>6
         DEF PlaceOK, Succeeded, MakingThings, MakingChannels, Configuring
  <2>9. MetaOK(r)' /\ ConfigOK(r)'
      BY <2>6 DEF MetaOK, ConfigOK
  <2>10. ReadyOK(r)'
      BY <2>6 DEF ReadyOK, Configuring
  <2> QED
      BY <2>1, <2>7, <2>8, <2>9, <2>10 DEF RequestOK
<1> QED
    BY <1>2, <1>3 DEF GetChannel

-----------------------------------------------------------------------------
(* In the third loop, and after it, the lists are complete.                *)
LEMMA ConfiguringGoesOn ==
    ASSUME Types, NEW r \in Requests, RequestOK(r),
           pc[r] \in Configuring \cup {"gateway"},
           pc'[r] \in Configuring \cup {"gateway", "done"},
           pc'[r] \in Configuring => k'[r] \in 1..N,
           UNCHANGED <<conf, made, chans, err, things, channels>>
    PROVE  /\ ListsOK(r)' /\ PlaceOK(r)' /\ MetaOK(r)' /\ MadeOK(r)' /\ EarlyOK(r)' /\ LeftOK(r)'
           /\ err[r] = None /\ err'[r] = None
<1>1. pc[r] \notin {"recover", "done"}
    BY DEF Configuring
<1>2. /\ err[r] = None /\ err'[r] = None /\ EarlyOK(r)' /\ LeftOK(r)'
    BY <1>1, GoesOn
<1>3. N' = N
    BY DEF N, Layout
<1>4. Len(made[r]) = N /\ Len(chans[r]) = NumChannels
    BY DEF RequestOK, PlaceOK
<1>5. pc'[r] \notin {"idle", "meta", "createThing", "thing", "createChannel", "channel", "recover"}
    BY DEF Configuring
<1>6. PlaceOK(r)'
    BY <1>2, <1>3, <1>4, <1>5 DEF PlaceOK, Succeeded, MakingThings, MakingChannels, Configuring
<1>7. ListsOK(r)' /\ MetaOK(r)' /\ MadeOK(r)'
    BY <1>2, <1>5 DEF RequestOK, ListsOK, MetaOK, MadeOK
<1> QED
    BY <1>2, <1>6, <1>7

LEMMA ConfiguringFails ==
    ASSUME Types, NEW r \in Requests, RequestOK(r), NEW e \in Errors, Fail(r, e),
           e \in {"ErrFailedBootstrap", "ErrFailedBootstrapValidate", "ErrFailedCertCreation",
                  "ErrFailedWhitelist", "ErrGatewayUpdate"},
           made' = made, chans' = chans
    PROVE  RequestOK(r)'
BY FailOK DEF RequestOK

LEMMA AddBootstrapOK ==
    ASSUME Types, NEW r \in Requests, RequestOK(r), AddBootstrap(r)
    PROVE  RequestOK(r)'
<1>0. pc[r] = "bootstrap" /\ pc[r] \in Configuring \cup {"gateway"} /\ pc[r] \in Configuring
    BY DEF AddBootstrap, Configuring
<1>1. /\ Current(r) = <<r, k[r]>> /\ <<r, k[r]>> \in ThingIDs /\ k[r] \in 1..N
      /\ NeedsBootstrap(Current(r)) = Layout[k[r]]
    BY <1>0, CurrentThing
<1>2. CASE Fail(r, "ErrFailedBootstrap")
    BY <1>2, ConfiguringFails DEF AddBootstrap, Errors
<1>3. CASE /\ ~Layout[k[r]] /\ pc' = [pc EXCEPT ![r] = "cert"] /\ UNCHANGED <<configs, err>>
  <2>1. pc'[r] = "cert" /\ k' = k /\ UNCHANGED <<conf, made, chans, err, things, channels, configs>>
        /\ Layout' = Layout
      BY <1>3 DEF AddBootstrap, Types, Layout
  <2>2. /\ ListsOK(r)' /\ PlaceOK(r)' /\ MetaOK(r)' /\ MadeOK(r)' /\ EarlyOK(r)' /\ LeftOK(r)'
      BY <1>0, <1>1, <2>1, ConfiguringGoesOn DEF Configuring
  <2>3. ReadyOK(r)' /\ ConfigOK(r)'
      BY <1>0, <1>3, <2>1 DEF RequestOK, ReadyOK, ConfigOK, Ready
  <2> QED
      BY <2>2, <2>3 DEF RequestOK
<1>4. CASE /\ configs' = [configs EXCEPT ![<<r, k[r]>>] = [active |-> FALSE, cert |-> FALSE]]
           /\ pc' = [pc EXCEPT ![r] = "view"] /\ UNCHANGED err
  <2>1. pc'[r] = "view" /\ k' = k /\ UNCHANGED <<conf, made, chans, err, things, channels>>
        /\ Layout' = Layout
      BY <1>4 DEF AddBootstrap, Types, Layout
  <2>2. /\ ListsOK(r)' /\ PlaceOK(r)' /\ MetaOK(r)' /\ MadeOK(r)' /\ EarlyOK(r)' /\ LeftOK(r)'
      BY <1>0, <1>1, <2>1, ConfiguringGoesOn DEF Configuring
  <2>3. /\ IsConfig(configs'[<<r, k[r]>>], FALSE, FALSE)
        /\ \A i \in 1..k[r] - 1 : configs'[<<r, i>>] = configs[<<r, i>>]
    <3>1. \A i \in 1..k[r] - 1 : <<r, i>> # <<r, k[r]>>
        BY <1>1
    <3>2. IsConfig([active |-> FALSE, cert |-> FALSE], FALSE, FALSE)
        BY DEF IsConfig, Config
    <3>3. configs'[<<r, k[r]>>] = [active |-> FALSE, cert |-> FALSE]
        BY <1>1, <1>4 DEF Types
    <3>4. \A i \in 1..k[r] - 1 : configs'[<<r, i>>] = configs[<<r, i>>]
        BY <1>1, <1>4, <3>1 DEF Types
    <3> QED
        BY <3>2, <3>3, <3>4
  <2>4. ReadyOK(r)' /\ ConfigOK(r)'
      BY <1>0, <2>1, <2>3 DEF RequestOK, ReadyOK, ConfigOK, Ready
  <2> QED
      BY <2>2, <2>4 DEF RequestOK
<1> QED
    BY <1>1, <1>2, <1>3, <1>4 DEF AddBootstrap, Goto

LEMMA ViewBootstrapOK ==
    ASSUME Types, NEW r \in Requests, RequestOK(r), ViewBootstrap(r)
    PROVE  RequestOK(r)'
<1>0. pc[r] = "view" /\ pc[r] \in Configuring \cup {"gateway"} /\ pc[r] \in Configuring
    BY DEF ViewBootstrap, Configuring
<1>1. k[r] \in 1..N
    BY <1>0, CurrentThing
<1>2. CASE Fail(r, "ErrFailedBootstrapValidate")
    BY <1>2, ConfiguringFails DEF ViewBootstrap, Errors
<1>3. CASE pc' = [pc EXCEPT ![r] = "cert"] /\ UNCHANGED err
  <2>1. pc'[r] = "cert" /\ k' = k /\ UNCHANGED <<conf, made, chans, err, things, channels, configs>>
        /\ Layout' = Layout
      BY <1>3 DEF ViewBootstrap, Types, Layout, server
  <2>2. /\ ListsOK(r)' /\ PlaceOK(r)' /\ MetaOK(r)' /\ MadeOK(r)' /\ EarlyOK(r)' /\ LeftOK(r)'
      BY <1>0, <1>1, <2>1, ConfiguringGoesOn DEF Configuring
  <2>3. ReadyOK(r)' /\ ConfigOK(r)'
      BY <1>0, <2>1 DEF RequestOK, ReadyOK, ConfigOK, Ready
  <2> QED
      BY <2>2, <2>3 DEF RequestOK
<1> QED
    BY <1>2, <1>3 DEF ViewBootstrap, Goto

LEMMA ProvisionCertOK ==
    ASSUME Types, NEW r \in Requests, RequestOK(r), ProvisionCert(r)
    PROVE  RequestOK(r)'
<1>0. pc[r] = "cert" /\ pc[r] \in Configuring \cup {"gateway"} /\ pc[r] \in Configuring
    BY DEF ProvisionCert, Configuring
<1>1. k[r] \in 1..N
    BY <1>0, CurrentThing
<1>2. CASE Fail(r, "ErrFailedCertCreation")
    BY <1>2, ConfiguringFails DEF ProvisionCert, Errors
<1>3. CASE \/ ~conf.x509 /\ pc' = [pc EXCEPT ![r] = "whitelist"] /\ UNCHANGED err
           \/ conf.x509 /\ pc' = [pc EXCEPT ![r] = "updateCert"] /\ UNCHANGED err
  <2>1. /\ k' = k /\ UNCHANGED <<conf, made, chans, err, things, channels, configs>>
        /\ Layout' = Layout /\ conf.x509 \in BOOLEAN
      BY <1>3 DEF ProvisionCert, Types, Layout, server
  <2>2. \/ ~conf.x509 /\ pc'[r] = "whitelist"
        \/ conf.x509 /\ pc'[r] = "updateCert"
      BY <1>3 DEF Types
  <2>3. /\ ListsOK(r)' /\ PlaceOK(r)' /\ MetaOK(r)' /\ MadeOK(r)' /\ EarlyOK(r)' /\ LeftOK(r)'
      BY <1>0, <1>1, <2>1, <2>2, ConfiguringGoesOn DEF Configuring
  <2>4. ReadyOK(r)' /\ ConfigOK(r)'
      BY <1>0, <2>1, <2>2 DEF RequestOK, ReadyOK, ConfigOK, Ready
  <2> QED
      BY <2>3, <2>4 DEF RequestOK
<1> QED
    BY <1>2, <1>3 DEF ProvisionCert, Goto

(* The two updates of a config.                                            *)
LEMMA ConfigUpdates ==
    ASSUME NEW c, NEW a, NEW b, IsConfig(c, a, b)
    PROVE  /\ IsConfig([c EXCEPT !.cert = TRUE], a, TRUE)
           /\ IsConfig([c EXCEPT !.active = TRUE], TRUE, b)
BY DEF IsConfig, Config

LEMMA UpdateCertOK ==
    ASSUME Types, NEW r \in Requests, RequestOK(r), UpdateCert(r)
    PROVE  RequestOK(r)'
<1>0. pc[r] = "updateCert" /\ pc[r] \in Configuring \cup {"gateway"} /\ pc[r] \in Configuring
    BY DEF UpdateCert, Configuring
<1>1. /\ Current(r) = <<r, k[r]>> /\ <<r, k[r]>> \in ThingIDs /\ k[r] \in 1..N
      /\ NeedsBootstrap(Current(r)) = Layout[k[r]]
    BY <1>0, CurrentThing
<1>2. CASE Fail(r, "ErrFailedCertCreation")
    BY <1>2, ConfiguringFails DEF UpdateCert, Errors
<1>3. CASE /\ configs' = IF Layout[k[r]] THEN [configs EXCEPT ![<<r, k[r]>>].cert = TRUE] ELSE configs
           /\ pc' = [pc EXCEPT ![r] = "whitelist"] /\ UNCHANGED err
  <2>1. pc'[r] = "whitelist" /\ k' = k /\ UNCHANGED <<conf, made, chans, err, things, channels>>
        /\ Layout' = Layout /\ conf.x509 \in BOOLEAN
      BY <1>3 DEF UpdateCert, Types, Layout
  <2>2. /\ ListsOK(r)' /\ PlaceOK(r)' /\ MetaOK(r)' /\ MadeOK(r)' /\ EarlyOK(r)' /\ LeftOK(r)'
      BY <1>0, <1>1, <2>1, ConfiguringGoesOn DEF Configuring
  <2>3. Layout[k[r]] => IsConfig(configs'[<<r, k[r]>>], FALSE, conf.x509)
    <3>1. Layout[k[r]] => IsConfig(configs[<<r, k[r]>>], FALSE, FALSE)
        BY <1>0 DEF RequestOK, ConfigOK
    <3>2. conf.x509 = TRUE
        BY <1>0, <2>1 DEF RequestOK, ConfigOK
    <3>3. Layout[k[r]] => configs'[<<r, k[r]>>] = [configs[<<r, k[r]>>] EXCEPT !.cert = TRUE]
        BY <1>1, <1>3 DEF Types
    <3> QED
        BY <3>1, <3>2, <3>3, ConfigUpdates
  <2>4. \A i \in 1..k[r] - 1 : configs'[<<r, i>>] = configs[<<r, i>>]
    <3>1. \A i \in 1..k[r] - 1 : <<r, i>> # <<r, k[r]>> /\ <<r, i>> \in ThingIDs
        BY <1>1, LayoutOK
    <3> QED
        BY <1>3, <3>1 DEF Types
  <2>5. ReadyOK(r)' /\ ConfigOK(r)'
      BY <1>0, <2>1, <2>3, <2>4 DEF RequestOK, ReadyOK, ConfigOK, Ready
  <2> QED
      BY <2>2, <2>5 DEF RequestOK
<1> QED
    BY <1>1, <1>2, <1>3 DEF UpdateCert, Goto

LEMMA WhitelistOK ==
    ASSUME Types, NEW r \in Requests, RequestOK(r), Whitelist(r)
    PROVE  RequestOK(r)'
<1>0. pc[r] = "whitelist" /\ pc[r] \in Configuring \cup {"gateway"} /\ pc[r] \in Configuring
    BY DEF Whitelist, Configuring
<1>1. /\ Current(r) = <<r, k[r]>> /\ <<r, k[r]>> \in ThingIDs /\ k[r] \in 1..N
    BY <1>0, CurrentThing
<1>2. CASE Fail(r, "ErrFailedWhitelist")
    BY <1>2, ConfiguringFails DEF Whitelist, Errors
<1>3. CASE /\ configs' = IF conf.whitelist THEN [configs EXCEPT ![<<r, k[r]>>].active = TRUE] ELSE configs
           /\ IF k[r] < N THEN Goto(r, "bootstrap") /\ k' = [k EXCEPT ![r] = @ + 1]
                          ELSE Goto(r, "gateway") /\ UNCHANGED k
           /\ UNCHANGED err
  <2>1. UNCHANGED <<conf, made, chans, err, things, channels>> /\ Layout' = Layout /\ N' = N
        /\ conf.whitelist \in BOOLEAN /\ N \in Nat
      BY <1>3, LayoutOK DEF Whitelist, Types, Layout, N
  <2>2. \/ pc'[r] = "bootstrap" /\ k'[r] = k[r] + 1 /\ k[r] < N
        \/ pc'[r] = "gateway" /\ k'[r] = k[r] /\ k[r] = N
      BY <1>1, <1>3, <2>1 DEF Goto, Types
  <2>3. pc'[r] \in Configuring => k'[r] \in 1..N
      BY <1>1, <2>1, <2>2 DEF Configuring
  <2>4. /\ ListsOK(r)' /\ PlaceOK(r)' /\ MetaOK(r)' /\ MadeOK(r)' /\ EarlyOK(r)' /\ LeftOK(r)'
        /\ err[r] = None
      BY <1>0, <1>1, <2>1, <2>2, <2>3, ConfiguringGoesOn DEF Configuring
  <2>5. Layout[k[r]] => IsConfig(configs'[<<r, k[r]>>], conf.whitelist, conf.x509)
    <3>1. Layout[k[r]] => IsConfig(configs[<<r, k[r]>>], FALSE, conf.x509)
        BY <1>0 DEF RequestOK, ConfigOK
    <3>2. CASE ~conf.whitelist
      <4>1. conf.whitelist = FALSE
          BY <2>1, <3>2
      <4> QED
          BY <1>3, <3>1, <3>2, <4>1
    <3>3. CASE conf.whitelist
      <4>1. configs'[<<r, k[r]>>] = [configs[<<r, k[r]>>] EXCEPT !.active = TRUE]
          BY <1>1, <1>3, <3>3 DEF Types
      <4>2. conf.whitelist = TRUE
          BY <2>1, <3>3
      <4>3. Layout[k[r]] => IsConfig(configs'[<<r, k[r]>>], TRUE, conf.x509)
        <5> SUFFICES ASSUME Layout[k[r]]
                     PROVE  IsConfig(configs'[<<r, k[r]>>], TRUE, conf.x509)
            OBVIOUS
        <5>1. IsConfig(configs[<<r, k[r]>>], FALSE, conf.x509)
            BY <3>1
        <5>2. IsConfig([configs[<<r, k[r]>>] EXCEPT !.active = TRUE], TRUE, conf.x509)
            BY <5>1 DEF IsConfig, Config
        <5> QED
            BY <4>1, <5>2
      <4> QED
          BY <4>2, <4>3
    <3> QED
        BY <3>2, <3>3
  <2>6. \A i \in 1..k[r] - 1 : configs'[<<r, i>>] = configs[<<r, i>>]
    <3>1. \A i \in 1..k[r] - 1 : <<r, i>> # <<r, k[r]>> /\ <<r, i>> \in ThingIDs
        BY <1>1, LayoutOK
    <3> QED
        BY <1>3, <3>1 DEF Types
  <2>7. \A i \in 1..k[r] : Ready(r, i)'
    <3>1. \A i \in 1..k[r] : i = k[r] \/ i \in 1..k[r] - 1
        BY <1>1
    <3>2. \A i \in 1..k[r] - 1 : Ready(r, i)
        BY <1>0, <2>4 DEF RequestOK, ReadyOK
    <3>3. \A i \in 1..k[r] - 1 : Ready(r, i)'
        BY <2>1, <2>6, <3>2 DEF Ready
    <3> SUFFICES ASSUME NEW i \in 1..k[r] PROVE Ready(r, i)'
        OBVIOUS
    <3>5. CASE i = k[r]
        BY <2>1, <2>5, <3>5 DEF Ready
    <3> QED
        BY <3>1, <3>3, <3>5
  <2>8. ReadyOK(r)'
      BY <1>1, <2>1, <2>2, <2>7 DEF ReadyOK
  <2>9. ConfigOK(r)'
      BY <2>2 DEF ConfigOK
  <2> QED
      BY <2>4, <2>8, <2>9 DEF RequestOK
<1> QED
    BY <1>1, <1>2, <1>3 DEF Whitelist

(* A layout has a last thing with an external_id.                          *)
LEMMA LastNeedsBootstrap ==
    ASSUME Types
    PROVE  \E i \in 1..N : Layout[i] /\ \A j \in i + 1..N : ~Layout[j]
<1> DEFINE S == {n \in Nat : n < N /\ Layout[N - n]}
<1>1. PICK i \in 1..N : Layout[i]
    BY LayoutAssumption DEF Types, Layout, N
<1>2. N \in Nat
    BY LayoutOK
<1>3. N - i \in S
    BY <1>1, <1>2
<1>4. PICK n \in S : \A m \in S : ~(<<m, n>> \in OpToRel(<, Nat))
    BY <1>3, NatLessThanWellFounded, WFMin
<1>5. \A m \in S : ~(m < n)
    BY <1>4 DEF OpToRel
<1>6. \A j \in N - n + 1..N : ~Layout[j]
  <2> SUFFICES ASSUME NEW j \in N - n + 1..N, Layout[j] PROVE FALSE
      OBVIOUS
  <2>1. N - j \in S /\ N - j < n
      BY <1>2
  <2> QED
      BY <1>5, <2>1
<1>7. N - n \in 1..N /\ Layout[N - n]
    BY <1>2
<1> QED
    BY <1>6, <1>7

LEMMA UpdateGatewayOK ==
    ASSUME Types, NEW r \in Requests, RequestOK(r), UpdateGateway(r)
    PROVE  RequestOK(r)'
<1>0. pc[r] = "gateway" /\ pc[r] \in Configuring \cup {"gateway"}
    BY DEF UpdateGateway, Configuring
<1>1. CASE Fail(r, "ErrGatewayUpdate")
    BY <1>1, ConfiguringFails DEF UpdateGateway, Errors
<1> DEFINE last == CHOOSE i \in 1..N : Layout[i] /\ \A j \in i + 1..N : ~Layout[j]
<1>2. last \in 1..N
    BY LastNeedsBootstrap
<1>3. CASE gateways' = gateways \cup {<<r, last>>} /\ pc' = [pc EXCEPT ![r] = "done"] /\ UNCHANGED err
  <2>1. pc'[r] = "done" /\ UNCHANGED <<conf, made, chans, err, things, channels, configs>>
        /\ Layout' = Layout /\ N' = N
      BY <1>3 DEF UpdateGateway, Types, Layout, N
  <2>2. /\ ListsOK(r)' /\ PlaceOK(r)' /\ MetaOK(r)' /\ MadeOK(r)' /\ EarlyOK(r)' /\ LeftOK(r)'
        /\ err[r] = None
      BY <1>0, <2>1, ConfiguringGoesOn DEF Configuring
  <2>3. \E i \in 1..N : <<r, i>> \in gateways'
      BY <1>2, <1>3
  <2>4. \A i \in 1..N : Ready(r, i)'
      BY <1>0, <2>1, <2>2 DEF RequestOK, ReadyOK, Ready
  <2>5. ReadyOK(r)' /\ ConfigOK(r)'
      BY <2>1, <2>3, <2>4 DEF ReadyOK, ConfigOK, Configuring
  <2> QED
      BY <2>2, <2>5 DEF RequestOK
<1> QED
    BY <1>1, <1>3 DEF UpdateGateway, Goto

(* After recover without a failure, what the request made and recover      *)
(* deletes after its error is gone.                                        *)
LEMMA RecoverOK ==
    ASSUME Types, NEW r \in Requests, RequestOK(r), Recover(r)
    PROVE  RequestOK(r)'
<1> DEFINE cl == Clean(err[r])
           ths == IF cl.things THEN Range(made[r]) ELSE {}
           chs == IF cl.channels THEN Range(chans[r]) ELSE {}
           cfs == IF cl.configs THEN {t \in Range(made[r]) : NeedsBootstrap(t)} ELSE {}
<1>1. PICK keptThings \in SUBSET ths, keptChannels \in SUBSET chs, keptConfigs \in SUBSET cfs :
           /\ IF keptThings \cup keptChannels \cup keptConfigs = {}
                THEN UNCHANGED <<faults, undone>>
                ELSE Fault /\ undone' = [undone EXCEPT ![r] = FALSE]
           /\ things' = [t \in ThingIDs |-> IF t \in ths \ keptThings THEN None ELSE things[t]]
           /\ channels' = channels \ (chs \ keptChannels)
           /\ configs' = [t \in ThingIDs |-> IF t \in cfs \ keptConfigs THEN None ELSE configs[t]]
    BY DEF Recover
<1>2. /\ pc[r] = "recover" /\ pc'[r] = "done" /\ UNCHANGED <<conf, k, made, chans, err>>
    BY DEF Recover, Goto, Types
<1>3. err[r] # None /\ err[r] \in Errors
    BY <1>2 DEF RequestOK, PlaceOK, Types
<1>4. ListsOK(r)' /\ EarlyOK(r)'
    BY <1>2 DEF RequestOK, ListsOK, EarlyOK
<1>5. PlaceOK(r)' /\ MetaOK(r)' /\ MadeOK(r)' /\ ReadyOK(r)' /\ ConfigOK(r)'
    BY <1>2, <1>3
       DEF PlaceOK, MetaOK, MadeOK, ReadyOK, ConfigOK, Succeeded,
           MakingThings, MakingChannels, Configuring
<1>6. \/ err[r] \in {"ErrFailedThingCreation", "ErrFailedCreation"}
      \/ Range(made[r]) = ths
  <2>1. err[r] = "ErrFailedToCreateToken" => Range(made[r]) = {}
      BY DEF RequestOK, EarlyOK, Range
  <2> QED
      BY <1>3, <2>1 DEF Clean, Errors
<1>7. err[r] = "ErrFailedCreation" \/ Range(chans[r]) = chs
  <2>1. err[r] \in {"ErrFailedToCreateToken", "ErrFailedThingCreation",
                    "ErrFailedThingRetrieval"} => Range(chans[r]) = {}
      BY DEF RequestOK, EarlyOK, Range
  <2> QED
      BY <1>3, <2>1 DEF Clean, Errors
<1> HIDE DEF cl, ths, chs, cfs
<1>8. LeftOK(r)'
  <2> SUFFICES ASSUME undone'[r] PROVE LeftOK(r)'
      BY DEF LeftOK
  <2>1. keptThings = {} /\ keptChannels = {}
      BY <1>1 DEF Types
  <2>2. \A t \in ths : t \in ThingIDs => things'[t] = None
      BY <1>1, <2>1
  <2>3. \A c \in chs : c \notin channels'
      BY <1>1, <2>1
  <2>4. Range(made[r]) = Range(made'[r]) /\ Range(chans[r]) = Range(chans'[r])
      BY <1>2
  <2> QED
      BY <1>2, <1>6, <1>7, <2>2, <2>3, <2>4 DEF LeftOK
<1> QED
    BY <1>4, <1>5, <1>8 DEF RequestOK

LEMMA StepOK ==
    ASSUME ProvisionInv, NEW r \in Requests, Step(r)
    PROVE  ProvisionInv'
<1>1. Types /\ Types' /\ RequestOK(r)
    BY StepTypes DEF ProvisionInv
<1>2. RequestOK(r)'
    BY <1>1, BeginOK, SetMetadataOK, CreateThingOK, GetThingOK, CreateChannelOK, GetChannelOK,
       AddBootstrapOK, ViewBootstrapOK, ProvisionCertOK, UpdateCertOK, WhitelistOK,
       UpdateGatewayOK, RecoverOK
       DEF Step
<1>3. ASSUME NEW q \in Requests, q # r
      PROVE  RequestOK(q)'
  <2>1. Elsewhere(q)
      BY <1>3, Others
  <2> QED
      BY <1>1, <2>1, ElsewhereOK DEF ProvisionInv
<1> QED
    BY <1>1, <1>2, <1>3 DEF ProvisionInv

(* The steps of no request: the event of a removed thing, and certificates *)
(* issued and revoked directly.                                            *)
LEMMA OtherStepsOK ==
    ASSUME ProvisionInv, NEW t \in ThingIDs,
           RemoveConfigHandler(t) \/ IssueCert(t) \/ RevokeCert(t)
    PROVE  ProvisionInv'
<1>0. Types
    BY DEF ProvisionInv
<1>1. /\ UNCHANGED <<conf, meta, pc, k, made, chans, err, undone, things, channels, gateways>>
      /\ N' = N
    BY DEF RemoveConfigHandler, IssueCert, RevokeCert, reqvars, server, N, Layout
<1>2. /\ configs' \in [ThingIDs -> Config \cup {None}]
      /\ \A u \in ThingIDs : things[u] # None => configs'[u] = configs[u]
    BY <1>0 DEF RemoveConfigHandler, IssueCert, RevokeCert, reqvars, server, Types
<1>3. certs' \in [ThingIDs -> Nat \cup {None}] /\ issued' \in [ThingIDs -> Nat]
  <2>1. CASE IssueCert(t)
      BY <1>0, <2>1, IssueTypes DEF IssueCert
  <2> QED
      BY <1>0, <2>1 DEF RemoveConfigHandler, RevokeCert, certvars, Types
<1>4. Types'
    BY <1>0, <1>1, <1>2, <1>3 DEF Types
<1>5. \A q \in Requests : Elsewhere(q)
    BY <1>1, <1>2 DEF Elsewhere
<1> QED
    BY <1>0, <1>4, <1>5, ElsewhereOK DEF ProvisionInv

LEMMA NextInv == ProvisionInv /\ [Next]_vars => ProvisionInv'
<1>1. ProvisionInv /\ UNCHANGED vars => ProvisionInv'
  <2> SUFFICES ASSUME ProvisionInv, UNCHANGED vars PROVE ProvisionInv'
      OBVIOUS
  <2>1. /\ UNCHANGED <<conf, meta, pc, k, made, chans, err, undone, things, channels, configs,
                       gateways, certs, issued>>
        /\ N' = N
      BY DEF vars, reqvars, server, certvars, N, Layout
  <2>2. Types /\ Types'
      BY <2>1 DEF ProvisionInv, Types
  <2>3. \A q \in Requests : Elsewhere(q)
      BY <2>1 DEF Elsewhere
  <2> QED
      BY <2>2, <2>3, ElsewhereOK DEF ProvisionInv
<1> QED
    BY <1>1, StepOK, OtherStepsOK DEF Next

LEMMA Invariance == Spec => []ProvisionInv
BY InitInv, NextInv, PTL DEF Spec

-----------------------------------------------------------------------------
(* A request that succeeded has everything of its layout, and nobody takes *)
(* any of it away (Provision of provision/service.go): no other request,   *)
(* no clean-up and no event of a removed thing.                            *)
THEOREM SuccessIsComplete == Spec => []SuccessComplete
<1>1. ProvisionInv => SuccessComplete
  <2> SUFFICES ASSUME ProvisionInv, NEW r \in Requests, Succeeded(r)
               PROVE  /\ \A i \in 1..N :
                            /\ things[<<r, i>>] # None
                            /\ Layout[i] => /\ configs[<<r, i>>] # None
                                            /\ configs[<<r, i>>].cert = conf.x509
                                            /\ configs[<<r, i>>].active = conf.whitelist
                      /\ \A j \in 1..NumChannels : <<r, j>> \in channels
                      /\ \E i \in 1..N : <<r, i>> \in gateways
      BY DEF SuccessComplete
  <2>1. RequestOK(r) /\ pc[r] = "done" /\ err[r] = None
      BY DEF ProvisionInv, Succeeded
  <2>2. Len(made[r]) = N /\ Len(chans[r]) = NumChannels
      BY <2>1 DEF RequestOK, PlaceOK
  <2>3. /\ \A i \in 1..N : things[<<r, i>>] # None
        /\ \A j \in 1..NumChannels : <<r, j>> \in channels
      BY <2>1, <2>2 DEF RequestOK, MadeOK
  <2>4. /\ \A i \in 1..N : Ready(r, i)
        /\ \E i \in 1..N : <<r, i>> \in gateways
      BY <2>1 DEF RequestOK, ReadyOK
  <2>5. None \notin Config
      BY NoneAssumption DEF Config
  <2> QED
      BY <2>3, <2>4, <2>5 DEF Ready, IsConfig
<1> QED
    BY <1>1, Invariance, PTL

(* What a failed request leaves behind, when every call of recover         *)
(* succeeded, is what the branches of recover (provision/service.go) leave *)
(* out: nothing on a list of the request stays unless the creation of a    *)
(* thing or of a channel failed.                                           *)
THEOREM LeftoversAreExplained == Spec => []LeftoversExplained
<1>1. ProvisionInv => LeftoversExplained
    BY DEF ProvisionInv, RequestOK, LeftOK, LeftoversExplained
<1> QED
    BY <1>1, Invariance, PTL

-----------------------------------------------------------------------------
LEMMA IssueKeepsValid ==
    ASSUME Types, StoredCertValid, NEW t \in ThingIDs, Issue(t) \/ IssueUnsaved(t), half' = half
    PROVE  StoredCertValid'
<1>1. /\ valid' = valid \cup {<<t, Serial(t)>>}
      /\ \/ certs' = certs
         \/ certs' = [certs EXCEPT ![t] = Serial(t)]
    BY DEF Issue, IssueUnsaved, Sign
<1> QED
    BY <1>1 DEF StoredCertValid, Types

LEMMA CertsNext == ProvisionInv /\ StoredCertValid /\ [Next]_vars => StoredCertValid'
<1> SUFFICES ASSUME ProvisionInv, StoredCertValid, [Next]_vars
             PROVE  StoredCertValid'
    OBVIOUS
<1>0. Types
    BY DEF ProvisionInv
<1>1. ASSUME UNCHANGED <<valid, certs, half>>
      PROVE  StoredCertValid'
    BY <1>1 DEF StoredCertValid
<1>2. ASSUME NEW r \in Requests, ProvisionCert(r)
      PROVE  StoredCertValid'
  <2>1. Current(r) \in ThingIDs
      BY <1>0, <1>2, CurrentThing DEF ProvisionInv, ProvisionCert, Configuring
  <2>2. half' = half /\ (Issue(Current(r)) \/ IssueUnsaved(Current(r)) \/ UNCHANGED <<valid, certs>>)
      BY <1>2 DEF ProvisionCert
  <2> QED
      BY <1>0, <1>1, <2>1, <2>2, IssueKeepsValid
<1>3. ASSUME NEW r \in Requests, Step(r), ~ProvisionCert(r)
      PROVE  UNCHANGED <<valid, certs, half>>
    BY <1>3
       DEF Step, Begin, SetMetadata, CreateThing, GetThing, CreateChannel, GetChannel,
           AddBootstrap, ViewBootstrap, UpdateCert, Whitelist, UpdateGateway, Recover, certvars
<1>4. ASSUME NEW t \in ThingIDs, IssueCert(t)
      PROVE  StoredCertValid'
    BY <1>0, <1>4, IssueKeepsValid DEF IssueCert
<1>5. ASSUME NEW t \in ThingIDs, RevokeCert(t)
      PROVE  StoredCertValid'
  <2>1. /\ valid' = valid \ {<<t, certs[t]>>}
        /\ \/ certs' = [certs EXCEPT ![t] = None] /\ half' = half \ {t}
           \/ half' = half \cup {t} /\ certs' = certs
      BY <1>5 DEF RevokeCert
  <2> QED
      BY <1>0, <2>1 DEF StoredCertValid, Types
<1>6. ASSUME NEW t \in ThingIDs, RemoveConfigHandler(t)
      PROVE  UNCHANGED <<valid, certs, half>>
    BY <1>6 DEF RemoveConfigHandler, certvars
<1>7. CASE UNCHANGED vars
    BY <1>1, <1>7 DEF vars, certvars
<1> QED
    BY <1>1, <1>2, <1>3, <1>4, <1>5, <1>6, <1>7 DEF Next

(* The serial in the certs table is a valid certificate of the thing,      *)
(* unless a revocation stopped between Vault and the table (IssueCert and  *)
(* RevokeCert of certs/service.go).                                        *)
THEOREM StoredCertsValid == Spec => []StoredCertValid
<1>1. Init => StoredCertValid
    BY DEF Init, StoredCertValid
<1> QED
    BY <1>1, CertsNext, Invariance, PTL DEF Spec
=============================================================================
