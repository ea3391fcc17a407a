----------------------------- MODULE Provision -----------------------------
(***************************************************************************)
(* The provision service (provision/service.go), which sets up things,     *)
(* channels, bootstrap configurations and certificates for a gateway with  *)
(* one SDK call after the other and undoes some of it when a call fails,   *)
(* and the certs service (certs/service.go, certs/postgres, certs/pki)     *)
(* that issues and revokes the certificates.                               *)
(*                                                                         *)
(* Every SDK call is a step, in which the other service does what it is    *)
(* asked and answers; it may refuse (no effect), or its answer may be lost *)
(* (an effect the caller knows nothing of).  The calls of recover are one  *)
(* step, of which any may fail: no other request touches what they delete, *)
(* and an event that takes a config away between two of them does what the *)
(* next of them does.                                                      *)
(*                                                                         *)
(* A thing is <<r, i>>, the i-th of the layout made by request r, a        *)
(* channel <<r, j>>; the request stands for its external id too.  The      *)
(* configuration has at least one thing with an external_id and has        *)
(* Bootstrap.Provision set, as the one in provision/configs has.           *)
(***************************************************************************)
EXTENDS Naturals, Sequences, FiniteSets

CONSTANTS
    Requests,
    Layouts,       \* configured things: sequences, TRUE for an external_id
    NumChannels,   \* configured channels
    MaxFaults,     \* bound: calls that fail
    MaxCerts,      \* bound: certificates issued for one thing
    None

(* The errors of Provision, after which recover is called.                 *)
Errors ==
    {"ErrFailedToCreateToken", "ErrFailedThingCreation", "ErrFailedThingRetrieval",
     "ErrFailedCreation", "ErrFailedChannelRetrieval", "ErrFailedBootstrap",
     "ErrFailedBootstrapValidate", "ErrFailedCertCreation", "ErrFailedWhitelist",
     "ErrGatewayUpdate"}

ASSUME LayoutAssumption ==
    /\ \A l \in Layouts : l \in Seq(BOOLEAN) /\ \E i \in 1..Len(l) : l[i]
    /\ IsFiniteSet(Layouts)
    /\ NumChannels \in Nat \ {0}

(* None is no value of any row.                                            *)
ASSUME NoneAssumption ==
    /\ None \notin Requests \cup Errors \cup {"none"}
    /\ None \notin [active : BOOLEAN, cert : BOOLEAN]

VARIABLES
    conf,          \* the deployment: [layout, x509, whitelist, pki]
    meta,          \* external_id in the metadata of the configured things
    pc, k,         \* of each request: next call, position in its loop
    made, chans,   \* of each request: the lists things and channels
    err,           \* of each request: the error it returned, or None
    undone,        \* of each request: whether all calls of recover succeeded
    things,        \* things service: [thing -> its external_id], or None
    channels,      \* things service: set of channels
    configs,       \* bootstrap service: [thing -> state and certificate], or None
    gateways,      \* things whose metadata is a gateway's
    valid,         \* certificates that are valid: <<thing, serial>>
    certs,         \* certs table: [thing -> serial, or None]
    issued,        \* [thing -> certificates issued for it]
    half,          \* history: things whose revocation stopped half way
    faults

reqvars == <<meta, pc, k, made, chans, err, undone>>
server == <<things, channels, configs, gateways>>
certvars == <<valid, certs, issued, half>>
vars == <<conf, reqvars, server, certvars, faults>>

Layout == conf.layout
N == Len(Layout)
ThingIDs == Requests \X UNION {1..Len(l) : l \in Layouts}
ChannelIDs == Requests \X (1..NumChannels)
Range(s) == {s[i] : i \in DOMAIN s}

Goto(r, p) == pc' = [pc EXCEPT ![r] = p]

(* The request returns with an error; recover is deferred.                 *)
Fail(r, e) ==
    /\ err' = [err EXCEPT ![r] = e]
    /\ Goto(r, "recover")

Fault == faults < MaxFaults /\ faults' = faults + 1

(***************************************************************************)
(* Provision                                                               *)
(***************************************************************************)
(* createTokenIfEmpty.                                                     *)
Begin(r) ==
    /\ pc[r] = "idle"
    /\ \/ Goto(r, "meta") /\ UNCHANGED <<err, faults>>
       \/ Fault /\ Fail(r, "ErrFailedToCreateToken")
    /\ UNCHANGED <<conf, meta, k, made, chans, undone, server, certvars>>

(* The metadata is the map of the configuration, one for all requests.     *)
SetMetadata(r) ==
    /\ pc[r] = "meta"
    /\ meta' = IF Layout[k[r]] THEN [meta EXCEPT ![k[r]] = r] ELSE meta
    /\ Goto(r, "createThing")
    /\ UNCHANGED <<conf, k, made, chans, err, undone, server, certvars, faults>>

CreateThing(r) ==
    LET t == <<r, k[r]>>
        created == [things EXCEPT ![t] = IF Layout[k[r]] THEN meta[k[r]] ELSE "none"]
    IN
    /\ pc[r] = "createThing"
    /\ \/ things' = created /\ Goto(r, "thing") /\ UNCHANGED <<err, faults>>
       \/ Fault /\ Fail(r, "ErrFailedThingCreation") /\ things' \in {things, created}
    /\ UNCHANGED <<conf, meta, k, made, chans, undone, channels, configs, gateways, certvars>>

(* sdk.Thing, for the key of the new thing.                                *)
GetThing(r) ==
    /\ pc[r] = "thing"
    /\ \/ /\ made' = [made EXCEPT ![r] = Append(@, <<r, k[r]>>)]
          /\ IF k[r] < N THEN Goto(r, "meta") /\ k' = [k EXCEPT ![r] = @ + 1]
                         ELSE Goto(r, "createChannel") /\ k' = [k EXCEPT ![r] = 1]
          /\ UNCHANGED <<err, faults>>
       \/ Fault /\ Fail(r, "ErrFailedThingRetrieval") /\ UNCHANGED <<made, k>>
    /\ UNCHANGED <<conf, meta, chans, undone, server, certvars>>

(* The error of CreateChannel is returned as the SDK gives it.             *)
CreateChannel(r) ==
    LET created == channels \cup {<<r, k[r]>>} IN
    /\ pc[r] = "createChannel"
    /\ \/ channels' = created /\ Goto(r, "channel") /\ UNCHANGED <<err, faults>>
       \/ Fault /\ Fail(r, "ErrFailedCreation") /\ channels' \in {channels, created}
    /\ UNCHANGED <<conf, meta, k, made, chans, undone, things, configs, gateways, certvars>>

GetChannel(r) ==
    /\ pc[r] = "channel"
    /\ \/ /\ chans' = [chans EXCEPT ![r] = Append(@, <<r, k[r]>>)]
          /\ IF k[r] < NumChannels THEN Goto(r, "createChannel") /\ k' = [k EXCEPT ![r] = @ + 1]
                                   ELSE Goto(r, "bootstrap") /\ k' = [k EXCEPT ![r] = 1]
          /\ UNCHANGED <<err, faults>>
       \/ Fault /\ Fail(r, "ErrFailedChannelRetrieval") /\ UNCHANGED <<chans, k>>
    /\ UNCHANGED <<conf, meta, made, undone, server, certvars>>

NeedsBootstrap(t) == Layout[t[2]]
Current(r) == made[r][k[r]]

(* AddBootstrap; the bootstrap service has one config for an external id.  *)
AddBootstrap(r) ==
    LET t == Current(r)
        added == [configs EXCEPT ![t] = [active |-> FALSE, cert |-> FALSE]]
        taken == \E u \in ThingIDs : u[1] = r /\ configs[u] # None
    IN
    /\ pc[r] = "bootstrap"
    /\ IF ~NeedsBootstrap(t)
         THEN Goto(r, "cert") /\ UNCHANGED <<configs, err, faults>>
         ELSE \/ ~taken /\ configs' = added /\ Goto(r, "view") /\ UNCHANGED <<err, faults>>
              \/ taken /\ Fail(r, "ErrFailedBootstrap") /\ UNCHANGED <<configs, faults>>
              \/ ~taken /\ Fault /\ Fail(r, "ErrFailedBootstrap") /\ configs' \in {configs, added}
    /\ UNCHANGED <<conf, meta, k, made, chans, undone, things, channels, gateways, certvars>>

ViewBootstrap(r) ==
    /\ pc[r] = "view"
    /\ \/ Goto(r, "cert") /\ UNCHANGED <<err, faults>>
       \/ Fault /\ Fail(r, "ErrFailedBootstrapValidate")
    /\ UNCHANGED <<conf, meta, k, made, chans, undone, server, certvars>>

(* certs.IssueCert for a thing of the caller.  Without a PKI service the   *)
(* certificate is signed and forgotten; with one its serial is stored,     *)
(* unless the thing has a row already.  A row that cannot be stored leaves *)
(* a valid certificate nobody knows of.                                    *)
Serial(t) == issued[t] + 1
Sign(t) ==
    /\ issued' = [issued EXCEPT ![t] = @ + 1]
    /\ valid' = valid \cup {<<t, Serial(t)>>}
Issue(t) ==
    /\ Sign(t)
    /\ certs' = IF conf.pki /\ certs[t] = None THEN [certs EXCEPT ![t] = Serial(t)] ELSE certs
IssueUnsaved(t) == conf.pki /\ Sign(t) /\ UNCHANGED certs
Issued(t) == ~conf.pki \/ certs[t] = None

ProvisionCert(r) ==
    LET t == Current(r) IN
    /\ pc[r] = "cert"
    /\ IF ~conf.x509
         THEN Goto(r, "whitelist") /\ UNCHANGED <<err, faults, valid, certs, issued>>
         ELSE \/ /\ Issue(t)
                 /\ IF Issued(t) THEN Goto(r, "updateCert") /\ UNCHANGED err
                                 ELSE Fail(r, "ErrFailedCertCreation")
                 /\ UNCHANGED faults
              \/ /\ Fault /\ Fail(r, "ErrFailedCertCreation")
                 /\ Issue(t) \/ IssueUnsaved(t) \/ UNCHANGED <<valid, certs, issued>>
    /\ UNCHANGED <<conf, meta, k, made, chans, undone, server, half>>

(* UpdateBootstrapCerts, for a thing with a config.  (The first form drops *)
(* its error.)                                                             *)
UpdateCertUnchecked(r) ==
    LET t == Current(r) IN
    /\ pc[r] = "updateCert"
    /\ \/ /\ configs' = IF NeedsBootstrap(t) THEN [configs EXCEPT ![t].cert = TRUE] ELSE configs
          /\ UNCHANGED faults
       \/ NeedsBootstrap(t) /\ Fault /\ UNCHANGED configs
    /\ Goto(r, "whitelist")
    /\ UNCHANGED <<conf, meta, k, made, chans, err, undone, things, channels, gateways, certvars>>

UpdateCert(r) ==
    LET t == Current(r)
        updated == IF NeedsBootstrap(t) THEN [configs EXCEPT ![t].cert = TRUE] ELSE configs
    IN
    /\ pc[r] = "updateCert"
    /\ \/ configs' = updated /\ Goto(r, "whitelist") /\ UNCHANGED <<err, faults>>
       \/ /\ NeedsBootstrap(t) /\ Fault /\ Fail(r, "ErrFailedCertCreation")
          /\ configs' \in {configs, updated}
    /\ UNCHANGED <<conf, meta, k, made, chans, undone, things, channels, gateways, certvars>>

(* Whitelist: the state of the thing's config becomes Active; a thing      *)
(* without a config is an error.                                           *)
Whitelist(r) ==
    LET t == Current(r)
        updated == IF conf.whitelist THEN [configs EXCEPT ![t].active = TRUE] ELSE configs
    IN
    /\ pc[r] = "whitelist"
    /\ IF conf.whitelist /\ configs[t] = None
         THEN Fail(r, "ErrFailedWhitelist") /\ UNCHANGED <<k, configs, faults>>
         ELSE \/ /\ configs' = updated
                 /\ IF k[r] < N THEN Goto(r, "bootstrap") /\ k' = [k EXCEPT ![r] = @ + 1]
                                ELSE Goto(r, "gateway") /\ UNCHANGED k
                 /\ UNCHANGED <<err, faults>>
              \/ /\ conf.whitelist /\ Fault /\ Fail(r, "ErrFailedWhitelist") /\ UNCHANGED k
                 /\ configs' \in {configs, updated}
    /\ UNCHANGED <<conf, meta, made, chans, undone, things, channels, gateways, certvars>>

(* updateGateway, for the last thing that got a config.                    *)
UpdateGateway(r) ==
    LET t == <<r, CHOOSE i \in 1..N : Layout[i] /\ \A j \in i + 1..N : ~Layout[j]>> IN
    /\ pc[r] = "gateway"
    /\ \/ gateways' = gateways \cup {t} /\ Goto(r, "done") /\ UNCHANGED <<err, faults>>
       \/ Fault /\ Fail(r, "ErrGatewayUpdate") /\ gateways' \in {gateways, gateways \cup {t}}
    /\ UNCHANGED <<conf, meta, k, made, chans, undone, things, channels, configs, certvars>>

(* What recover deletes after each error.  RemoveCert, which it also calls *)
(* after ErrFailedWhitelist and ErrGatewayUpdate, asks for a route the     *)
(* certs service does not have, so that no certificate goes.               *)
CleanThingsOnly(e) ==
    [things |-> e \notin {"ErrFailedToCreateToken", "ErrFailedThingCreation", "ErrFailedCreation"},
     channels |-> FALSE, configs |-> FALSE]

Clean(e) ==
    [things |-> e \in {"ErrFailedThingRetrieval", "ErrFailedBootstrap", "ErrFailedChannelRetrieval",
                       "ErrFailedBootstrapValidate", "ErrFailedCertCreation", "ErrFailedWhitelist",
                       "ErrGatewayUpdate"},
     channels |-> e \in {"ErrFailedBootstrap", "ErrFailedChannelRetrieval",
                         "ErrFailedBootstrapValidate", "ErrFailedCertCreation",
                         "ErrFailedWhitelist", "ErrGatewayUpdate"},
     configs |-> e \in {"ErrFailedBootstrapValidate", "ErrFailedCertCreation",
                        "ErrFailedWhitelist", "ErrGatewayUpdate"}]

(* A deletion that fails is logged and the next one tried; what stays is   *)
(* keptThings, keptChannels and keptConfigs.                               *)
Recover(r) ==
    LET c == Clean(err[r])
        ths == IF c.things THEN Range(made[r]) ELSE {}
        chs == IF c.channels THEN Range(chans[r]) ELSE {}
        cfs == IF c.configs THEN {t \in Range(made[r]) : NeedsBootstrap(t)} ELSE {}
    IN
    /\ pc[r] = "recover"
    /\ \E keptThings \in SUBSET ths, keptChannels \in SUBSET chs, keptConfigs \in SUBSET cfs :
          /\ IF keptThings \cup keptChannels \cup keptConfigs = {}
               THEN UNCHANGED <<faults, undone>>
               ELSE Fault /\ undone' = [undone EXCEPT ![r] = FALSE]
          /\ things' = [t \in ThingIDs |-> IF t \in ths \ keptThings THEN None ELSE things[t]]
          /\ channels' = channels \ (chs \ keptChannels)
          /\ configs' = [t \in ThingIDs |-> IF t \in cfs \ keptConfigs THEN None ELSE configs[t]]
    /\ Goto(r, "done")
    /\ UNCHANGED <<conf, meta, k, made, chans, err, gateways, certvars>>

(* The bootstrap service hears of the removal of a thing.                  *)
RemoveConfigHandler(t) ==
    /\ things[t] = None /\ configs[t] # None
    /\ configs' = [configs EXCEPT ![t] = None]
    /\ UNCHANGED <<conf, reqvars, things, channels, gateways, certvars, faults>>

(***************************************************************************)
(* Certificates, asked for directly (POST /certs, and Cert of provision)   *)
(***************************************************************************)
IssueCert(t) ==
    /\ things[t] # None /\ Serial(t) <= MaxCerts
    /\ \/ Issue(t) /\ UNCHANGED faults
       \/ IssueUnsaved(t) /\ Fault
    /\ UNCHANGED <<conf, reqvars, server, half>>

(* RevokeCert: the thing and its row are looked up, Vault revokes the      *)
(* serial, the row goes.                                                   *)
RevokeKeepingCert(t) ==
    /\ conf.pki /\ things[t] # None /\ certs[t] # None
    /\ valid' = valid \ {c \in valid : c[1] = t}
    /\ UNCHANGED <<conf, reqvars, server, certs, issued, half, faults>>

RevokeCert(t) ==
    /\ conf.pki /\ things[t] # None /\ certs[t] # None
    /\ valid' = valid \ {<<t, certs[t]>>}
    /\ \/ certs' = [certs EXCEPT ![t] = None] /\ half' = half \ {t} /\ UNCHANGED faults
       \/ Fault /\ half' = half \cup {t} /\ UNCHANGED certs
    /\ UNCHANGED <<conf, reqvars, server, issued>>

(***************************************************************************)
Init ==
    /\ conf \in [layout : Layouts, x509 : BOOLEAN, whitelist : BOOLEAN, pki : BOOLEAN]
    /\ meta = [i \in 1..N |-> None]
    /\ pc = [r \in Requests |-> "idle"]
    /\ k = [r \in Requests |-> 1]
    /\ made = [r \in Requests |-> <<>>] /\ chans = [r \in Requests |-> <<>>]
    /\ err = [r \in Requests |-> None]
    /\ undone = [r \in Requests |-> TRUE]
    /\ things = [t \in ThingIDs |-> None]
    /\ channels = {} /\ gateways = {} /\ valid = {} /\ half = {}
    /\ configs = [t \in ThingIDs |-> None]
    /\ certs = [t \in ThingIDs |-> None]
    /\ issued = [t \in ThingIDs |-> 0]
    /\ faults = 0

Step(r) ==
    \/ Begin(r) \/ SetMetadata(r) \/ CreateThing(r) \/ GetThing(r)
    \/ CreateChannel(r) \/ GetChannel(r) \/ AddBootstrap(r) \/ ViewBootstrap(r)
    \/ ProvisionCert(r) \/ UpdateCert(r) \/ Whitelist(r) \/ UpdateGateway(r) \/ Recover(r)

Next ==
    \/ \E r \in Requests : Step(r)
    \/ \E t \in ThingIDs : RemoveConfigHandler(t) \/ IssueCert(t) \/ RevokeCert(t)

Spec == Init /\ [][Next]_vars

(***************************************************************************)
(* Properties                                                              *)
(***************************************************************************)
Succeeded(r) == pc[r] = "done" /\ err[r] = None
Failed(r) == pc[r] = "done" /\ err[r] # None

(* A request that succeeded has everything of the layout: its things and   *)
(* channels, the config of each thing with an external_id, with the        *)
(* certificate and the state the switches ask for, and the gateway's       *)
(* metadata; no other request and no clean-up takes any of it away.        *)
SuccessComplete ==
    \A r \in Requests : Succeeded(r) =>
        /\ \A i \in 1..N :
              /\ things[<<r, i>>] # None
              /\ Layout[i] => /\ configs[<<r, i>>] # None
                              /\ configs[<<r, i>>].cert = conf.x509
                              /\ configs[<<r, i>>].active = conf.whitelist
        /\ \A j \in 1..NumChannels : <<r, j>> \in channels
        /\ \E i \in 1..N : <<r, i>> \in gateways

(* What a failed request leaves behind.  A thing is left only when its     *)
(* creation or its first retrieval failed, or that of another thing or     *)
(* channel before the bootstrap stage (recover has no branch for these),   *)
(* or when its deletion failed; a channel likewise.                        *)
LeftoversExplained ==
    \A r \in Requests : Failed(r) /\ undone[r] =>
        /\ \A t \in ThingIDs : t[1] = r /\ things[t] # None =>
              \/ t \notin Range(made[r])
              \/ err[r] \in {"ErrFailedThingCreation", "ErrFailedCreation"}
        /\ \A c \in channels : c[1] = r => c \notin Range(chans[r]) \/ err[r] = "ErrFailedCreation"

(* The serial the certs service has stored for a thing is a valid          *)
(* certificate of that thing, until a revocation of it was at least begun; *)
(* so revoking always reaches the certificate the table speaks of.         *)
StoredCertValid ==
    \A t \in ThingIDs : certs[t] # None => <<t, certs[t]>> \in valid \/ t \in half

(* provision/service.go: "set value for it from the provision request".    *)
(* The external_id of a thing is that of the request that made it.         *)
MetadataOfRequest ==
    \A t \in ThingIDs : things[t] \notin {None, "none"} => things[t] = t[1]

(* pkg/sdk/go/sdk.go: "RemoveCert removes a certificate".  After recover   *)
(* asked for it, no certificate of the request's things is valid.          *)
CertsRemoved ==
    \A r \in Requests :
        Failed(r) /\ undone[r] /\ err[r] \in {"ErrFailedWhitelist", "ErrGatewayUpdate"} =>
            \A c \in valid : c[1][1] = r => ~NeedsBootstrap(c[1])
=============================================================================
