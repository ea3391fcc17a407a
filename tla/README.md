# Mainflux in TLA+

Mainflux is an IoT platform made of Go services that share little: each has a
database of its own, some have Redis caches, and they meet over gRPC and HTTP
calls, over a Redis stream of events and over NATS. This directory holds TLA+
models of these services, the TLC runs that check them and the TLAPS proofs
about them. Paths below are relative to the repository.

## 1. The system

| Part | State | Operations | Talks to |
|---|---|---|---|
| things (`things/`) | PostgreSQL: things (id, owner, key), channels, connections, groups with ltree paths. Redis: `thing_key:<key>`, `thing:<id>`, sets `channel:<id>` | create, update, remove things and channels; update a key; connect, disconnect; the checks CanAccessByKey, CanAccessByID, Identify; groups | auth (Identify of tokens); emits events to the stream `mainflux.things` |
| bootstrap (`bootstrap/`) | PostgreSQL: configs (thing, owner, external id, state), channels, connections | Add, Update, UpdateCert, UpdateConnections, ChangeState, Remove, Bootstrap; handlers of four events | things, through the SDK (HTTP) and through the stream |
| auth (`auth/`) | PostgreSQL: API keys, groups with ltree paths, members | issue, revoke, retrieve, identify; group operations | called by all services |
| users (`users/`) | PostgreSQL: users, groups | register, login, reset and change a password; groups | auth, e-mail |
| twins (`twins/`) | MongoDB: twins, states. Redis: twin ids by attribute | twin operations, SaveStates for each message | auth, NATS |
| adapters (`http/`, `coap/`, `mqtt/`) | CoAP: observers by topic | publish, subscribe, forward | things (checks), NATS |
| adapters (`lora/`, `opcua/`) | route maps in Redis; OPC-UA: subscriptions, `/store/nodes.csv` | consumers of the things stream; messages of devices | NATS |
| writers, readers, transformers | one table for each format, in one of four databases | insert, list, transform | NATS, things (checks) |
| provision, certs | certs: one table of serials | sequences of calls to the services above | things, bootstrap, auth, Vault |
| SDK, CLI | none | a function for each route; a command for one or more functions | all HTTP APIs |

What is hard in this code:

* **Two stores and no transaction between them.** things, twins and the adapters
  change caches and databases in separate calls, and requests overlap.
* **Calls that fail half-way.** Any call may return an error, and the process may
  stop, between two calls of one request. provision undoes what it made.
* **State read early and used late.** `Add` of bootstrap, `UpdateTwin`,
  `saveState` and `ChangePassword` read, go on to other calls and then write.
* **Events and messages.** They are sent after the change, may be lost, arrive
  later than direct calls, and are handled in batches that an error breaks.
* **Goroutines over shared values.** CoAP observers, OPC-UA subscriptions.
* **Errors told by their text.** An error passes five layers before a code is
  chosen by the messages it contains; SDK and CLI then judge by the code.

What makes each part correct: *things* – connections join things and channels of
one owner, keys are unique, the checks answer from what the database holds or
held, a cached connection outlives its row only by a race, only owners remove;
*bootstrap* – connections of configs are whole, an
external id leads to one config, Add leaves nothing behind when it fails, a
config goes with its thing; *auth, users* – tokens name users that exist, keys
stay until their issuer revokes them, passwords change only for their owners;
*groups* – a forest, told the same way by paths and by parents; *messages* –
stored whole and delivered unless something is lost, no echo; *CoAP* – no subscription
without an observer, none of a client that is gone; *LoRa, OPC-UA* – messages are
addressed as the metadata said; *twins* – states belong to their definition and
history is not rewritten; *provision* – everything or what is known to remain;
*APIs, SDK, CLI* – what is answered, returned or printed is true.

## 2. Modules

| Module | Models | Uses |
|---|---|---|
| `ThingsStore` | the database of things: one operator for each statement or transaction of `things/postgres` | |
| `Things` | `things/service.go` and `things/redis/{things,channels}.go`: requests as processes, one call for each step | `ThingsStore` |
| `ThingsEvents` | `things/redis/streams.go`: the events, the XADD as a step after the statement, which may be lost or overtaken | `ThingsStore` |
| `Bootstrap` | `bootstrap/service.go`, `bootstrap/postgres/configs.go`, `bootstrap/redis/consumer`, the handlers of `bootstrap/redis/producer`; composed with the things service it provisions and with users who call that service directly | `ThingsEvents` |
| `Accounts` | keys of auth (`auth/service.go`, `auth/keys.go`, `auth/jwt`) composed with `users/service.go`: every call of login, reset and change is a step | |
| `GroupForest` | abstract: what a groups repository promises | |
| `Groups` | the three groups repositories and the response tree of `internal/groups/api` | `GroupForest` |
| `Messaging` | the way of a message: HTTP, CoAP and MQTT adapters, NATS, forwarder, transformers, four writers | |
| `Coap` | `coap/`: observers, goroutines, subscriptions, clients | |
| `RouteMaps` | `lora/` and `opcua/`: consumers, route maps, messages of devices, subscriptions, restart | |
| `Twins` | `twins/service.go`, `twins/redis`, `twins/mongodb` | |
| `Provision` | `provision/service.go` with what it makes elsewhere; `certs/service.go` | |
| `ApiErrors` | `pkg/errors` and what all APIs share | |
| `ThingsApi`, `UsersApi`, `AuthApi`, `GroupsApi`, `BootstrapApi`, `TwinsApi`, `CertsApi`, `ProvisionApi`, `AccessApi`, `MessagesApi`, `ReadersApi`, `OpcuaApi` | tables: the routes, decoders, requests, endpoints, responses and methods of one API, and its encodeError | `ApiErrors` |
| `Sdk`, `Cli` | tables: functions of `pkg/sdk/go`, commands of `cli/` | `ApiErrors` |
| `Api` | one request, or one command, through these tables | all of them |
| `MC...` | symmetries and constant values for TLC | |
| `ThingsProofs`, `BootstrapProofs`, `AccountsGroupsProofs`, `MessagingCoapProofs`, `RouteMapsProofs`, `TwinsProofs`, `ProvisionProofs`, `ApiProofs` | theorems | the modules each is named after |

### Things

`thingOwner`, `thingKey`, `chanOwner`, `connections` are the rows; `keyCache`,
`idCache`, `chanCache` the three kinds of Redis keys; `req[p]` the call that the
request of process `p` makes next, with its locals. `issued` remembers the ids
handed out, since a UUID is never used twice; `everKey`, `everConnected` and
`raced` are history variables: the last one (`Recorded`) takes a pair that a check
carries from the database to the cache while a Disconnect or RemoveChannel of it
is in progress, and forgets it when the cache entry goes. Entries of removed
things are not asked of `StaleOnlyIfRaced`: RemoveThing leaves all of them. A request that makes one call (CreateThings, UpdateKey,
CreateChannels, Connect) is one step; RemoveThing, RemoveChannel, Disconnect and
the checks are sequences of steps named after the calls: `RemoveThingGet` (GET),
`RemoveThingDel` (DEL), `RemoveThingDB` (DELETE), and so on. `Fail` is a call
that returns an error, `Crash` the end of the process. A cache read that fails
counts as a miss, as in the code. Each SQL statement is atomic.

### Bootstrap

`cfgOwner`, `cfgState`, `cfgExt` are the columns of configs that matter,
`bsChannels` and `bsConns` the other two tables, `stream` the events not yet
delivered, `batch` those the consumer has read and not yet handled. A request is
again a process with one call for each step; `NextPC` is the order in which
`Add`, `UpdateConnections` and `ChangeState` run their loops. A call to the things
service through the SDK is two steps, its database operation (`Emit`) and its XADD
(`XAdd`), and the request goes on after the second (`Answered`). (Its caches do
not matter here.)

The transactions run at READ COMMITTED. `StoreConnections` is the part of
`UpdateConnections` up to the INSERT of the connections, which nobody else sees
yet; `TidyChannels` is what its cleanup selects, and `CommitConnections` makes all
of it visible, if the constraints still admit it (`Committable`; in the database
the transaction would have waited, and failed, earlier). A DELETE that waited for
another one of the same rows counts none of them, and then the cleanup is left out
(`Contended`). The cleanups of `Remove` and `RemoveThing` are a step that selects
(`RemoveCleanup`, `HandleCleanup`) and one that deletes (`RemoveSweep`,
`HandleSweep`): the DELETE may wait for a transaction that connects a config to
the channel, and then takes the fresh connection along. A channel deleted and
inserted again between the two counts as the same row, by which the model allows
more than the database. `raced` (`Overlap`) records that the tables changed in
such an interval. The UNIQUE of `mainflux_key` follows from that of the thing,
whose key it is.

`HandleUpdateChannel` models what `UpdateChannelHandler` of the middleware does:
it calls itself, so the stack overflows and the process stops, losing its requests
and the rest of its batch. `HandlerFails` is the `break` of the consumer; `lost`
has the things whose removal was in a batch that was given up either way.
`RequestFails` follows the error returns of each call, with the special cases of
the code: a fetch of the thing that fails other than by a status code makes
`thing` delete a thing that the caller named, a disconnect that fails by a status
code is skipped, and a COMMIT that fails is reported as a success. `faults` counts
what has failed.

### Accounts

`users` and `keys` are the two tables, `tokens` the signed tokens that exist (a
token is stored nowhere), `mail` the recovery mails sent, `now` the clock. A
client's request is a record with its next call: `RetrieveStep`, `IdentifyStep`,
`IssueStep`, `SendPasswordReset`, `UpdatePassword`. `past`, `seen` and `gone` are
history: passwords an account had, the token identified last, keys revoked.

### Groups

A behaviour is about one repository, `repo`. `groups` are the rows, `relations`
the memberships. `placed` is the refinement mapping: where things' lists, which
use only paths, see a group; the other two use parent ids. Renaming does not move
a group: things' paths are of ids, and auth's Update can only fail. A cascade takes
the least set that has the group and, with a group, its children (`Subtree`);
the recursive query of users' groups goes level by level (`Rises`).

### Messaging

`connected` are the connections in the database of things, `cached` those in its
channel cache, which `Withdraw` may leave behind; access is granted on either
(`HasAccess`). `bus` holds the copies NATS has made of a message: one for the
writer, which subscribes without a queue group and of which there is one instance,
and one for the group of MQTT adapters. `store` holds the rows of the one database
the deployment has, keyed the way its writer keys them: an id for each record
(Postgres, MongoDB), channel, time and an id for the pack (Cassandra), or tags and
time (InfluxDB, where a later point with the same ones replaces an earlier one; in
the database it merges their fields). A record without a time gets the one of its
message as a float64 of seconds, in which `Grain` nanoseconds are one value; times
that records carry themselves are taken to differ from times of reception.
`Exposed` names the messages these keys let lose records, `Clash` two messages
that InfluxDB confuses. `mqtt[n]` counts how often the MQTT broker has seen
message `n`. `SaveFails` leaves what the writer leaves when it stops after `k`
records: nothing (Postgres, InfluxDB) or the first `k` (MongoDB, Cassandra).
`Storable` is what a writer can store at all. The last word of a JSON message's
subtopic names its table; one that is called `messages` meets the table of SenML
messages that Postgres and Cassandra make when they start, and its insertion
fails, so this subtopic is among those of the run.

### Coap

An observer is stored by `Put`, under the lock, after its subscription exists
(`subs`) and after its goroutine runs (`watchers`). `late` marks the observers
that were stored after their goroutine had finished. A Cancel that fails is left
out: Unsubscribe fails only for a subscription that is no longer active.

### RouteMaps

`meta` and `stream` are the things service: a request executes its statement
(`Execute`), and then its event is sent (`Send`) or lost (`Lose`); `sending` holds
it in between, and `astray` remembers the things and channels of which an event
was lost or overlapped with another. The consumer takes batches and handles event
after event; `failed` remembers what a `break` left behind. A Save that fails
leaves what its SETs have done; the two SETs of a connection write one key, so a
failing second one leaves the pair stored, and a DEL may be done and reported to
fail. ConnectThing is four steps: both GETs, Save, the goroutine, and `db.Save`,
which drops its errors. The run starts with the channel created and the event of
that sent (`MCSpec`), to save events. `cfg` is
the Config that subscription goroutines read when they run, one for ConnectThing
and one for the loop of `cmd/opcua`. `Restart` loses what the process held.

### Twins

`byAttr` and `byTwin` are the two kinds of Redis sets. UpdateTwin reads, then
writes the whole document, then clears the cache; `h` is the handler of messages.
It reads a twin once (`RetrieveTwin`) and then writes a state for each record, a
step each (`SaveState`), so that updates and removals of the twin come in between
and a failure leaves the records before it. The Redis commands of one cache call
are a step, and one that fails half-way counts as not done; keys of attributes are
taken to be injective (they are built of UUIDs); one instance handles messages.
`defined` remembers every definition a
twin ever had.

### Provision

`things`, `channels`, `configs`, `gateways`, `certs`, `valid` are what the calls
make in other services; a call that fails may have done its work. `recover` runs
when an error is returned, and takes the branch of that error; its calls are one
step, of which any may fail, RemoveBootstrap too. A certificate may be issued by
Vault and not saved (`IssueUnsaved`). `IssueCert` and `RevokeCert` are requests of others to the certs service.

### APIs, SDK, CLI

A request goes through `Decode`, `Validate`, `Check`, `Identify`, `Then`,
`Serve`, `ServeFails` or `ServeUnnoticed`, and `Encode`; what is wrong with it is a set of flaws,
and a decoder, a `validate` method or a service method is the sequence of checks
that find them, each with the layers of the error it returns. The result is
"done", "refused", "missing", "failure", "part" (a later step of the operation failed and what
the earlier ones did stays, `Part`) or "dropped" (the repository drops the error,
`Unchecked`, and a success is answered). A statement that the database reports as
failed is taken to have changed nothing. An error is the
sequence of its messages; encodeError is a list of cases. A function of the SDK is
a method, a path, the codes it takes and the operation it is for; its path is
matched against the routes, so that one that no service has shows. A command is
its input, its calls and what it prints at the end.

## 3. Runs

| Run | Instance | What it shows |
|---|---|---|
| `ThingsConcurrent` | 2 things, 1 channel, 1 key, 2 owners, 2 requests | tables consistent; caches and answers never hold a pair the database never had; a cached connection of an existing thing outlives its row only by a check that overlapped the removal |
| `ThingsSequential` | 2 things, 1 channel, 2 keys, 2 owners, 1 request | only its owner removes a connection; every request ends, whatever failures and crashes left in the caches |
| `BootstrapEvents` | 1 thing, 1 channel, 1 request, users, events (`channel.update` too), 1 fault | configs consistent; a removal in the stream is applied unless its batch is given up |
| `BootstrapOverlap` | 2 things, 2 channels, 2 external ids, 2 requests | configs consistent; no dangling channel without a cleanup to come, unless the tables changed under one; Add leaves no orphan |
| `Accounts` | 2 users, 2 passwords, 2 clients, 1 API key | tokens name users; the key table is exact; passwords change only with the old one or a recovery token |
| `Groups` | 3 groups, 1 member, 2 owners, 2 names, each repository | nothing dangles; lists by path and by parent agree; the tree of a page has all of it; refinement of `GroupForest` |
| `Messaging` | 2 messages, 1 thing, 1 channel, 4 databases, 2 transformers, 3 protocols | no echo; packs whole, the exposed ones apart; accepted messages stored and forwarded, or lost where they may be |
| `Coap` | 2 clients, 2 tokens, 3 observers | subscriptions accounted for; clients that are gone are watched and removed |
| `RouteMaps` | 2 things, 1 channel, 2 devices, 2 requests, 4 events, 1 fault, both adapters | routes and messages follow the events; a consumer that caught up routes by the last event, and by the metadata if no event went astray |
| `Twins` | 1 twin, 3 definitions, 2 clients, 1 handler, 1 fault | definitions and payloads agree; the cache invents nothing; states are not rewritten |
| `Provision` | 2 requests, 2 layouts, 1 fault | a success is complete; what a failure leaves; stored certificates valid |
| `Api` | every route, function and command, 2 flaws | codes, verdicts and output are true, the listed dropped errors and partial failures apart; refusals are not server errors, the listed messages apart; nothing is done for a caller not identified |

Bounds. Two things and one key let a key pass from one thing to another; two
requests are enough for every race of two sequences of calls, which is what each
of the invariants is about (each relates one cache entry or row to one other);
two owners are enough for one to act on what belongs to the other. Two configs that
share two channels let one cleanup see, or miss, the connection of another. `ThingIDs` and
`ChannelIDs` bound the number of creations: ids are never used again. `MaxEvents`
bounds events, `MaxFaults` failures, `MaxLoad` tokens and open requests, `MaxMsgs`
messages, `MaxObs` subscriptions, `MaxStates` and `MaxRevision` a twin's history,
`MaxCerts` certificates of a thing, `MaxTime` the clock, `MaxFlaws` what is wrong
with one request. `BatchSize` is the Count of XREADGROUP, 2 instead of 100, so
that a batch has a rest that can be lost; four events are two batches. Three
groups make a grandchild, which a cascade to children alone would miss. Two
records make a pack that can be stored in part; three times, of which `Grain` makes
two the same second, let messages clash and not clash. Two flaws let one check hide
another. Symmetry is used where no liveness property is checked. Runs whose
behaviours end at a bound do not check for deadlock; those of things, bootstrap
and the APIs do.

Fairness. `Things!FairSpec`: weak fairness of each request's steps, since a
goroutine is not starved and every call returns, with a reply or an error. A
request that never arrives is not forced to. `Bootstrap!FairSpec`: weak fairness of
the consumer alone, whose loop has no exit (the process is started again after the
overflow). `Coap`: the handler that has
subscribed goes on to put, and the goroutine of a client that is done runs.
`Messaging`: an adapter publishes what it accepted or fails, and each copy in
flight is handled or lost.

### Further observations

Made while modelling. The properties named here are in the modules, violated by
what the code does, and part of no run. TLC shows the behaviour when one is put in
place of the properties of its module's run: in ThingsConcurrent for
`GrantedIsConnected` and `QuiescentCoherence`, ThingsSequential for
`IdentifiedHoldsKey`, BootstrapEvents for `NamedThingKept` and `ConfigsHaveThings`,
and with two things, keys and external ids for `DeactivatedByName`, Twins with two
twins and one client for `UpdatedIsFound` (with one twin an empty cache falls back
on the database).

*things.* RemoveThing does not clear the channel cache, so CanAccessByID goes on
granting access to a thing that no longer exists, though "CanAccessByID determines
whether the channel can be accessed by the given thing and returns error if it
cannot" (`things/service.go:120`, `GrantedIsConnected`); UpdateKey leaves the thing
cache, so Identify accepts the old key (`things/service.go:204`,
`IdentifiedHoldsKey`); a check between the two calls of Disconnect leaves the pair
in the cache for good (`things/service.go:337`, `QuiescentCoherence`). RemoveThing
by a user who does not own the thing still sends `thing.remove`, so the bootstrap
config and the routes of someone else's thing go (`things/redis/streams.go:98`).
channels.Remove drops the error of its DELETE (`things/postgres/channels.go:267`):
the channel stays, the answer is 204, `DeleteChannel` returns nil, the CLI prints
ok and the event is sent. The XADD follows the statement and its error is dropped
(`things/redis/streams.go:111`), so events may be missing, or stand in the stream
in another order than the rows were changed.

*bootstrap.* A disconnect event makes every config Inactive: the EXISTS of the
UPDATE is not correlated with the row (`bootstrap/postgres/configs.go:421`,
`DeactivatedByName`). Add saves a config for a thing whose removal event was
handled meanwhile (`bootstrap/service.go:167`, `ConfigsHaveThings`). A fetch that
fails makes Add delete the thing the caller named, not the one it created
(`bootstrap/service.go:412`, `NamedThingKept`). A handler that fails once loses
the rest of its batch (`bootstrap/redis/consumer/streams.go:90`), and a
`channel.update` does so always, by the overflow of `UpdateChannelHandler`
(`bootstrap/redis/producer/streams.go:162`). Two updates that take different
configs off one channel each see the other's connection and leave the channel
behind; a cleanup that waits for a fresh connection deletes it with its channel
(`bootstrap/postgres/configs.go:27`). Save and UpdateConnections report a COMMIT
that failed as a success (`:315`); the list of configs is an empty page, 200, when
its query fails (`:160`). Add, UpdateConnections and ChangeState that fail late
leave the thing or the connections they made. ChangeState stores Active after a
disconnect event was handled in between (`:347`); a config removed while Active and
added again is Inactive though its thing is connected, and cannot be activated,
since Connect refuses a connected pair (`:285`); UpdateConnections with an empty
list disconnects the thing and keeps the stored list
(`bootstrap/postgres/configs.go:510`), and leaves its transaction open on a
foreign-key error (`:305`).

*auth, users.* Identify of an API key does not ask the table, so a revoked key
still identifies its user (`auth/service.go:154`, `AcceptedKeysStored`;
`auth/README.md:21`). auth's groups: Update and Delete fail on the empty type,
Assign and Unassign on a ULID parsed as a UUID, Members and Memberships name an
alias and a table that do not exist; a page with a child in it fails on its NULL
`created_at`. Over gRPC, `decodeAuthorizeRequest` drops the token.

*messages.* Postgres: the deferred function of `saveSenml` sees the outer `err`, so
that a failed insertion goes on to COMMIT, whose error is lost; the reader orders
by a column `created` that the SenML table lacks, and its total ignores the
filters. Cassandra: the records of a SenML pack share an id, so that those without
a time replace each other; the reader binds values its query has no place for.
InfluxDB: records of one name without a time are one point, and so are messages of
one publisher, channel and subtopic received within the precision of a float64 of
seconds (`pkg/transformers/senml/transformer.go:63`), or, as JSON, within as many
nanoseconds as they have records (`writers/influxdb/messages.go:89`); the reader
puts the name of the measurement into its query without quotes
(`readers/influxdb/messages.go:52`), so that one such as `air-quality` is stored
and cannot be read. MongoDB and Cassandra keep the first records of a pack whose
write failed. Access that was taken away goes on while the cache of things has it.

*CoAP.* A request that repeats its token cancels the observer it replaces and with
it the client's own connection (`coap/adapter.go:145`, `ReplacementKeepsClient`);
an observer stored after its goroutine finished stays.

*LoRa, OPC-UA.* The removal of a thing that has no route is an error and breaks
the batch; an update leaves the reverse route of the old external id; the
goroutines of ConnectThing and of the start-up loop read a Config that is being
changed; the error of a missing connection never equals `errNotFoundConn`;
`db.Save` ignores that the file did not open.

*twins.* UpdateTwin's cache Update is given the request, which has no definitions,
and so clears the twin's entries (`twins/service.go:209`, `UpdatedIsFound`); a
removed twin still in the cache makes SaveStates return before the other twins;
overlapping updates lose a definition; View, Update and Remove do not look at the
owner; a cache call that fails after the write to MongoDB is answered 500 though the
twin was stored, changed or removed (`twins/service.go:158`, `:209`, `:244`).

*provision, certs.* After ErrFailedThingCreation, or an error of CreateChannel, which
is not wrapped, recover has no branch and the things stay; RemoveCert asks for a
route that does not exist (`CertsRemoved`); whitelisting fails for a thing without
an external id; requests share the metadata map of the configuration
(`MetadataOfRequest`); a second IssueCert leaves the first certificate valid and
untracked, and a Save that fails leaves one valid that has no row
(`certs/service.go:159`); `certs/postgres` drops the error of COMMIT.

*APIs.* Answered 500 though the client is at fault: groups of things and auth
("malformed entity", "unauthorized access", "failed decode": errors of another
package with other texts), expired keys at `/keys`, an invalid query or a missing
reset token of users, everything of certs and provision (they compare other error
values), an unknown or unconnected key at the readers (503 at the HTTP adapter),
since the gRPC server never sends PermissionDenied. An auth service out of reach
is answered 401 or 403 by things, users, bootstrap and twins; failures of the
database 400 or 422 by things; a wrong external key 404 by bootstrap; failures of
issueCert and doProvision 201. The lists of all services end without an error when
the reading of their rows breaks off: nobody asks `rows.Err`.

*SDK, CLI.* `User` gets the list of users; `UpdateGroup` sends PUT where the
service has PATCH; `RemoveCert` has no route; `CreateChannels` uses a prefix that
is never set. `channels connections` lists the things that are not connected;
`provision connect` prints nothing on success; `groups get children` with two
arguments indexes a third; `provision test` leaves what its earlier calls made.

## 4. Proofs

All theorems hold for every value of the constants, under named assumptions that
say no more than that the bounds are naturals, that None is a value of its own,
and how the inputs are shaped: `StoreAssumption` (ids of things and channels are
disjoint), `BootstrapAssumption`, `DurationsAssumption` (Accounts),
`GroupsAssumption` (the ids of groups are finitely many), `CoapAssumption`,
`MessagingAssumption`, `RequestsAssumption`, `RouteMapsAssumption` (things, channels,
devices and applications are apart), `TwinsAssumption` and `NoneAssumption`
(definitions are lists of attributes, messages lists of records),
`LayoutAssumption` and `NoneAssumption` (Provision: a layout is a non-empty list),
`MaxFlawsAssumption` (Api, whose proofs do not use it).
Each proof has the same shape: an inductive invariant, a lemma that Init implies
it, one lemma or step for each action, and a last step that combines them. The
invariants were checked by TLC on the runs' instances first.

*things*

* `TypesAndIntegrity`: types and `StoreIntegrity`. The service only issues
  statements of `ThingsStore` (`StoreSteps`), so it is enough that the statements
  preserve the invariant. `StoreIntegrity` needs `RowsIssued` (a row has an issued
  id), or a creation could overwrite a row that has connections.
* `CachesNeverInvent`, `AnswersNeverInvented`: `CacheProvenance` and
  `AnswerProvenance`. Not inductive as they stand: a request carries a pair from
  the database to a cache over several steps, so the invariant also says, for each
  point of a request, which of its locals form a pair that was once a row.
* `OwnersOnly`: each kind of step that deletes a connection is one of three
  database calls, whose owner test and `StoreIntegrity` give the owner.
* `StaleEntriesRaced`: `StaleOnlyIfRaced`, for any number of processes. The
  invariant adds that what a check carries to SADD is connected or raced, or of a
  removed thing, and that a pair whose row Disconnect or RemoveChannel is about to
  delete, with the first call done, is out of the cache or raced
  (`FillingFresh`, `CutUncached`, `OverlapsNoted`).

*bootstrap*

* `ConfigsConsistent`: `ConfigIntegrity`. The invariant adds what a request carries
  at each call (`RequestOK`): without it, Save could insert connections of no
  thing. Nothing is assumed of the stream or of the batch: any event, in any
  order, keeps the tables consistent.
* `NoDanglingChannels`: `DanglingCleaned`, over transactions split at READ
  COMMITTED. A step that leaves a channel without a config goes on to its cleanup;
  inserted channels come with their connections; and what a cleanup or the
  transaction around it has selected is still what is dangling when it deletes,
  since otherwise the tables changed in between and `raced` says so.
* `AddsLeaveNoOrphan`: the action property `AddLeavesNoOrphan`. The invariant says
  that the thing an Add created is the caller's, or gone again, which rests on ids
  being issued once (`ThingsKept`); each way in which an Add returns is then a case:
  saved, or its thing removed by the step itself.

*auth, users*

* `TokensAreUsers`, `KeysAccounted`, `PasswordsGuarded`: one invariant with, for
  each call of a request, what it carries (`RequestOK`): its token was issued and is
  for the account it goes on with, the account exists once it was looked up, a
  change has compared a password the account had. `KeyTableExact` needs that ids of
  keys are given once, or one Revoke could take the row of another key.

*groups*

* `NothingDangles`, `TreesAreWhole`: `GroupIntegrity` and `TreeShowsPage`, for trees
  of any depth. The invariant adds `Acyclic` (no set of groups holds the parents of
  all its members), which a new group, having no children, and a deletion keep. A
  group that the tree of a page lacks would have a parent that it lacks, and so
  on; `Acyclic` ends that without an induction.
* `RepositoriesAreForests`: `ImplementsForest`, the refinement. The invariant adds
  `PathsGrow` (a path is the parent's path and the group's label); with it things'
  paths place a group where its parent id does (`PlacedIsParent`), and each
  statement is a step of `GroupForest` or a stutter (`StepsAsForest`).
* `PathsAreAncestors`: `PathsSpellAncestors`. A path is a prefix of another, n labels
  shorter, if its group is n levels above (`RisesIsPrefix`), and for paths of ids
  only if (`PrefixRises`); both by the least n for which it fails. The recursive
  query ends in time because a way up meets no group twice (`WaysAreShort`).

*CoAP*

* `SubscriptionsTracked`, `GoneClientsAwaited`: an observer is stored under its own
  subject and token and is not about to be stored again (`StoredInPlace`), so that
  what Put or remove takes out of the map was nowhere else; numbers make a new
  observer new; the goroutine of a stored observer has still to run whether or not
  its client is gone, which is what is inductive.

*messages*

* `NeverEchoed`, `PacksStayWhole`: a message is in one place at a time
  (`OnePlace`): its rows are written once, and what is still to be forwarded was
  not yet seen by the broker (`Unseen`). No later row has the key of an earlier
  one, unless one of the two messages is exposed (`RowsOK`): for InfluxDB that is
  arithmetic on the times of the points.

*LoRa, OPC-UA*

* `RoutesComeFromEvents`: routes, connections, Configs and goroutines hold only
  what some event said; the stream only grows, so what was said stays said.
* `RoutesCatchUp`: for each entity, the route equals what the last of its handled
  events says, or one of its events failed. That needs the order of the log: the
  batch is a run of consecutive numbers that ends where the next one begins
  (`LogOK`). For the metadata it also needs that an entity which did not go astray
  has the metadata that its event under way, or else the last one in the stream,
  says (`MetaOK`).
* `ConnectionsExact`: the connection map against the last handled connect or
  disconnect of a pair, with the same log; a half-done Save or DEL belongs to an
  event that failed, and the next one that does not fail sets the pair right.

*twins*

* `DefinitionsAreNumbered`: a document read by a request is numbered and has been
  stored (`DocumentOK`), so that the whole-document write of an overlapping update
  keeps the numbers.
* `HistoryIsKept`: needs that states are numbered by their places
  (`StatesNumbered`), or Update, which filters by id, could reach an older row.
* `PayloadsAreDefined`, `CacheHasProvenance`: the handler holds a definition that the
  twin once had (`HandlerOK`), which an update may have replaced since; the names
  it keeps or adds are persisted by that definition.

*provision, certs*

* `SuccessIsComplete`: for each request, how far its lists are at each call
  (`ListsOK`, `PlaceOK`), and what every thing behind the loop index has
  (`MadeOK`, `ReadyOK`, `ConfigOK`); nobody else touches what a request made
  (`Elsewhere`).
* `LeftoversAreExplained`: the errors after which recover deletes nothing come
  before there is anything to delete (`EarlyOK`), those two apart that the property
  names; for the others the branch of recover has undone the lists (`LeftOK`).
* `StoredCertsValid`: inductive given the types: an issue stores the serial it made
  valid, a revocation revokes the serial that is stored, and one that stops half way
  is marked.

*APIs, SDK, CLI*

The theorems hold for any number of flaws in a request (`MaxFlaws`), and so for
any subset of what can be wrong with it, where the run goes up to two. A step of
`Api` looks up tables, so their proofs have two halves. The first is about the
tables, one lemma for each table of each service: every name a route or an endpoint
uses is in the tables (`ApisOK`); encodeError answers 400 to 503 to any error at
all, and 4xx when a case other than the last matches (`ThingsCodes` and the ten like
it, by the least case that matches, `FirstIsLeast`); the method of every operation
that is not open to all identifies its caller (`MethodOK`); the path of every SDK
function leads to the operation the function is for (that of `User` to the list of
users) and to a code it takes, or nowhere (`FunctionFacts`); every command calls functions of the SDK
(`CommandFacts`). The second is the inductive invariant.

* `AnswersAreTruthful`, `CallersAreIdentified`: `HandlerInv` says what a request in
  each phase has come through: it has a route, it passed its validation, its caller
  was let in, and the code agrees with the result: a dropped error or partial work
  only for a method that the tables mark so, and those are the operations of
  `ErrorsUnnoticed` and `LeavesPart`. Where the auth service reads the
  token itself, nobody is let in without one only because the validation before has
  found it missing (`TokenGiven`), which is why the order of the phases is in the
  invariant.
* `SdkIsTruthful`: `SdkInv`, given `HandlerInv` and `FunctionFacts`: a function that
  compares the code with those it takes cannot mistake an error for a success.
* `CommandsAreTruthful`: `CliInv` says that the calls noted so far did what their
  functions are for, and that the call under way is the next one of the command;
  one call alone does not tell what a command with several may print.
* `RefusalsAreClassified`: `RefusedInv` says that the error of a refusal is
  classified from the moment it is made. That is a fact about errors as they leave
  the tables, layers included: a message that has a case keeps it inside any layers
  (`WrapSays`), so a table is searched for errors whose messages all lack one
  (`RefusalsOK`, a lemma for each service). `Denials` is the part that needs the way
  of the request: the readers' decoder has already refused a request without a key
  (`KeyGiven`), so that the things service never answers them InvalidArgument.

Model-checked only: the liveness properties `RequestsEnd`, `RemoveEventApplied`,
`GoneClientsRemoved` and `AcceptedDelivered`, which need fairness, out of this
prover's reach.

## 5. Plan

Done: the modules above, their runs, and a theorem for every safety property of a
run. Worth doing next: the operations that section 6 leaves out, and for the
liveness properties a proof of the leads-to steps they are made of, once the
prover has rules for fairness.

## 6. Not modelled

Metadata and names of things and channels (UpdateThing, UpdateChannel) in
`Things`; Update and UpdateCert of bootstrap as steps; the offsets, limits and
totals of lists; the queries of the readers; a Cancel of a CoAP observer that
fails; the parsing of JSON and SenML and the signing of certificates,
which libraries do; metrics, logging and tracing wrappers, start-up and
configuration, which keep no state; MQTT's AuthConnect and AuthSubscribe, single
checks; the events of bootstrap and of the MQTT adapter, which nothing in the
repository consumes; vendored and generated code.
