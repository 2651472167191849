# coriolis-logger: a TLA+ verification project

coriolis-logger is a small syslog server written in Go. It receives syslog
messages, stores them in InfluxDB, streams them to web socket clients and
serves them for download. This directory holds TLA+ models of all its
parts, TLC configurations that check them on small instances, and TLAPS proofs
of their main safety properties. Paths below are relative to `src/`.

## 1. The system

| Part | Source | State | Operations |
|---|---|---|---|
| Hub | `writers/websocket/websocket.go` | map of clients; `register`, `unregister`, `broadcast` channels | `run` loop, `Register`, `Write`, `Stop`, a goroutine per client and message |
| Client | `writers/websocket/client.go` | connection, `send` channel, filter options | `clientReader`, `clientWriter`, `ShouldSend` |
| Data store | `datastore/influxdb/influxdb.go` | mutex, buffer of points; the InfluxDB database | `Write`, `flush`, `doWork`, `Rotate`, `List`, `ReadNext`, `Stop` |
| Syslog worker | `syslog/syslog.go` | unbuffered channel shared with go-syslog, Unix socket file | `Start`, `doWork`, `Stop`, `cleanStaleSocket` |
| Aggregate writer | `logging/logging.go` | list of writers | `Write` |
| Message conversion | `logging/syslog.go` | none | `SyslogToLogMessage` |
| main | `cmd/coriolis-logger/main.go` | context, signal channel | start, signal, wait, exit |
| API server | `apiserver/apiserver.go`, `apiserver/routers` | listener, HTTP server, key pair | `GetAPIServer`, `GetRouter`, `Start`, `Stop` |
| Controllers | `apiserver/controllers` | temporary files, one response per request | `WSHandler`, `DownloadLogHandler`, `ListLogsHandler` |
| Authentication | `apiserver/auth` | `auth_details` of a request | token check against Keystone |
| Configuration | `config`, `datastore/datastore.go` | configuration | validation, choice of the data store |
| stdout writer | `writers/stdout` | none | `Write` |

How they interact. go-syslog's handler goroutines send parsed messages to an
unbuffered channel; the syslog worker receives them, converts them and calls
the aggregate writer, which calls the data store, optionally stdout, and the
hub in turn. The data store only appends to a buffer; a worker goroutine
flushes it on a ticker and deletes old logs on another. The hub's `Write` puts
the message into a channel; `run` takes it out and starts one goroutine per
interested client, which puts it into that client's `send` channel, closing the
channel and deleting the client from the map if that takes five seconds. An
HTTP request connects a client (through `register`) or downloads a log (through
a reader that flushes the buffer, queries and reads chunks); before that the
middleware has asked Keystone about its token, and the handler decides from the
details left in the request's context. A signal makes main cancel a context
that all loops watch.

What is hard: the unsynchronised accesses to the hub's map and to a client's
options; `send` channels that two goroutines may close and a third may send
on; register and unregister requests that travel through different channels;
failed and partial flushes that are retried; rotations and downloads that run
beside writes; a shutdown in which the parts leave at different moments;
handlers that answer an error and go on; checks made long before, and far
from, the code that relies on them.
`PROJECT.json` lists these as hazards, with the line and the properties.

What makes each part correct, in one line each:

- hub: a client that leaves the map has its channel closed, and a closed channel
  is not reachable through the map; nothing is sent twice, or outside the
  filter; a message is delivered or the connection ends; a client that leaves
  is cleaned up;
- data store: nothing accepted is lost before it expires, nothing is deleted
  early, the buffer is bounded, `Write` returns, a download is complete;
- daemon: every writer is called, a shutdown ends, the socket a crash left does
  not prevent the next start, no field that a message lacks panics it;
- API: no log line without an admin token, a download that looks complete carries
  what its reader returned, no temporary file left, every request answered.

## 2. Modules

| Module | Models |
|---|---|
| `ClientFilter` | `ShouldSend`, the options from a request and from a JSON update, torn reads. Pure operators |
| `Hub` | hub, clients and their goroutines. Extends `ClientFilter` |
| `Duration` | `time.Duration`: products that wrap around in an int64. Pure operators |
| `LogStore` | what a data store promises: an atomic set of points. Abstract |
| `InfluxDatastore` | the data store and the downloads; implements `LogStore`. Extends `Duration` |
| `Config` | the configuration, its validation, the choice of the data store. Pure operators |
| `SyslogMessage` | the conversion of a parsed message. Pure operators |
| `Logger` | main, syslog worker, aggregate writer; extends `Config`, `SyslogMessage` and `Duration` and composes the daemon with short stand-ins for store, hub and API server |
| `ApiServer` | start of the API server, authentication, the handlers. Extends `Config` |
| `MCHub`, `MCDatastore`, `MCLogger`, `MCApiServer` | constants for TLC |
| `HubProofs`, `DatastoreProofs`, `LoggerProofs`, `ApiServerProofs` | theorems and proofs |
| `RangeFacts` | lemmas on the range of a sequence that the proofs share |

### Hub

One variable per piece of Go state (`clients`, `register`, `send`, `options`,
...), and the position of each goroutine: `hub`, `cur` and `todo` for `run`,
`writing` for the caller of `Write`, `handler`, `reader` and `writer` per
client, `sender[c][m]` for the goroutine that sends m to c. Channels are bounded
sequences; a goroutine blocked on a full `send` is `"parked"`, and its value
enters the channel in the step of the receive that makes room, as in the Go
runtime. Steps of `run` are one select case each, the range loop one iteration
each (entries deleted meanwhile are skipped, as Go specifies). An unregister
request takes two: `HubUnregister` deletes the entry, `HubClose` closes the
channel of the client in `closing`, and a timed out sender, which does the same
in the opposite order (`SenderClose`, `SenderDelete`), may run in between. The module is
built with Go 1.22 (`go.mod`), so the goroutine captures the client of its own
iteration.

Panics are part of the model: a send on a closed channel, a second close, the
runtime's detection of concurrent map accesses and a nil dereference set `panic`,
which disables everything. The unsynchronised read of `c.options` may combine the
two words of the old and the new value in any way (`TornReads`), and as
`ShouldSend` reads a pointer once to test it and once to follow it, it may follow
one that has become nil in between (`TornNil`, `HubVisitNil`). A web socket connection is
open or closed; reads and writes may fail at any time, and fail for certain
once it is closed.

Left out: the content of messages and pings that succeed; the schedule in which
a goroutine is not run for the five seconds between the creation of its timer
and its select.

### InfluxDatastore

Goroutines: the single caller of `Write` (the syslog worker), `doWork`, and one
per download; `pc` holds where each is. The database is a set of points with
one point per key (measurement, tags, time), as InfluxDB has; `Store` is the
effect of a batch, of which a failed request may store any part. Every database
call may fail; errors that the database reports inside a result are ignored
where the code does so (`RotateSkip`, `ReadErrIgnored`). `Write` reads the
length of the buffer without the mutex, as the code does. Time is a bounded
clock, `Day` its ticks in a day. The limit of a rotation is the time of day plus
`NegRetention`, what an int64 holds of minus the retention period.

Database and points are external: modelled from how the code uses them.

`LogStore` is the abstract specification: a clock and a set of points that
changes when a `Write` is accepted (the point replaces the one with its key) and
when a rotation forgets points older than the retention period. The refinement
mapping takes for its contents `Store(db, points, DOMAIN points)`, the database as
the next successful flush would leave it. Under it a flush, whole, partial or
failed, is a stuttering step; that a failed flush followed by newer writes and a
retry stays one is the point of the refinement. It holds for every
`log_retention_period` whose nanoseconds fit a `time.Duration` (`RetentionFits`),
negative ones included (everything has expired); above 106751 days the product
wraps around and the limit may lie in the future, which the run
`datastore_retention` shows.

### Config and SyslogMessage

Configurations are records with the fields of the Go structs; a URL is what
`net/url` makes of it, a file name stands for a file that is good, bad or absent,
and an address for what `os.Stat` finds there. Each `Validate` is an operator,
TRUE for no error. A message is the set of field names go-syslog found in it;
`SyslogToLogMessage` says whether it is refused, converted, or read at a field
that is not there, which panics.

Two things seen on the way that no module is about: the keys `verify_server`,
`client_crt` and `client_key` of the sample configuration do not match the
untagged fields `VerifyServer`, `ClientCRT` and `ClientKey`, so they are ignored;
and an invalid `severity` of a request is logged as ignored, but becomes 0
(`ClientFilter` has it).

### Logger

main's program counter, the worker's, the handlers' (`inhand`), the channel's
closing, the socket file, which outlives the process, what `Stop` returned, and
the ways a process ends: returned, failed to start, panicked, `log.Fatal`. A
process starts with one of `Configs` and anything at the address of the socket,
and goes through main's checks in their order: `NewConfig`, `GetDatastore`,
`NewSyslogServer`. Listening may fail, and so may every removal of the socket,
at the start (`StartSyslogFails`) and at the stop, where `s.closed` is closed all
the same (`StopClean`). The data store's goroutine may panic in `time.NewTicker`
at any moment after its start, if the configured seconds are not a positive
`time.Duration` (`StoreTicker`). `Restart` begins a new process, perhaps with
another configuration, and what survives. Store, hub and API server appear only
as a `Write` that may fail or wait, a loop that leaves on cancel and requests
that come and go; their own modules have the rest. The hub's senders may panic
whenever a message has been taken while clients may be connected (`HubPanic`);
that way to end, `"hubPanicked"`, is told from the others because when and why
is `Hub`'s subject.

### ApiServer

`srv` is where the start of the server is. The configuration is validated, the
router built (with the nil pointer that `getKeystoneAuthenticator` would follow),
the key pair checked again and read once more by `ServeTLS`, while somebody may
be replacing it (`FilesChange`). Each request is a record: where its goroutine
is, what it asked for, the `auth_details` of its context, the status that was
sent (net/http keeps the first), and how much of the log was read and sent.
`temps` holds the temporary files. Every call to Keystone, the data store, the
file system and the client may fail; a response whose writing failed is `cut`.
The reader of a log is a number of chunks followed by EOF, and an error at any
call; what it returns is `InfluxDatastore`'s subject, what becomes of a web
socket after its registration `Hub`'s.

## 3. Runs

| Run | Config | Checks | Instance |
|---|---|---|---|
| hub | `MCHub.cfg` | `TypeOK`, `ClosedNotRegistered`, `NoDuplicates`, `DroppedMeansClosed` | 2 clients, 2 messages, all interleavings (symmetric) |
| hub_live | `MCHubLive.cfg` | `FilterRespected`, `DeliveredOrCut`, `DisconnectCleansUp` | 1 client that changes its filter, 2 messages its filters tell apart, fair |
| datastore | `MCDatastore.cfg` | `TypeOK`, `NewestKept`, `DownloadComplete`, `RetentionRespected`, `ImplementsLogStore` | 4 messages: 2 collide, 1 cannot be encoded, 1 the database refuses; 1 download in chunks |
| datastore_live | `MCDatastoreLive.cfg` | `BufferBounded`, `BufferedIsStored`, `ExpiredIsDeleted`, `WriteReturns`, `StopEndsWorker` | 2 messages of 2 logs, buffer of 1, fair |
| logger | `MCLogger.cfg` | `TypeOK`, `RestartFindsAddressFree`, `ExitLeavesNoSocket`, `EveryWriterCalled`, `OnlyHubPanicsWhileServing`, `ShutdownCompletes` | 2 handlers, 3 messages (1 without some of its fields), 3 writers, 1 request, 10 configurations, 1 restart, fair |
| api | `MCApi.cfg` | `TypeOK`, `LogsNeedAdmin`, `NamesNeedToken`, `ReadIsSent`, `InvalidDateIs400`, `NoTempLeft`, `StartNeverPanics`, `RequestsEnd` | 2 requests of 10 kinds, 2 users, 9 configurations, logs of up to 2 chunks, fair |

Runs that TLC refutes, each showing where the code departs from what the
repository says of it:

| Run | Property | What happens |
|---|---|---|
| hub_listener | `ListenerSeesMessage` | a client disconnects while a goroutine is about to send to it: send on a closed channel, the process dies and the other listener never sees its message (README: "you should now see the log message on your screen") |
| hub_unregister | `UnregisteredIsGone` | `run` takes the unregister request first, ignores it, then registers a client that is gone; the entry stays until the client's channel is full and a timed out sender deletes it |
| hub_level | `LevelChangeTakesEffect` | the tag `json:"omitempty"` renames the member: a client cannot change its level with "Severity" ("The client can at any time change the log level") |
| datastore_retention | `RetentionRespected` | `log_retention_period` times a day overflows an int64: the limit of the rotation lies in the future and everything is deleted ("Logs older than this, will be deleted") |
| logger_graceful | `ShutdownIsGraceful` | `Stop` closes the channel go-syslog's handlers send on and the process panics ("shutting down gracefully") |
| api_noauth | `AnyoneCanView` | with `auth_middleware = "none"` there are no `auth_details`, and `canAccess` forbids every download ("Anyone can view your logs!") |

`ShutdownIsGraceful` has a second way to fail that this run, which has no
requests, does not show: `Shutdown` makes `Serve` return `ErrServerClosed`, and
`log.Fatal` then ends the process under the requests `Shutdown` waits for
(action `ServeFatal` with `api = "closing"`).

Bounds. Channels of capacity one reach every full, empty and parked case with
two messages; two clients are needed for one to disturb the other. The data
store runs have two colliding messages, or two of two logs, a buffer of at most
two, and a clock that lets messages expire before, during and after a rotation.
A day is one tick there; a `MaxDuration` of 3 holds the retention periods of the
passing runs, and not the 6 days of `datastore_retention`, whose negation wraps
around to 2. In the logger runs a second is 2 and a `MaxDuration` of 7 makes the
interval 4 overflow.
The logger runs have two handlers, so one can be blocked while the other is
served, a hub channel that one message fills, and one restart; one configuration
works, and each of the others fails at another check, or panics the store's
ticker before the last of the checks. The API run has, for each
decision of the handlers, a request on either side of it; logs of none, one and
two chunks tell the first chunk from the later ones. The proofs (below) remove
the bounds for all the safety properties.

Deadlock checking is off: the numbers of messages, clients and restarts are
finite, and the process may end, so behaviours that stop are legitimate.
Whether something that must happen does is what the liveness properties say.

Fairness (`FairSpec`). Goroutines that can run do (weak fairness). A `select`
picks among its ready cases at random, so a case that is ready again and again
is taken (strong fairness); the same holds for a goroutine waiting for a mutex,
which Go's starvation mode hands over. Timers and tickers fire. A write to a web
socket ends within `writeWait`. A handler of a request runs on: Keystone, the
store and the client answer or fail. For `BufferedIsStored` and `ExpiredIsDeleted`,
the database does not fail for ever. The environment (connections, messages,
failures, requests, signals, restarts) is never fair. One caveat:
`client.HTTPConfig` sets no timeout, so "a database call returns" is an
assumption about the database and the network, not a consequence of the code.

Each property of a passing run has a mutant (`PROJECT.json`): a definition
changed as a plausible bug would, under which TLC finds the property violated.
The mutants stand just before the definition they change.

## 4. Proofs

Every invariant, action property and refinement that a passing run checks is also
a theorem. The theorems hold for every value of the constants that satisfies the
assumption of its module: any set of clients, messages, handlers, requests,
tokens, roles and configurations, every capacity, retention period and number
of restarts, and logs of any length.

| Assumption | What it asks |
|---|---|
| `HubAssumption`, `DatastoreAssumption` | capacities and thresholds are positive, constants have their types |
| `DurationAssumption` | the largest Duration is a natural number |
| `LoggerAssumption` | a message has fields go-syslog knows, configurations are of the type the TOML decoder fills, a second is a positive Duration, the hub's channel has room for one message |
| `ApiServerAssumption` | configurations, requests and roles have their types, the missing token is not a token, a log may have a chunk |

`HubProofs`. The inductive invariant `HubInv` is `TypeOK` with

- `RegisterInv`: a client enters the register channel once, and until it is
  taken from it the hub has not seen it (no map entry, no goroutine, open
  channel). Needed because otherwise a client could be put back into the map
  after its channel was closed;
- `BroadcastInv`: a message is in one place on its way to the loop, and the loop
  has started no goroutine for the clients it has yet to visit;
- `CloseInv`: a goroutine about to delete a client has closed its channel, and the
  client `run` is about to close is no longer in the map;
- `StreamInv`: what is in a client's channel or was delivered was sent by a
  goroutine that has finished, once;
- `OptionsInv`: the options in force and those being stored were asked for;
- `ClosedNotRegistered`, `DroppedMeansClosed` and `FilterRespected` themselves.

From it follow `ClosedNeverRegistered`, `NeverDuplicated`,
`FilterAlwaysRespected` and `DroppedOnlyWhenClosed`. The last has two arguments,
one per path out of the map: what `run` deletes is in `closing` until `HubClose`,
and what a timed out sender deletes is closed by `CloseInv`.

`DatastoreProofs`. `StoreInv` is `TypeOK` with

- `RoomInv`: when `Write` is about to append there is room, although it tested
  the length without the mutex: everybody else only shortens the buffer;
- `SuffixInv`: the buffer is the end of the sequence of accepted points, so a
  retry writes the newest point of every key last;
- `CutoffInv`: the limit of a rotation lies at least as far back as `NegRetention`
  says;
- `ReadersInv`: what is known of a reader after its flush and after its query;
- `BufferBounded` and `NewestKept` themselves.

From it follow `BufferNeverOverflows`, `NewestNeverLost`,
`DownloadsAreComplete` and `RetentionAlwaysRespected`.

`StoreImplementsLogStore` is the refinement, `Spec => LS!Spec`. It and
`RetentionAlwaysRespected` have the hypothesis `RetentionFits`: without it they are
false, as `datastore_retention` shows. Its lemmas say how
`Store` composes: writing a part of the buffer first changes nothing about
writing all of it after (`StoreAbsorbs`, because the parts keep the buffer's
order), appending to the buffer is an `Accept` (`StoreAppend`), and deleting from
the database removes nothing else from the contents (`StoreDelete`). `CutoffInv`
makes the deletes of a slow rotation a `Forget` at the time they happen.

`LoggerProofs`. `LoggerInv` is `TypeOK` with

- `PhaseInv`: where main is, where the worker is and how far its `Stop` has come
  agree. Even `TypeOK` needs it: the worker that `StartSyslog` starts has no
  message in hand only because it was off before;
- `SectionInv`: the data store's worker runs only with an `influxdb` section, so
  the write interval that `time.NewTicker` panics on is one that was read;
- `SocketInv`: a `Stop` that is done and has left the socket has returned an
  error, and nobody makes the socket again;
- `WritersInv`: while a message is being written, a writer is still to be called
  or has an outcome;
- `RestartFindsAddressFree`, `EveryWriterCalled` and `OnlyHubPanicsWhileServing`
  themselves.

From it follow `AddressAlwaysFree`, `SocketGoneAtExit`, `WritersAlwaysCalled` and
`OnlyHubEverPanics`. The last rests on `IntervalFits`, that seconds whose product
fits make a positive Duration, and on `ConversionNeverPanics`, a theorem
about the operators of `SyslogMessage`: `validateMessage` asks for every field that
the conversion then reads, for any set of fields a parser may find. For the
invariants that most actions leave alone, the frame lemmas (`FrameNext`) say once
which actions touch which variables.

`ApiServerProofs`. `ApiInv` is `TypeOK` with

- `ServerInv`: beyond `Validate` the authentication settings are valid, and from
  the end of `GetAPIServer` on the middleware is there if and only if they ask
  for it. This is what lets a check in `config.go` protect a pointer that
  `auth.go` follows;
- `RequestsInv`, three facts about each request. `ProgressOK`: a handler that was
  not reached has written nothing, and no more is sent than was read.
  `AccessOK`: the details in the context are those of a token that Keystone
  accepted, and without an admin role no handler gets as far as a log.
  `DownloadOK`: the status and the counters at each step of a download, and of
  one that has ended;
- `TempsInv`: a temporary file is that of a download that has it open.

What each step makes of a request is a lemma about one record (`ReturnOK` to
`CutOK`); `Keep` lifts them to the server, whose other requests do not change. From
`ApiInv` follow `LogsOnlyToAdmins`, `NamesOnlyWithToken`, `ReadAlwaysSent`,
`InvalidDatesAre400`, `TempsNeverLeft` and `StartDoesNotPanic`. A token that expires
after it was accepted needs no clause: the handlers decide from the details in
the context, and the theorem speaks of a token Keystone accepted once.

The inductive invariants of the four modules also hold on the instances of the
runs, checked by TLC.

Model-checked only: the liveness properties (`DeliveredOrCut`,
`DisconnectCleansUp`, `BufferedIsStored`, `ExpiredIsDeleted`, `WriteReturns`,
`StopEndsWorker`, `ShutdownCompletes`, `RequestsEnd`). They depend on fairness, which
this version of the proof system does not reason about.

## 5. Not modelled

Formatting, the wording of logs and errors, the InfluxDB query text beyond the
condition it expresses, path matching, and the copying of a message's values
from one struct to another are abstracted. `writers/writers.go` is a constructor
that nobody calls. go-syslog, gorilla/websocket, net/http, crypto/tls, the TOML
decoder, Keystone and InfluxDB are external: what they may do is taken from how
the code uses them.

Hazards without a property, and why, are in `PROJECT.json`: the order of the
messages a web socket client receives, clients that wait for a hub that has
stopped, points still buffered at a stop, a signal that arrives before main waits
for one, and a key pair replaced during the start are modelled, but nothing in
the repository says what should hold.

## 6. Plan

All parts are modelled and all safety properties proved. What is left:

1. the stand-ins of `Logger` for the hub, the store and the API server shown to
   be abstractions of `Hub`, `InfluxDatastore` and `ApiServer`: their `Write`, their
   leaving on cancel and their requests as refinements;
2. lemmas about `ClientFilter` and `Config` that a reader of the code would look
   up (what a torn read may let through, what a validated configuration
   guarantees).
