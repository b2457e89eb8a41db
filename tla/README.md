# A TLA+ model of velux2mqtt

velux2mqtt connects a VELUX KLF 200 gateway, over TLS, to an MQTT broker: it
discovers the nodes and groups of the gateway, publishes retained state for them,
executes cover, group and reboot commands, and keeps both connections alive. The
modules here model its control logic from the source. TLC checks them on small
instances; TLAPS proves theorems about them for every instance. Every safety property
that a passing run checks, invariant, action property or refinement, is also a theorem;
liveness is left to TLC.

Paths below are relative to the crate (`connection.rs` is
`src/klf200/connection.rs`).

## 1. The system

| Part | State it keeps | Operations | What makes it correct |
|---|---|---|---|
| Connection actor and client (`connection.rs`) | FIFO request gate, command channel, request queue, pending request, open sessions, oneshot replies | `send`, `shutdown`, `shutdown_and_reboot`; the branches of `run_actor`; `dispatch_next`, `handle_frame`, expiry, the exit path | No caller waits for ever; a session is confirmed and ended only by its own frames; requests keep their order; Ok from a shutdown means that monitoring is off |
| Session identifiers (`types.rs`) | cursor, active set | `allocate`, `reserve`, `release` | No identifier is handed out twice; failure only when all are active; zero is never used |
| SLIP framing (`slip.rs`) | buffer, three flags | `encode`, `Decoder::push` | Intact frames come through whatever came before; nothing else does |
| Bridge task (`bridge.rs`) | gateway, setup task, cache, groups, MQTT flag | select loop, handlers of gateway and MQTT events, reconnect, shutdown | What the broker retains agrees with the bridge; it recovers; a stop is clean and is handled |
| Setup task (`bridge.rs`) | a connection in the making | `prepare_gateway`, `initialize_gateway`, `query_initial_status` | A cancelled or failed setup leaves no connection open |
| MQTT connection (`mqtt.rs`) | bounded request channel, event loop | `poll`, `publish`, `disconnect`, `parse_command` | No deadlock on the channel; the last will covers every abrupt end; retained commands are ignored |
| Home Assistant discovery (`hassdiscovery.rs`) | `known_components` | `publications` | Removed components are removed from Home Assistant |
| Nodes and covers (`veluxnode.rs`) | node cache | state updates, cover state, toggle | A cover at rest has the right state; a toggle reverses |
| Positions (`types.rs`, `veluxnode.rs`) | none | conversions | Round trips, monotonic percentage |
| Node and group discovery (`connection.rs`) | collected notifications | `discover_nodes`, `node_information`, `discover_groups` | An inventory is complete or an error |
| Frames, requests, responses (`frame.rs`, `command_id.rs`, `command.rs`, `response.rs`) | none | encode, decode, pairing of requests and confirmations | No frame panics a decoder; damage is noticed; every request is readable and its confirmation is known and typed |
| TLS, command line, errors | none after start | | |

How they interact. The bridge is a single task. Its select loop polls the MQTT event
loop, the setup task, the event channel of the connection and three timers; a handler
runs to its end before the loop selects again. A handler calls the KLF client (which
waits at the gate for the actor) and queues MQTT publications in a channel that only
`poll`, called by the same loop, drains. The connection actor is a task of its own;
it answers callers through oneshot channels and tells everybody else through a
bounded broadcast channel. The setup task has its own use of the client until the
bridge collects what it prepared.

What is hard: cancelled callers whose requests live on; late, lost and repeated
confirmations; two connections that fail and return in any order; the shutdown signal
at any point of a setup; bounded channels (requests of MQTT, events of the
connection) whose reader is busy; sessions that the KLF ends while the bridge waits
for something else. `hazards` in PROJECT.json lists each at its line with the
properties aimed at it.

## 2. Modules

| Module | Models | State and actions |
|---|---|---|
| `KlfConnection` | client and actor of `connection.rs` | One variable per field or channel. A request is a ticket (its oneshot channel). Client actions: `Send`, `Shutdown`, `ShutdownAndReboot`, `Submit`, `Resume`, `Cancel` (the future is dropped), `DropClient`. Actor actions: one per branch of `select!` and of `dispatch_next`. The gateway is a peer that answers late, never, or with noise. |
| `SerialCalls` | the promise of the actor | One queue, one request in progress, each settled at most once. `KlfConnection` implements it (`ImplementsSerialCalls`). |
| `SessionIdAllocator` | `SessionIdAllocator` | `allocate` as a loop of probes, `reserve`, `release`. |
| `KlfCommands` | the registry of `command_id.rs` | The 150 known commands, their kinds, and `expected_confirmation`, found by name as in the code. |
| `KlfFrame` | `frame.rs` | `encode`, `decode` and `checksum` on sequences of bytes. |
| `KlfRequests` | `command.rs`, `encode_fixed_string` | For each request its command, its session, what makes its encoding fail, and its payload as a length and the set of bytes of each field. |
| `KlfResponses` | `response.rs` | For each command the layout its decoder demands; `Decode` gives the variant of `Response`, an error, or a panic when a byte beyond the payload is read. |
| `Exchange` | the actor with contents, over `SessionIdAllocator` and the codecs | `Send` takes a request through `dispatch_next`; the gateway runs sessions and answers; `handle_frame` decodes, confirms or publishes; `expire_request` and `expire_sessions` let time pass; `Noise` is any frame, `Carry` a frame that may be damaged on the line. |
| `Discovery` | `discover_nodes`, `node_information`, `discover_groups`, over `Exchange` | `Begin` takes the gate and subscribes, `Ask` sends, `Receive` fills the inbox (which drops its oldest when full), `ReadAnswer` and `Collect` read; `GiveUp`, `AskExpires`, `Drop` and `Disconnect` end it early, `AskOrphaned` sends what a dropped one has left in the queue. |
| `IdPool` | the promise of the allocator | Only free identifiers are granted; refusal only when all are held. |
| `SlipDecoder` | `slip.rs` | One byte of `push` is a step; a line with stray bytes. |
| `Bridge` | bridge loop, setup task, MQTT queue, broker | A handler is one step that appends its publications to `queue`; if they do not fit, `stuck` is set, because nobody else drains it. The broker keeps retained messages, Home Assistant its entities, the client its backlog of a lost connection. |
| `Positions` | conversions of `types.rs` and `veluxnode.rs` | Operators on the raw 16-bit scale. |
| `CoverControl` | node cache, commands, refresh, session accounting | A request of the bridge spans several steps (`Send`, then `Accept`, `Reject` or `RequestExpires`, then `Confirmed` or `Refused`); events gather meanwhile in a channel that overwrites its oldest. The KLF ends and overrules commands; covers travel; a remote control interferes. |

Theorems and their lemmas are in `KlfConnectionProofs`, `KlfConnectionSafety` (which
extends it), `KlfShutdownProofs` (which extends that), `ExchangeProofs` (the allocator,
the codecs, `Exchange` and `Discovery`), `SlipDecoderProofs`, `BridgeProofs` and
`CoverControlProofs` (with `Positions`);
`SequenceLemmas` has what they share about `FlattenSeq`, `SetToSeq`, `Max`, `Min` and
concatenation. `MC*` hold constants for TLC. Operators named as mutants ("Mutant of ...") are
variants of an action with a plausible bug; the specifications do not use them. They
show that the property named beside them in PROJECT.json would notice.

Composition. `Exchange` extends `SessionIdAllocator` and the codecs, and `Discovery`
extends `Exchange`: one instance holds the allocator, the actor, the gateway and a
collecting client. `KlfConnection` has the same actor without contents, and with its
queues, callers and shutdown, which `Exchange` leaves out. `Bridge` takes from `KlfConnection` what the latter establishes: a call
returns (`EveryCallReturns`), and Ok from a shutdown means that monitoring is off
(`ShutdownIsClean`). `CoverControl` takes from `SessionIdAllocator` that an identifier
in use is not handed out, and from `KlfConnection` that a request is confirmed by its
own session (`SessionConfirmed`) and that a session ends with an event
(`NoSilentSessionEnd`). `CoverControl` and `Bridge` show two sides of the same task:
the first what is believed of covers, the second what is said of them.

## 3. Runs

Passing runs:

| Run | Properties | Bounds, and why they suffice |
|---|---|---|
| `conn_safety` | `TypeOK`, `NoLostCall`, `SessionConfirmed`, `ShutdownIsClean`, `GateOrder`, `NoSilentSessionEnd` | Two callers, two sessions, three tickets (a shutdown needs two, so a request can precede, follow or meet it), command channel of one, one noise frame. Requests that switch the monitor on compete with the shutdown. |
| `conn_live` | `EveryCallReturns`, `StreamReleased`, `ImplementsSerialCalls` | Two callers, three tickets, so that a reboot (three commands) fits; a request that is refused, one with and one without a session. |
| `exchange` | `TypeOK`, `ScanIsActive`, `ImplementsIdPool` of the allocator; `PayloadRead`, `RequestReadable`, `TypedAnswer`, `DamageDetected`, `SessionsAgree`, `OneSessionPerId`, `DiscoveryTrue` | Two identifiers (wrap-around, a full circle, any start; the theorems have every number), two frames on their way, room for two events so that a stream of three overflows it. See below. |
| `slip` | `TypeOK`, `FrameDelivered`, `NothingElse` | Every content of frames up to one byte over the limit of three, with all four special bytes and a plain one; stray bytes anywhere. |
| `bridge_safety` | `TypeOK`, `AvailabilityTrue`, `SnapshotTrue`, `RemovedIsCleared`, `StopIsClean`, `StoppedOffline` | One node, one group, two faults (one of gateway, broker or setup inside the consequences of another), one unreadable message, one change, a signal at any time. The channel has room (40). |
| `bridge_live` | `SnapshotTrue`, `SignalHandled`, `Recovers` | One node with two statuses, so that an update can be lost or come in the wrong order; one fault, one change. |
| `cover_control` | `TypeOK`, `IdsAccounted`, `RestIsKnown`, `ToggleReverses` | One cover with three positions (both ends and between), two identifiers, an event channel of two so that it overflows, two commands (one overrules the other), one remote movement, any number of failures, refreshes and reconnects. |

Runs that show a disagreement between the code and what is said of it (each is a
finding in PROJECT.json, with the line that says so):

| Run | Property | What TLC shows |
|---|---|---|
| `late_confirmation` | `OwnConfirmation` | A request without a session times out; its confirmation arrives late and answers the next request of the same command. |
| `reboot_race` | `RebootSupersedes` | The gateway confirms the reboot and drops the link before the actor is told to close; the call reports the monitor error which the reboot is said to supersede. |
| `queue_full` | `SignalHandled` | The publications of one handler exceed the request channel; the task waits for room that only it can make, and SIGTERM is not handled. The instance has a channel of 8 for 2 covers; the code has 256, which about 36 covers fill. |
| `unreadable` | `OfflineShown` | After one message that is not UTF-8, `mqtt_connected` is false on a connection that is up; the loss of the gateway is not published. |
| `stationary` | `StationaryRefreshed` | The setup query sees a cover move, it stops before monitoring is enabled, and `refresh_stationary_nodes` passes over it for ever because its cached state says closing. |

Deadlock is not checked where the system may stop: a closed connection, a stopped
bridge, a stuck bridge (which is the subject of `queue_full`), and covers at rest with
all bounds used; in `exchange`, both identifiers in use for sessions the actor lost
sight of. `SlipDecoder` never stops and is checked.

The run `exchange` asks what contents can do to the actor:

- `PayloadRead`: every known command and an unknown one, with every payload length and
  entry count at which a decoder decides otherwise (one less, equal, one more, empty
  and the maximum), with and without a session identifier, with text that is and is
  not UTF-8. No decoder panics, and no two fields of an accepted payload share a byte
  or leave one unread.
- `RequestReadable`, `TypedAnswer`: every request variant, with 0, 1, 20 and 21
  targets, repeated targets, texts around their limits and priority settings in and
  out of range, is refused or is written so that it can be read, and its confirmation
  ends it with a typed response. The registry finds confirmations by name because
  `GW_GET_MULTIPLE_ACTIVATION_LOG_LINES_CFM` is not the number after its request.
- `DamageDetected`: short payloads of every content and payloads of 251 to 253 bytes,
  whole, with one byte changed, lost or added.
- `SessionsAgree`, `OneSessionPerId`: requests that open sessions, with the identifiers
  the allocator hands out and the client releases at any time.
- `DiscoveryTrue`: the three collectors, with no, one or two objects (`MCInventories`), other
  notifications in between, an unreadable frame, lag, timeouts and cancellation.

### Abstractions

- `KlfConnection`: command and status requests stand for all that open a session;
  time is a choice (a deadline may pass whenever something is pending); `write_all`
  completes or fails. A dropped call is one of `send`; the bridge drops no future of
  `shutdown`. `Sends` in `conn_safety` leaves out plain requests that disable monitoring
  or reboot: with them `ShutdownIsClean` holds only if callers enable as the bridge does
  (`ShutdownsAreClean`, section 4).
  `DispatchRe` has one error for a request that cannot be encoded or has no confirmation.
- Codecs: of a payload the models keep its length, the bytes of each field, the count
  of entries, the byte that selects a layout, the session, the status and whether text
  is UTF-8; what other fields mean is left out. `protocol_id` is always the KLF's.
- `Exchange`: one request is unanswered at a time and the allocator steps between
  requests. All request variants, the noise frames and the damaged frames come while
  nothing is open and no identifier was handed out (`Quiet`, `Fresh`); with sessions
  open, the requests are those of `Crowd`: every way to accept and to end a session. A
  raw request carries a command without a session. The gateway accepts a session even
  if it already runs one of that identifier. `stale` marks identifiers whose session
  the actor lost sight of (a timeout, an unreadable confirmation): `SessionsAgree` and
  `OneSessionPerId` leave them out and they are not used again.
- `Discovery`: what an earlier operation left behind may be a queued, pending or
  unanswered request or notifications still to be sent, but at the start of an
  operation none is in the reader's channel. Operations do not overlap with open
  sessions. Other notifications come during operations that `DiscoveryTrue` is about.
  At most one dropped request waits in the queue. A lost connection takes everything
  that is on its way with it.
- `SlipDecoder`: one plain byte stands for all that have no meaning for the framing.
- `Bridge`: the four status topics of a node are one, the two subscriptions are one
  request, discovery is one message. In the passing runs the channel does not fill.
  Gateway setup is five stages; what each sends is in `CoverControl` and
  `KlfConnection`. Reconnect delays are left open: a reconnect may come at any time. The
  request channel is empty when a connection begins, so the subscriptions in `poll`
  never wait for room. An error of the signal handler itself is left out.
- `CoverControl`: every node is controllable; other nodes are neither commanded nor
  queried. The group is the group of all nodes. A session identifier is not reused
  while a trace of it is left: the cursor passes 65535 of them first. The KLF drops
  the sessions of a lost connection. Events that only take room in the channel
  (remaining times, unexpected responses) are left out, as the channel of two
  overflows without them. A run status is of the main parameter, the only one that
  commands set, and says completed or failed. `unseen` marks covers that moved while nothing could report
  it; `RestIsKnown` and `ToggleReverses` leave them out and `stationary` is about them. `leaked` marks
  session ends that were overwritten during setup, which the code forgets until the
  next connection.
- `Positions`: `Unknown` is -1 where the code has `None`.

### Fairness

- `KlfConnection`: weak fairness of the actor's branches and of callers in a call
  (tokio keeps scheduling tasks that are ready; `select!` chooses at random among
  ready branches), of the expiry of a pending request (the tick interval always fires)
  and of closing (bounded by a timeout). None for the gateway.
- `Bridge`: weak fairness of the setup task (its calls return, see above; the query
  has a timeout), of the branches of the loop, and of the broker, which is reachable
  again and reads. None for failures, commands or the signal.
- `CoverControl` (for `stationary`): weak fairness of the bridge's steps and of the
  KLF and covers, strong fairness of the refresh timer, which fires again and again
  while the loop has other branches ready. The property is refuted even so.

## 4. Proofs

Every theorem holds for all values of the constants that satisfy the assumptions
beside their declarations, and the proofs add none. The assumptions are types and
bounds; that callers, nodes, groups and identifiers are finitely many; that nodes and
groups do not share a topic name (`IdsAssumption` of `Bridge`); and that the marks for no
session and for an absent node are no session and no status (`SessionIdsAssumption`,
`StatusAssumption`). TLC evaluates
them in every run.

Five more assumptions have no constant in them: `SessionTables`, `LayoutTables`,
`RequestTables` and `AnswerTables` of `Exchange` and `StreamTables` of `Discovery`. Each is a
closed fact about the tables of the registry, the encoders and the decoders (the
confirmation of each request that opens a session has a decoder of a fixed length; in
every layout the fields lie on bytes of their own; and so on), of which there is one value.
To evaluate such a fact over 150 commands is TLC's work, and it does so completely in the
run `exchange`; the provers take it from there.

The inductive invariants of the connection, the framing, the bridge and the covers were
checked with TLC on a small instance before they were proved. Those of `ExchangeProofs`
quantify over scripts and sets of frames that TLC cannot enumerate; what TLC has checked
there is what follows from them.

### Connection

`KlfConnectionProofs`: `TypeCorrect` and `NoCallIsLost`. `NoLostCall` is not inductive.
The invariant `Inv` adds who holds the gate (`GateHolds`: only the holder waits), where
each call is and which tickets it has reserved (`CallShape`), that calls share none
(`Disjoint`), that a reserved ticket is untouched until its turn (`FutureFree`), that a
waiting caller's channel is not abandoned (`Listening`), and what is empty once the
actor has stopped (`Stopped`). The steps of the actor and the gateway are all instances
of one relation (`Serves`: tickets leave the queues only with an answer), which is shown
to keep `Inv` once; the steps of callers are treated one by one.

`KlfConnectionSafety`, all from `Inv`:

- `OnlyItsSessionConfirms` (`SessionConfirmed`). A late confirmation carries the ticket
  of an old request; `ConfirmInv` says that every ticket in a frame or an answer has had
  its turn (`TracesPast`), so that what was asked with it no longer changes.
- `SessionsEndReported` (the action property `NoSilentSessionEnd`). It needs that the
  session of a pending request is not open (`PendingUnopened`): otherwise the expiry of
  the request would take an open session with it.
- `WrittenInGateOrder` (`GateOrder`). `OrderInv` adds the order of the gate itself
  (`GateAscends`), and that everything underway is older than every call that has not
  submitted (`Trails`).
- `Implementation` (`ImplementsSerialCalls`): every step of `KlfConnection` is a step or a
  stuttering step of `SerialCalls` under the mapping in `KlfConnection`.

`KlfShutdownProofs`: `ShutdownIsClean` is not a property of `KlfConnection` for every set
of requests. If a plain request switches monitoring off and is given up, and another
task switches it on again, the late confirmation of the first can answer the disable of
a shutdown (the confirmation names no request; see `late_confirmation`), and the
shutdown reports Ok for a disable that the gateway has yet to read. Two theorems say
when it holds:

- `OnlyShutdownsDisable`: if requests that callers `Send` neither disable monitoring nor
  reboot, which is the environment of `conn_safety`;
- `ShutdownsAreClean`: for every set of requests, in behaviours in which no enable is
  submitted while a disable, a reboot or its confirmation is underway
  (`EnablesWhenQuiet`). The bridge behaves so: its only plain disable is that of
  `initialize_gateway` (`bridge.rs:870`), which is awaited and whose failure ends the
  setup before it enables monitoring. The hypothesis is about what the callers do; it
  does not mention shutdowns, answers or the monitor.

`CloseServedLast` has the part that needs no hypothesis: a shutdown keeps the gate from
its first confirmation on, and its close is the last command that is served. `OffInv`
then follows the word off along its way: queued, confirmed, noted by the call, returned.

### Session identifiers

`ExchangeProofs`, for every `MaxId`: type correctness, `ScanIsActive` and the refinement of
`IdPool` (`Refinement`), of the allocator alone and inside `Discovery` (`AllocatorInside`). The
invariant relates the cursor to the start of the scan and the number of probes; that a
scan of `MaxId` probes covers the circle is the lemma `FullScan`.

### Framing

`SlipDecoderProofs`: `TypeCorrect`, `FramesDelivered` and `NothingElseReported`, for
frames of every length and content, every maximum length and every sequence of stray
bytes. `Rest(f, k)` is the encoding of `f` after its first `k` bytes; the lemma `RestBytes`
gives its first byte and what is left after it. The invariant (`InStep`) says where the
decoder is: before the first END, with `k` bytes in the buffer and `Rest(sent, k)` on the
line, behind an ESC, discarding, or done.

### Frames and codecs

`ExchangeProofs`, without bounds on contents:

- `FrameIntegrity`: every frame with a payload of up to 252 bytes is decoded to itself, and
  is refused with any byte changed or with bytes lost or added behind the length byte.
  A bit of the checksum is the parity of that bit over all bytes (`Parity`), so that a
  changed byte changes the parity of some bit (`ParityChanges`). `DamageCaught`
  (`DamageDetected`) is what the run has of it.
- `EveryFrameRead`: whatever the command, the length, the count and the byte that selects a
  layout, a decoder reads inside the payload; of a payload it accepts every byte goes into
  one field. It rests on `LayoutTables`, and on the slots of an entry list being disjoint for
  every number of entries (`Slot`, `EntriesSpan`). `PayloadsRead` (`PayloadRead`) applies it to
  what the actor handles; `QueueInv` says that lengths and counts on the way are numbers.
- `EveryRequestReadable`: a request with any number of targets and any four priority
  settings that `CommandTarget::new` and the encoder let pass is read as it was meant; the
  settings are unpacked again (`PackUnpack`). `RequestsReadable` (`RequestReadable`) applies it to
  what the actor writes.
- `AnswersTyped` (the action property `TypedAnswer`): the confirmation of the pending request
  is the one the actor waits for, can be read, and ends it. `AnswerInv` says that a pending
  request has a confirmation and names its session, and that every frame on its way is well
  made while anything is pending: noise of any content arrives only when nothing is, and
  it is gone before a request is sent (`Alone`).

### Sessions

`SessionsAgree` and `OneSessionPerId` follow from one invariant, `SessionInv`, for any number of
identifiers and of frames on their way. Either nothing has to do with sessions (`Apart`: a
discovery, or a request without one, is going on) or nothing has to do with anything else
(`Together`), and then `Agrees` holds for each identifier that is not stale: at most one session runs or one end
is on its way, and at most one answer is (`Single`); a request that waits leaves
nothing of an earlier session (`Waits`); an answer that accepts is of the pending request
and the session is open, its end behind the answer (`Answered`); and a tracked session is
open (`Tracked`). The proof has a lemma for each thing that can happen to one identifier
(`AgreesDispatch`, `AgreesAnswer`, `AgreesFinish`, `AgreesConfirmed`, `AgreesEnded`) and one for what
happens to all others (`AgreesOther`).

### Discovery

`DiscoveriesTrue` (`DiscoveryTrue`), whatever nodes or groups the gateway has and however many
(`Inventories`), for every capacity of the event channel and any number of frames on their
way. What the gateway tells an operation is a script: the confirmation,
a notification about each object, the end. `Carries(q, a, b, S, N)` says that the queue `q`
holds the elements of the script `S` after the first `a` up to the `b`-th, in their order, with
only elements of `N` (what belongs to nobody) in between. The invariant (`FindInv`) tells
how far an operation has come that began with nothing outstanding (`Tale`): what it has
read, what is in its inbox unless it has lagged, what is on its way and what the gateway
has still to send make up the script. Such an operation has no orphaned request beside it.

### Bridge

`BridgeProofs`: all six invariants of `bridge_safety`, for every finite set of nodes and
groups, every channel capacity and any number of faults.

- `StopsClean`: `Owners` says which party holds the open connection in each phase and
  stage of the setup.
- `AvailabilityIsTrue`, `StopsOffline`: what the broker retains is out of date as long as
  something is queued. The invariant (`AvailabilityInv`) is therefore about what the
  broker will retain once everything waiting has been delivered (`Promised`, the last
  message about a topic), and `Settled` makes the two equal. It also has the last will
  (`WillPublished`) and the farewell (`FarewellPromised`).
- `SnapshotIsTrue`: the same for every topic of a cached node or group (`SnapshotInv`). A
  snapshot's messages have distinct topics, so that each is the last about its own.
- `RemovedIsGone`: for topics of absent nodes and groups (`ClearedInv`) and for Home
  Assistant's entities (`EntitiesInv`), which follow the last discovery message that is
  about them, and the component set that the bridge compares with (`KnownInv`).

### Covers

`CoverControlProofs`: all four invariants of `cover_control`, for every finite set of
nodes, any identifiers and positions, any channel capacity, and any number of commands
and remote movements; TLC has one node and two commands.

- `TypeCorrect` needs the types of what is in the channel, in the running sessions and in
  the request in progress (`Typed`).
- `NoIdIsLost`: unlike `IdsAccounted`, `Accounted` covers a setup whose channel lags, and
  counts the identifier of a request only until it is accepted; `PhaseInv` says which
  requests belong to which phase.
- `RestingIsKnown`, `TogglesReverse`: the last event about a node that is in the channel
  decides what the bridge will believe of it (`Heard`). The invariant (`CoverInv`, theorem
  `CoversKnown`) says that it will be right for every node that no session works on, about
  its position and, if it says that the node moves, its target (`RunInv`); that a command
  which was accepted but not yet marked in the cache still runs, or its end is still to be read (`AcceptedInv`: `mark_command_accepted` comes
  after the confirmation and must not have the last word); and that the setup hears of a
  node only what it asked for (`SetupInv`).

For every 16-bit value, `RawRoundTrip` (`to_raw` undoes `from_raw`), `PercentRoundTrip`,
`OpenPercentFalls` (the percentage at MQTT never rises as a cover closes) and
`ZeroMeansClosed` (0 percent means closed up to the half percent that rounding gives
away; the state topic, derived from the exact value, may still say open there).

### Induction over data

The library's induction theorems take an operator as a parameter, which the provers
cannot instantiate. `SequenceLemmas` avoids them: `Smallest` (a set of numbers that is not
empty has a smallest element) follows from the well-foundedness of the numbers, and
`Induction` is stated of a set instead of a predicate. With it `FlattenSeq` and the
sequences made from sets are characterised for every length.

### Only model-checked

- Liveness (`EveryCallReturns`, `StreamReleased`, `SignalHandled`, `Recovers`): the prover
  has no support for fairness and `ENABLED`.
- The properties of the runs that expect a violation.

## 5. Not modelled

- What the fields of a request or response mean (sets of actuators and beacons, times,
  names, enumerations), and `Debug` texts: the repository's tests compare them with
  golden frames, and no control depends on them.
- A discovery that meets the notifications of a cancelled one: `DiscoveryTrue` leaves it
  out, because the code has no means to tell them apart. `Discovery` has the behaviour
  (`clean` is FALSE for such an operation), and says of it nothing but the other
  properties.
- In `bridge.rs`, the requests for group members that the list of nodes omits: the setup
  of `Bridge` takes discovery as one step.
- TLS and certificates, command line, logging, error texts: no protocol state.
- Topic names, JSON documents, names and placement of nodes, remaining times and
  freshness: data that no property distinguishes.
- A write to the KLF that never returns: `write_all` has no timeout, and a peer that
  stops reading would block the actor. The fairness of `KlfConnection` excludes it.

## 6. Plan

Done: the modules above, their runs, and the proofs of section 4.

What would come next:

1. Two covers in `cover_control`, so that a refresh overflows the channel by itself and a
   group command is overruled in part; the theorems already have every number.
2. Group members that the list of nodes omits, requested one by one after `Discovery`.
