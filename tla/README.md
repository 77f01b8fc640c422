# Verification of ha-silverline

TLA+ models, TLC runs and TLAPS proofs for `ha-silverline`: the `pysilverline`
client library (asyncio, Tuya LAN protocol v3.3, v3.4 and v3.5) and the Home
Assistant integration `poolex_silverline` built on it. File names below are
relative to the repository; `client.py` is
`pysilverline/src/pysilverline/client.py`, and the integration's files are in
`custom_components/poolex_silverline/`.

## 1. The system

| part | state it keeps | operations | interacts with |
|---|---|---|---|
| **client: session lifecycle** (`client.py`, `transport.py`) | `_reader`, `_writer`, three task attributes, `_closing`, `_connection_lost_handled`, `_reconnect_auth_error` | `connect`, `disconnect`, `_read_loop`, `_heartbeat_loop`, `_reconnect_loop`, `_on_connection_dropped` | negotiation (await), its owner (connection listeners), the device (TCP) |
| **client: requests and pushes** (`client.py`, `protocol/frame.py`) | `_pending`, `_inflight_writes`, `_state`, `_query_cmd` | `get_status`, `set_multiple`, `_request`, `_dispatch`, `_take_pending`, unsolicited merges | read loop, codecs, push listeners |
| **negotiation** (`session.py`) | none; chooses socket, codec, version | `negotiate`, `handshake_34`, `handshake_35` | client `connect`, TCP |
| **codecs** (`protocol/*`) | session key, sequence counter | `encode`, `decode`, `split_*`, `update_session_key`, `reset` | client, negotiation |
| **state and layouts** (`models.py`, `layouts.py`, `devices/*`, `const.py`) | none (tables, frozen snapshots) | `from_dps`, `merge`, `layout_for_model` | client, coordinator |
| **discovery** (`discovery.py`, `__init__.py`) | bounded queue, `seen_ips` map | `discover`, `discover_once`, the dedup loop | UDP, config flow |
| **coordinator** (`coordinator.py`) | `data`, `last_update_success`, `supported_dps`, accumulators | poll, `_handle_push`, `_handle_connection_change`, `_process_state`, setup, shutdown | client, Home Assistant's poll timer, entities |
| **faults** (`_faults.py`) | `_active_issues`, `_first_seen` | `reconcile` | coordinator, issue registry |
| **energy, runtime** (`_energy.py`, `_runtime.py`) | held by the coordinator | `accumulate_energy`, `accumulate_runtime`, restore | coordinator, clock |
| **control entities** (`entity.py`, `climate.py`, `select.py`, `number.py`, `switch.py`, `util.py`) | `_last_direction`, `_last_preset` | `_write_dps`, `_write_mode`, mode, preset and setpoint services | coordinator, client, device |
| **read-only entities, diagnostics** (`sensor*.py`, `binary_sensor.py`, `diagnostics.py`) | none | projections of `coordinator.data` | coordinator |
| **config flow** (`config_flow.py`, `_config_validation.py`) | flow-local | forms, validation, reauth, reconfigure, discovery step | Home Assistant |
| **tools** (`diagnose.py`, `scripts/`) | none | one-shot programs | client |

Everything runs on one asyncio event loop. There are no threads; the hard part
is the interleaving of tasks at every `await`: the owner (setup, poll, unload),
any number of requests (polls, refreshes, services), the read loop, the
heartbeat loop and the reconnect loop share `_writer`, `_pending`, `_state` and
three flags, while the device may answer late, twice, under another command,
with its own sequence numbers, or not at all, push unasked, close its socket
(v3.4 does so after every answer), send FIN only, or reset. Nothing is
persisted by the library; the integration restores the energy total and the
climate entity's last mode and preset.

What makes each part correct:

* **lifecycle**: a loss and its recovery are reported exactly once each and in
  turn; a loss is always worked on; at most one session; a live session is
  watched; `disconnect` is final; nobody waits on a dead session; the recorded
  auth error is current; v3.4's per-answer closes are not losses.
* **requests**: an answer goes to the request it answers (v3.3) or, where the
  code knowingly gives that up (v3.4, v3.5), the mistake heals; no waiting
  request is unreachable; a rejected write is not shown; the client's copy
  converges to the device's.
* **negotiation**: the session is used under its own key; no socket is left
  open by a failed probe; the version that sticks is the device's, or the
  exception can be named; a key is reported as rejected only when it was.
* **coordinator**: no session outlives its config entry; entities are
  unavailable while a loss lasts and available again after it; polls are not
  starved by pushes.
* **faults**: a card comes for every fault that stays and goes with it.
* **meters**: what the energy sensor shows never falls, over gaps, clocks that
  are set, reloads and crashes; nothing is billed between readings that do not
  follow each other; a day's runtime fits into the day.
* **entities**: a mode, preset or setpoint service ends in what was asked for, on
  a device that reverts bundled frames, clips setpoints and restores the
  direction's own; the preset outlives changes between heating and cooling,
  switch-offs and restarts.
* **discovery and config flow**: a device that announces itself is offered; its
  entry is made and moved only by a flow that was asked for or is about it, and
  the entry's host is an address at which it has answered and which follows it.
* **codecs**: however TCP cuts and glues the stream, what is read is what was
  sent, nothing whole is held back, and only a wrong frame ends a connection.

`PROJECT.json` lists the hazards of this code, each at its line, with the
properties that cover it.

## 2. Modules

| module | models | checked by |
|---|---|---|
| `Connection` | the session lifecycle of `client.py` | `persistent`, `scoped`, `half_open` |
| `Link` | what the lifecycle promises its owner (abstract) | as the property `LinkSpec` of `persistent` |
| `ConnectionProofs` | theorems about `Connection` | TLAPS |
| `Dispatch` | requests, answers, pushes and the client's copy of the data points | `answers`, `correcting` |
| `DispatchProofs` | theorems about `Dispatch` | TLAPS |
| `Negotiation` | `connect()` with `session.py`'s probe and handshakes | `negotiation` |
| `NegotiationProofs` | theorems about `Negotiation` | TLAPS |
| `Faults` | `FaultReconciler` as operators on its state | with `Coordinator` |
| `Coordinator` | a config entry with its coordinator, over `Link` and `Faults` | `coordinator` |
| `CoordinatorProofs` | theorems about `Coordinator` | TLAPS |
| `Entities` | climate, selects, number and switch against the device's own behaviour | `entities`, `lost_setpoint` |
| `EntitiesProofs` | theorems about `Entities` | TLAPS |
| `Meters` | the energy and runtime accumulators, and what Home Assistant stores | `meters` |
| `MeterProofs` | theorems about `Meters` | TLAPS |
| `Discovery` | announcements, the listener's memory, the config flows | `discovery` |
| `DiscoveryProofs` | theorems about `Discovery` | TLAPS |
| `Frames` | the read loop's buffer over the three codecs | `frames` |
| `FrameProofs` | theorems about `Frames` | TLAPS |

The runs use the modules themselves; there are no separate MC modules because
every constant is a small set or number given in the `.cfg`.

### Connection

One actor per asyncio task: the owner (`app`), the requesters, the reconnect
loop (`loop`); read loops and heartbeat loops are sets of sockets (`rd`, `hb`),
because each belongs to the session it was created for. `pc` says at which
`await` an actor is. Every `await` ends an atomic step.

| variable | code |
|---|---|
| `writer` | `_writer` and `_reader` (always assigned together) |
| `cur` | the session `_reader_task` and `_heartbeat_task` belong to |
| `rd`, `hb` | the read and heartbeat tasks that are alive |
| `pc["loop"] # "off"` | `_reconnect_task` is not None and not done |
| `closing`, `lost`, `authErr` | `_closing`, `_connection_lost_handled`, `_reconnect_auth_error` |
| `pending` | `_pending`, as the set of requesters with an entry |
| `net[s]` | the transport: `up`, `eof` (half-closed by the peer: asyncio keeps it open and `is_closing()` False), `bad` (reset), `shut` |
| `notes` | the last two calls of the connection listeners (history) |

| action | code |
|---|---|
| `AppConnect`, `ConnectSucceeds`, `ConnectFails` | `connect()` up to and after `open_tcp`/`negotiate`; called by the owner, by the reconnect loop and, on v3.4, by `_request` |
| `DisconnectBegin`, `DisconnectClose`, `DisconnectEnd` | `disconnect()` around its two awaits |
| `RequestBegin`, `RequestSend`, `RequestEnds` | `_request()`: the connected test, the locked send, the wait |
| `ReaderExits`, `ReaderDesyncs` | the ways out of `_read_loop`, with its `finally` |
| `HeartbeatStops`, `HeartbeatFails` | `_heartbeat_loop` |
| `LoopClose`, `LoopReap`, `LoopWake`, `LoopCheck` | `_reconnect_loop`, its refresh being an ordinary request of the actor `loop` |
| `PeerDrops`, `CollectWriter` | the device's FIN or reset; a dropped `StreamWriter` closing its transport |

What is abstracted, and why that is sound here:

* Negotiation is one await that succeeds, fails, or rejects the key
  (`Negotiation` opens it up). The version is a constant: it is fixed once the first connect has succeeded, and
  no property is about the time before.
* A cancelled task runs its `finally` in the step that cancels it. In the code
  it runs before the canceller's `await` on it returns, and no other step of the
  canceller can come between. `LoopReap` reaps both tasks in one step.
* A read loop uses the reader it captured when it started, so it belongs to its
  socket. In the code it captures `self._reader` in its first step, which runs
  before anything else can be read from it.
* `get_status`'s second try under the sibling opcode is part of one longer
  request here; `Dispatch` has it in full.
* Timers of a second and more (backoff, heartbeat, request timeout) fire only
  when no read loop has an unseen end of its socket to report (`ReadersIdle`):
  socket events are delivered within milliseconds. Without this the model would
  contain a heartbeat that overtakes the read loop by ten seconds.
* The owner issues no new requests once it disconnects (platforms are unloaded
  before `async_shutdown`); requests under way go on.
* Socket identities are used again when nothing refers to them.

### Link

Three phases, four steps: `Start`, `Lose` (listeners hear `False`), `Heal`
(listeners hear `True`), `Stop`; `Heal` is fair. `Connection` implements it
under the mapping `off` when the owner is down or opening, `lost` when
`_connection_lost_handled`, `on` otherwise.

### Dispatch

One session seen from inside: tasks register a future (`pending`, in insertion
order as the dict is), requests and frames travel in order on `toDev` and
`toCli`, the device answers, rejects, ignores or pushes, the read loop
dispatches one frame per step, and tasks resume in the order their futures were
completed (`ready`, asyncio's FIFO). `dev` is the device's data points, `state`
the client's `_state`.

| action | code |
|---|---|
| `GetStatus`, `StatusArrives`, `StatusFails` | `get_status`, `_query_status`: opcode choice, merge, latch, fallback |
| `SetMultiple`, `WriteEnds` | `set_multiple`: in-flight marker, retcode, optimistic merge |
| `Dispatch` (`DispatchReply`, `DispatchPush`) | `_dispatch`, `_take_pending`, `_status_push_acks_write`, `_merge_unsolicited_query` |
| `Expire`, `Cancel`, `Resume` | `wait_for` and what follows it |
| `SessionLost` | the read loop's `finally`, then a fresh session |
| `DeviceQuery`, `DeviceControl`, `DevicePushes` | the device, from how the code and its comments say it answers |

Abstractions: send lock and write are one step (the lock is FIFO and `drain`
does not block at these sizes); a frame's payload is its data points and
whether its retcode is an error; frames that do not decrypt are left out (they
are dropped and the next poll makes up for them); a write carries one data
point, as every entity's does; sequence numbers are the smallest not in use
anywhere, which is as good as ever-growing ones because only equality is ever
tested; a lost session is replaced at once (`Connection` has the time between);
a write the device accepts it applies as asked.

A v3.5 device counts its own sequence numbers, so its frames carry a number
nobody waits for or, by chance, that of any pending request. v3.3 and v3.4
devices echo the request's.

### Negotiation

What one await of `Connection` hides. Each task that may call `connect()` is
`idle`, `opening` a socket, or waiting for the RESP of a handshake (`resp`);
`key` is what the codecs of v3.4 and v3.5, which the client object owns and all
its connects share, hold at the moment; `start` and `answer` are the START on
each socket's wire and what came back.

| action | code |
|---|---|
| `Connect` | `connect()` up to its first await: the test, the reset of both codecs |
| `OpenFails`, `Opened` | `open_tcp`, for the first socket or for the next probe's; then `negotiate` as far as the wait for the RESP, or, on v3.3, to the end of `connect()` |
| `HandshakeFails`, `AuthFails`, `HandshakeSucceeds` | the outcomes of `handshake_34` and `handshake_35` and what `negotiate` makes of them, pinned or probing |
| `Cancelled`, `CollectWriter` | cancellation (by `disconnect`, of the reconnect task) and the finalizer that closes the socket it leaves |
| `SessionEnds` | the read loop's `finally`, with v3.4's close of whatever `_writer` is |
| `DeviceAnswers`, `DeviceCloses` | the device: its RESP, a frame it makes for a START it cannot read, or a close; silence is no action |

Cryptography is perfect: a frame is a pair of a content and the key it was made
with, and is read with that key or not at all. A handshake's FINISH is written
without blocking, so the codec's switch to the session key and the rest of
`connect()` are one step with the arrival of the RESP. Connects overlap only
where the code lets them: the lazy ones of `_request`, once v3.4 is known. That
is the guard of `Connect`, and `OwnerInv` of `ConnectionProofs` is why it may be
there.

### Faults and Coordinator

`Faults` has the reconciler's two attributes (`active`, `seen`: the age of the
first sighting of the debounced bit) and the issue registry's cards, which
outlive it. `Coordinator` extends it with the config entry: `entry` is where
setup is, `phase` is the session as `Link` describes it (an instance whose
steps the actions conjoin), `dev` the faults the device has, `data` those in
`coordinator.data`, `success` is `last_update_success`, `poll`, `reply` and
`write` the tasks between the dispatch of an answer and their resumption.

| action | code |
|---|---|
| `Setup`, `FirstRefreshFails`, `Unload` | `async_setup_entry`, its failure path, `async_unload_entry` and `async_shutdown` |
| `PollStart`, `PollAnswered`, `PollDone`, `PollFails`, `PollRefused` | `DataUpdateCoordinator`'s refresh around `_async_update_data`, with its two errors |
| `Telemetry`, `DeviceChanges` | `_handle_push`, of another data point or of the faults (heard or not) |
| `Drop`, `Heal` | `_handle_connection_change` |
| `WriteAcked`, `WriteEnds` | `_write_dps` around its await, and `async_set_updated_data` |
| `Tick` | time, in units of 20 seconds |

Home Assistant is external and modelled from how this code uses it: a poll is
scheduled when the last one ends and by `async_set_updated_data`, which also
cancels a pending refresh; a refresh that is asked for runs.

`PollRefused` is a poll that ends in `ConfigEntryAuthFailed`: in an outage, because
the reconnect loop's handshakes are rejected, or on a live session, because the
device answers with an auth retcode (`client.py:405-406`) or, on v3.3, which
reconnects without a handshake, with a body that a rotated key does not open
(`protocol/v33.py:163-166`). Home Assistant then sets no timer: the next poll comes
with a write, with the recovery from the next outage, or with a reload, which is
what the reauth flow ends in. `refused` is history and says that the last poll begun
ended so; the liveness properties make the exception `Rejected` of it: a session that
stays up and whose key stays rejected. Under such a key pushes cannot be read
either, so a change of the faults may go unheard on a live session.

The data points are abstracted to the set of coded faults,
because only faults have state of their own here; the two accumulators that
`_process_state` also feeds are in `Meters`, `supported_dps` (a set that only
grows and from which entities are made once) is not modelled. A poll, with the
client's timeouts, is shorter than a tick.

### Entities

A service of the integration decides everything before its first await. So it is
the sequence of frames it will write, with the pauses between them (`plan`, one
per platform), and from then on only frames and pauses happen: one service at a time
per platform (`PARALLEL_UPDATES` is 1), interleaved with those of the others.

| variable | code |
|---|---|
| `data` | `coordinator.data`: power, mode and setpoint (DPs 1, 4, 2) |
| `last` | climate's `_last_direction`, `_last_preset` |
| `plan` | the frames and pauses a service that has begun has still before it |
| `dev`, `mem`, `keeps`, `restoring` | the device (external): its data points, its setpoint per direction, whether it reports the mode while off, and which changes of direction it has yet to follow with the stored setpoint |
| `want` | history: the values that the services which had the device to themselves mean it to have |

| action | code |
|---|---|
| `ClimateSetHvacMode`, `ClimateTurnOn`, `ClimateTurnOff`, `ClimateSetPreset`, `ClimateSetTemperature` | the services of `climate.py` up to the first await |
| `SelectMode`, `SelectOff`, `SelectPreset` | the two selects of `select.py` |
| `NumberSet`, `SwitchPower` | `number.py`, `switch.py` |
| `WriteSucceeds`, `WriteFails`, `SettleEnds` | `_write_dps` with its optimistic merge, its errors, and the pauses of `_write_mode` and climate |
| `Update` | a poll or push, with climate's `_sync_from_state` |
| `Restart` | a new process; climate's `async_added_to_hass` with the last memory, an older one (the process was killed before the store) or none |
| `Panel`, `Restore` | the device: somebody uses its panel; the stored setpoint comes back |

The device's behaviour is what the code's comments and
`docs/silverline-fe-specs.md` (section 11) say of it. Presets are three of the
profile's, with one the profile has no string for; temperatures are two, of which
one is out of cooling's range, and the unit starts out with either (clipped) in every
direction. A pause (`MODE_TRANSITION_SETTLE`) is longer than
the device takes to restore a setpoint: the code's premise, too. Panel use is no
faster than the device pushes. Services that were not alone make `want` anything:
what two users want at once is not defined, but that the device and Home Assistant
agree again afterwards is (`Calm` is reached, and later services land). What a service
means for the setpoint of the direction it turns to is the direction's own, unless the
one shown is out of the new direction's range: then the code clamps and writes it, and
`want.clamped` takes the direction out of `SetpointKept` (finding 2). `async_turn_on`
with an unknown mode takes the same path as `async_set_hvac_mode`, so its goal
(`ToCarried`) makes the same exception.

What a service means for the preset has four exceptions of its own, each a definition:

* After Auto, which has none, the direction comes back plain or with the preset of
  before, never with another (`OrNone`). The code forgets the preset when it turns to
  Auto itself (`climate.py:213-215`), and remembers it when the panel does.
* A preset that is set while the unit is off is taken up or not (`ToPreset`).
* The operating-mode select carries none where the mode is unknown, as it is after a
  restart on firmware that hides it while off (`SelectGoal`).
* After a start with a memory that is not the last one, the preset it tells counts
  too, and where the mode is unknown the direction it tells (`Recalled`).

### Meters

| variable | code |
|---|---|
| `time`, `clock` | what passes, and what `utcnow()` is ahead of it |
| `maxGap`, `energy`, `runtime` | the coordinator's `_energy_*` and `_runtime_*` attributes |
| `entry`, `sensor`, `stored` | where setup is, whether there is an energy sensor, and its value in Home Assistant's restore data |
| `peak`, `ahead`, `since`, `latest` | history: the highest value shown, how far the clock was set forward, when the day began, the last reading |

| action | code |
|---|---|
| `Process` | `_process_state`: `accumulate_energy`, `accumulate_runtime`, and the entities' write |
| `Setup`, `AddEntities`, `Unload` | a new coordinator, `sensor.py`'s `async_added_to_hass` with `restore_energy_consumption_kwh`, removal |
| `Dump`, `Crash` | Home Assistant's periodic store, and a stop without one |
| `Pass`, `SetClock` | time, and `utcnow()` being set |

`HvacAction` is `compute_hvac_action` over all states; `AccumulateEnergy` and
`AccumulateRuntime` are the two functions. Powers are integers, and may be
missing, negative or NaN. Time is in units of 150 s and energy in units in which
the trapezoidal rule needs no halves; the sensor's rounding is modelled, because
that it rounds is why a restored total may lag what was shown by less than a unit
and never more. Local dates are `clock \div Day`: one time zone, without changes
of its offset.

### Discovery

| variable | code |
|---|---|
| `queue`, `seen` | `discover()`'s bounded queue and the loop's `seen_ips`, oldest first |
| `flow`, `reauth` | the flow that works on a unique id, with the await or form it is at; a reauth flow |
| `entry` | per unique id, the config entry's `CONF_HOST` |
| `addr` | the pump's address (external) |
| `heard`, `turned`, `met` | history: its announcement was taken in; the last one passed on came to nothing; where it has answered |

| action | code |
|---|---|
| `Announce` | `datagram_received`: queue or drop |
| `Listen` | one turn of `_discovery_loop`, and `async_step_integration_discovery` up to its await |
| `VerifySucceeds`, `VerifyFails` | `_verify_host` and what follows |
| `ConfirmCard`, `SubmitUser`, `SubmitReconfigure` | the forms, up to the await of `_try_validate` |
| `ValidateSucceeds`, `ValidateFails`, `PickModel`, `Dismiss` | what follows, to the entry |
| `RemoveEntry`, `ReauthStart`, `ReauthEnd`, `Restart` | Home Assistant |
| `Move` | DHCP |

Announcements are the device's own: true, or stale because they were queued before
it moved. Forged ones are not modelled, and neither are entries of an ignored device,
which have no credentials. Keys, versions and models are not told apart: whoever answers at a host under the
user's key is the pump. Home Assistant's rule that a flow aborts while another one
works on its unique id, and that reauth does not ask, is modelled from how this
code uses it. `turned` is the exception the two liveness properties need and says
what it covers; `stale_host.cfg` shows what is behind it.

### Frames

The buffer of `_read_loop` holds the front of an endless stream: `head` is the
frame at its front, with its shape (return code, version header, body) and at most
one thing wrong, and `buf` how many bytes are there, of it and of what follows.

| action | code |
|---|---|
| `Receive` | `reader.read`, `buf.extend` and the cap |
| `Dispatch`, `AwaitMore`, `BadFrame` | the inner `while`: a frame, `IncompleteFrame`, `ProtocolError` or `InvalidAuth` |
| `PeerCloses`, `Reconnect` | the end of the stream, and a new one |

`Decode33`, `Decode34`, `Decode35` are the three `decode`s as their order of
complaints; `Response*`, `Request*` and `Body*` are `split_response_payload`,
`split_request_payload` and `decrypt_body`, over payloads that are sequences of
marked bytes, because what they look at are lengths and positions. Ciphers are
perfect and PKCS#7 counts; a wrong size field puts the checks at the wrong place,
where they fail. What a device puts into a frame is what the docstrings of
`split_*_payload` list. JSON is its length.

## 3. Runs

| run | expects | question | size |
|---|---|---|---|
| `persistent` | pass | Does a v3.3/v3.5 client survive resets and bad frames under every interleaving, report them correctly and recover? | 2 requesters, 2 sockets; 7,589 states |
| `scoped` | pass | Are v3.4's per-answer closes silent? | 2 requesters, 2 sockets; 16,769 states |
| `half_open` | violation of `LostHasRetry` | Is a client ever left dead with no scheduled retry (docstring, `client.py:874-879`)? | shortest trace |
| `answers` | pass | Does a v3.3 answer reach the request it answers, and is no rejected write shown? | 2 tasks, 4 sequence numbers, 2 frames, 2 events; 129,684 states |
| `correcting` | pass | Do v3.3, v3.4 and v3.5 heal from misattributed, late and missing answers? | 1 task, 3 sequence numbers, 2 frames, 1 event; 154,839 states |
| `negotiation` | pass | Whatever the device, the key and the pin: is every socket accounted for, the codec's key right, the version earned, `InvalidAuth` true? | 2 tasks, 3 sockets, 3 devices, 4 pins; 711,152 states |
| `coordinator` | pass | Do sessions, polls, availability and cards of a config entry stay in step through outages and reloads? | interval 2, window 3 ticks, 2 faults; 38,644 states |
| `entities` | pass | Does the device end in the mode, preset and setpoint that was asked for? | 4 services, panel uses and restarts, 2 temperatures; 2,303,961 states |
| `lost_setpoint` | violation of `SetpointRestored` | Does a direction keep its last setpoint (`docs/configuration.md:43-44`)? | shortest trace |
| `meters` | pass | Do the meters survive gaps, clocks, midnight, reloads and crashes? | 6 time units of which 4 are a day, 1 clock step, 2 intervals; 873,533 states |
| `discovery` | pass | Is a pump offered, its entry made and moved only as asked, and its host right, however it moves and others announce? | 2 addresses, 2 other devices, queue and memory of 2, 2 events; 190,698 states |
| `frames` | pass | Is what is read what was sent, however it is cut and glued, on each protocol? | bodies of 0, 2 and 16 bytes, reads up to 30 bytes; 85,770 states |

Six further configurations are not part of the regular runs; each shows, by a
counterexample, a disagreement listed in section 4: `heartbeat.cfg`
(`OneHeartbeat`) and `scoped_disconnect.cfg` (`DownStaysDown`) for `Connection`,
`pushed_ack.cfg` (`EchoAcksItsWrite`) for `Dispatch`, `shared_codec.cfg`
(`AuthErrorIsTrue`) for `Negotiation`, `stale_card.cfg` (`CardsClear`) for
`Coordinator` and `stale_host.cfg` (`HostUpdated`) for `Discovery`.

**Why the bounds are enough.** In `Connection` the only bounds are the sets of
requesters and sockets: the session in use and one that is dying or being
opened are all that can matter at a time (a third would be one more that nobody
refers to), and two requesters are enough for one to connect lazily while the
other waits, sends or is torn down; nothing else is counted, so the runs cover
behaviours of every length, and the theorems hold for any number of both. In
`Dispatch` four sequence numbers let two tasks each have a live request while
an answer to an abandoned one of each is still under way; `MaxWire` makes
senders wait, it does not stop answers; `MaxEvents` bounds only writes, changes
on the device, cancellations and drops, after which polling goes on for ever,
which is what `Settles` needs. `correcting` has one task because one task
already has late answers, stale entries after a cancellation, and misattributed
frames. With two tasks, `MaxSeq = 2` and `MaxWire = 1`, it also holds (886,855
states), but takes four minutes. In `Negotiation` nothing is counted: two tasks
are enough for one to disturb the other, and three sockets for a session, a
handshake and a socket that is dropped or whose session was overwritten; the
theorems hold for any number. In `Coordinator` the two bounds are the real ones
in units of 20 seconds: the scan interval (`Interval`, 40 seconds of the 8
to 300 the options allow) and the debounce window (`Debounce`, 60 seconds);
what matters is that one is not a multiple of the other. Two faults, one
debounced and one not, are all the kinds there are. In `Entities` `MaxCalls`
bounds services, panel uses and restarts; four are enough for a preset to be set,
the unit to be turned to Auto or off, and the direction to come back, or for two
overlapping services to be followed by one that must land. Writes that fail are not bounded.
Four calls are not enough for everything: that `async_turn_on` clamps takes six
(35 in heating; the panel to cooling; off; the panel back to heating; a restart on
firmware that hides the mode while off, so that the mode is unknown; turn on) and came
out of the proof, not of the run; the theorems hold for any number of calls.
In `Meters` the numbers keep the proportions that matter: an interval above the
floor of the gap and one below it, gaps shorter and longer than either, and time
for a midnight, with a clock step that crosses it either way. In `Discovery` the
two others can fill the queue and, with the pump, overflow the memory, so that
drops and evictions happen; two events are two moves, two restarts, or one of
each. In `Frames` nothing is counted: a body of 2 bytes is shorter than any header,
one of 16 makes the padding add a block, `MaxFrame` is just what they need, the
size field is too small by one, too large by `Excess`, above the limit, or as large
as the buffer's cap. For `Entities`, `Meters`, `Discovery` and `Frames` the theorems
hold for all values of the bounds.

**Properties.** Each is stated and explained in its module: `NotesAlternate`,
`LostHasRetry`, `WatchedWhileUp`, `NoStrandedRequest`, `DownStaysDown`,
`SingleSession`, `AuthErrorIsFresh`, `QuietScoped` in `Connection`; `OwnAnswer`,
`NobodyForgotten`, `NoPhantom`, `Settles` in `Dispatch`; `SocketsAccounted`,
`KeyFitsSession`, `VersionProven`, `AuthErrorIsTrueAlone` in `Negotiation`;
`NoOrphanSession`, `CardsKnown`, `PollsGoOn`, `AvailabilityFollows`,
`FaultsSettle` in `Coordinator`; `ModeLands`, `PresetCarried`, `SetpointKept` in
`Entities`; `MeterNeverFalls`, `RuntimeFits`, `HoleNotBilled` in `Meters`;
`EntriesAskedFor`, `HostWasMet`, `Offered`, `HostFollows` in `Discovery`;
`ReadRight`, `Drained`, `EndsForCause`, `Progress` in `Frames`. Type correctness is
proved for every module; the runs check it for `Negotiation`, `Dispatch`, `Discovery`
and `Entities`. Each property of a passing run has a mutant: a plausible bug in the mapped definition (a
dropped guard, a missing reset, a swapped order) under which TLC finds the property
violated.

**Fairness.** `Connection`: every step a ready task or a due timer takes is
weakly fair (asyncio runs all ready handles in each turn of its loop, and all
timers fire); the reconnect loop's `ConnectSucceeds` is strongly fair, that is,
a device that is asked again and again answers at some time, the premise under
which "keeps retrying forever" (`client.py:863-872`) means recovery. `Dispatch`:
polls recur (the coordinator's timer), the device consumes what is sent, frames
are read, ready tasks run, timers fire; and a timer and a frame do not go on
meeting in the same turn of the loop for ever (`<>[][~Race]_vars`). Nothing is
assumed of the device answering in time: `Settles` holds even when every answer
is late, because unsolicited query answers are merged. `Coordinator`: ready
tasks run, time passes, a device that is polled again and again while a session
is up answers or rejects some poll, and entities do not go on writing for ever, since each
write puts the poll off by an interval. Nothing is assumed of outages or
of the key: the properties say what follows if an outage lasts or does not, and
except a key that is rejected for good (`Rejected`). `Discovery`: the listener
goes on, what is awaited ends one way or the other, and the pump's announcement is
strongly fair: it comes every 25 seconds, so it meets the queue with room in it if
there is room again and again. Nothing is assumed of users or of the others.
`Frames`: the loop runs on, and a device that keeps the connection open is not
silent for good (it answers heartbeats and polls); that it closes is never assumed.
`Negotiation`, `Entities` and `Meters` have safety properties only: what a service
means is checked when all is quiet, whatever happened before.

## 4. Findings

Two runs show a disagreement between the code and what its comments or docs say
(details in `PROJECT.json`):

1. `half_open`: a FIN on the socket the reconnect loop has just opened leaves
   the client lost for good: `connected` is still True, so the loop returns
   (`client.py:955`), and later drop signals are ignored (`client.py:849`).
2. `lost_setpoint`: `docs/configuration.md:43-44` says that a mode's last setpoint
   is restored when the unit is switched into it. When the old mode's setpoint is
   out of the new mode's range, `async_set_hvac_mode` writes the old one, clamped,
   after the device has restored the mode's own (`climate.py:243-247`).

Six more are kept as configurations (section 3):

3. `heartbeat`: `client.py:891` says that dead reader and heartbeat tasks are
   reaped before new ones are kicked. Rolling over to the next attempt does not
   reap the heartbeat loop (`client.py:956`), so a second one runs that
   `disconnect` does not cancel.
4. `scoped_disconnect`: `client.py:239-241` says that the client stays down after
   `disconnect`. A lazy connect under way on v3.4 survives it (`client.py:491`).
5. `pushed_ack`: a push may acknowledge a write none of whose data points it
   carries (`client.py:631`, `757`, against the docstring at 621-627).
6. `shared_codec`: of two overlapping v3.4 connects one may be told that its key
   is wrong, because the other has switched the codec they share to its session
   key (`session.py:319`, `client.py:194`, against `exceptions.py:14-15`); Home
   Assistant then asks for a key.
7. `stale_card`: a fault that clears while its entry is set up again leaves its
   Repair card open, because the new reconciler does not know of it
   (`_faults.py:92`, against `docs/automations.md:88-90`).
8. `stale_host`: `__init__.py:65-70` and `quality_scale.yaml:74-79` say that a
   device's new address updates its entry "instead of being deduped away". The
   address is remembered before its flow has come to anything (`__init__.py:82-84`).
   If a card for the device is open at its last form when the device moves, the new
   announcement's flow aborts, the entry is created with the old host, and the
   announcements that follow are taken for repeats, until the listener has
   forgotten the device or Home Assistant restarts.

Observations, met while modelling, which no property contradicts:

* A preset service whose write is in flight while the direction changes writes the
  old direction back: DP 4 carries both.
* In Auto, `async_set_hvac_mode` resets `_last_preset` to "none" (`climate.py:215-217`),
  but when the unit was off, the update after the power-on frame, and when it was on
  a push of the old mode before the mode is written, sets it back to what the device's
  state says (`_sync_from_state`). So a preset is sometimes carried through Auto.
* One auth retcode on a live session ends the polling of the entry until a write, an
  outage or a reload (`coordinator.py:165-166`), although pushes go on arriving.
* The operating-mode select loses the preset when it powers the unit on after a
  restart, on firmware that does not report DP 4 while off; climate remembers it.
* `set_temperature` with a mode is validated by Home Assistant against the range of
  the old mode.
* `compute_hvac_action`'s docstring calls DP 108 authoritative (`util.py:175-176`);
  in Auto, with a running compressor, it returns idle when the temperatures are
  equal or missing (`util.py:219-228`).
* The runtime bills the whole gap by the action at its end (`_runtime.py`): an
  outage that ends while heating counts as heating. The energy total does not.
* A listener whose socket cannot be bound ends for good (`__init__.py:107-108`).
* A frame that claims more than 64 KiB is refused from its header; the cap of
  256 KiB on the buffer is never what ends a connection (proved).

## 5. Proofs

`ConnectionProofs` proves, with TLAPS, for any finite or infinite sets of
requesters and sockets (assumption `ConnectionAssumption`: the names are
distinct, the version is one of the three, the drops are among the three):

| theorem | statement | extra assumption |
|---|---|---|
| `TypeCorrect` | `Spec => []TypeOK` | none |
| `NotificationsAlternate` | `Spec => []NotesAlternate` | none |
| `OneSession` | `Spec => []SingleSession` | none |
| `Watched` | `Spec => []WatchedWhileUp` | none |
| `AuthErrorFresh` | `Spec => []AuthErrorIsFresh` | none |
| `StaysDown` | `Spec => []DownStaysDown` | v3.3 or v3.5 |
| `RetryAfterLoss` | `Spec => []LostHasRetry` | v3.3 or v3.5, no FIN |
| `NobodyStranded` | `Spec => []NoStrandedRequest` | v3.3 or v3.5, no FIN |
| `ScopedIsQuiet` | `Spec => []QuietScoped` | v3.4, FIN only |
| `SafeLink` | `Spec => LinkSafe` | v3.3 or v3.5 |

That `StaysDown` and `RetryAfterLoss` need their assumptions is what the runs
`scoped_disconnect` and `half_open` show.

None of the invariants is inductive. The argument has two stages. For every
kind of drop on v3.3 and v3.5, `PersistentInv` is the conjunction of

* `OwnerInv`: which `closing`, `lost` and `notes` go with each place of the
  owner, and that only the owner and the reconnect loop can be connecting,
  never both;
* `SocketInv`: no request is connecting, an open socket is `writer`, and a read
  loop reads both `writer` and `cur`;
* `LoopInv`: what holds at each place of the reconnect loop (on a dead session
  until it has connected, and only while `lost`), that a session not reported
  lost is read, and where a recorded auth error can be;
* `WaitInv`: whoever waits is in `pending`, and nobody waits once the owner has
  disconnected.

`ResetInv` is for drops without FIN: no socket is half-closed, a lost session
is not `Connected` and has its reconnect task, and whoever waits outside
`disconnect` has a reader. `PersistentStep` and `ResetStep` prove that each
action preserves them, one step per action; `DroppedIsLose` and `LinkStep` map
each action to a step of `Link` or a stutter.

`ScopedInv` is for v3.4 and a device that only closes its sockets: no heartbeat, no
loss, no reconnect task, and no read loop on a reset socket. A write resets only a
socket whose read loop has seen its end, so the loops see nothing but orderly ends,
and on v3.4 such an end is not a loss.

`DispatchProofs` proves for any tasks, data points and values, and any bounds
(`DispatchAssumption`):

| theorem | statement |
|---|---|
| `TypeCorrect` | `Spec => []TypeOK` |
| `Answered` | `Spec => []OwnAnswer` |
| `Remembered` | `Spec => []NobodyForgotten` |
| `NoPhantoms` | `Spec => []NoPhantom` |

Two things tie a call to what is under way for it. `Core`: two calls have different
numbers (`Distinct`), and an entry (`EntryKnown`) or a message (`MessageKnown`) that
carries a call's number is of its kind and wants its values written; with
`FreshIsUnused`, popping an entry by number or kind never takes another call's only
one. `Origins`: every value in a frame, or in a future, is one the device has had; and
on v3.3 an ack whose number a write still waits for means that the device has had what
was written (`AckWire`, `AckFut`), because only that write's message can have carried
the number. One lemma per action, over lemmas on what the handlers share
(`CoreRegisters`, `CoreCompletes`, `CoreFinishes`, `CoreEnds`, `CoreLost`).

`NegotiationProofs` proves for any sets of tasks and sockets, any device, key
and pin (`NegotiationAssumption`: the names are distinct):

| theorem | statement |
|---|---|
| `TypeCorrect` | `Spec => []TypeOK` |
| `NoSocketLeak` | `Spec => []SocketsAccounted` |
| `SessionKey` | `Spec => []KeyFitsSession` |
| `VersionFound` | `Spec => []VersionProven` |
| `AuthErrorDeserved` | `Spec => []AuthErrorIsTrueAlone` |

`NegotiationInv` has, next to the properties: `PlaceInv` (who holds which
socket: a handshake's is open, its own, and nobody's session), `Alone` (until
v3.4 is known there is one connect at a time, under the keys it has reset, so
its RESP fails only for a wrong key), `Probing` (a connect uses the required
version or, if there is none, probes), `Truthful` (what an answer says about the
device) and `Excluded` (why a probe has left a newer version behind: silence,
another version, or on v3.4 a wrong key). `KnownKept` is the step they all need:
a version that is known is not given up. `OpenedShape` states `Opened` without
its choice of the version, and is what the other proofs use.

`CoordinatorProofs` proves, for any table of faults, window and interval:

| theorem | statement |
|---|---|
| `TypeCorrect` | `Spec => []TypeOK` |
| `NoSessionLeak` | `Spec => []NoOrphanSession` |
| `CardsAccounted` | `Spec => []CardsKnown` |

Its invariant `EntryInv` is kept in three parts that the actions disturb apart:
`PhaseInv` (entry, session and tasks), `ClockInv` and `CardInv`; the lemma
`ReconcileKnows` says what `reconcile` establishes for any reading, and every
action that processes one cites it.

`MeterProofs` proves, for any intervals, readings, days, gaps and steps of the
clock (`MetersAssumption`: they are naturals, and `None` and `NaN` are not numbers):

| theorem | statement |
|---|---|
| `TypeCorrect` | `Spec => []TypeOK`: no meter is ever negative |
| `NeverFalls` | `Spec => []MeterNeverFalls` |
| `RuntimeFitsDay` | `Spec => []RuntimeFits` |
| `HolesAreFree` | `Spec => HoleNotBilled` |

The invariant adds to the properties where the peak is when there is no sensor (at
what is stored: so a restore makes it up), that an anchor of the energy total is
the last reading, and, for the runtime, the offset of its last tick from the
history's clock: real time plus forward steps is never behind `utcnow()`'s progress.

`DiscoveryProofs` proves, for any addresses, any other devices and any bounds of the
queue and of the memory (`DiscoveryAssumption`: the names are distinct, the bounds
are numbers):

| theorem | statement |
|---|---|
| `AskedFor` | `Spec => EntriesAskedFor` |
| `HostMet` | `Spec => []HostWasMet` |
| `TypeCorrect` | `Spec => []TypeOK`: one address per device, within the bounds |

The invariant `Inv` needs that only the normalized id has a flow, that a flow's host
is an address, and that a flow which asks for the model has met the pump at its host;
`AddressOK` says that the pump's own address is one of its addresses. `Memory` says
that the listener's `seen`, a sequence of records, never names a device twice and stays
within its bound when an entry is moved to the end or the oldest is dropped; `Bounds`
is the rest of the type, the queue and the counters. `AskedFor` needs `FlowFits`, which
is invariant next to `Inv` (`FlowsFit`): a reconfigure is about the entry there is, and
any other flow past its verification is about the entry there is not. That holds because
one flow at a time works on an id, a verification whose entry has been removed goes on
as for a new device (`VerifySucceeds`), and a removal ends the reconfigure
(`RemoveEntry`).

`FrameProofs` proves, for any frame limit, size of reads and cap, and any bodies
(`FramesAssumption`: a body is a JSON object, the limit admits the bodies with their
headers, and the cap is above the limit by a read and a header):

| theorem | statement |
|---|---|
| `BufferBounded` | `Spec => []TypeOK`: less than a frame and a read is held |
| `NothingHeldBack` | `Spec => []Drained` |
| `GoodStreamsLive` | `Spec => []EndsForCause` |
| `BodiesReadRight` | `Spec => []ReadRight`: who reads a frame gets the body that was put in |

`Drained` rests on `DecodeIs` (what each codec says of a frame that would pass) and
on the place of the loop: it only goes back to reading after an `IncompleteFrame`.
That the cap is never reached follows from the refusal of the size field, for every
claim it may hold.

`BodiesReadRight` is about the payload of one frame, so it needs of the invariant only
that the frame at the front has one of the shapes; it is the longest proof of the
module because the code tells the parts apart by length, prefix and single bytes.
`ContentRight` goes through the protocols. On 3.3 (`Right33`) and 3.4 (`Right34`) the
parts are told apart by what is in clear: there the lemmas needed are that a version
header is not a prefix of anything that begins otherwise (`VerPrefix`) and that a
cipher is a multiple of 16 bytes long, so that 4 more show a return code
(`CipherSizes`). On 3.5 (`Right35`) all is in clear: `FormBytes` says what is at the
positions the code looks at in each of the four forms a body may come in, for bodies
of any length, and `FormHeaders` that a header is seen exactly in the forms and at the
offsets where there is one.

`EntitiesProofs` proves, for any setpoints, any vocabulary of presets that has one for
"none", and any number of services, panel uses and restarts (`EntitiesAssumption`):

| theorem | statement |
|---|---|
| `CoursesHold` | `Spec => []Inv`, the inductive invariant |
| `EntitiesTypes` | `Spec => []TypeOK` |
| `ServicesLand` | `Spec => []ModeLands` |
| `PresetSurvives` | `Spec => []PresetCarried`, with the four exceptions of section 2 |
| `SetpointSurvives` | `Spec => []SetpointKept` |

The three properties speak of quiet times, and a service is not quiet for up to six
awaits, while updates, the device's restoring, the panel and failing writes come in
between. So the invariant says what a service has still to write (`OnCourse`): either
nothing is expected (`want = Anything`: services met, a write failed, the panel was
used in between), or one platform at most has something left, and what it has left is
one of six courses that lead to what was meant:

* `Ready`: at most setpoints are left, and the rest is as meant (a service that has
  ended is this one, with nothing left);
* `Switching`: a power frame, then at most setpoints;
* `Presetting`: one mode frame in the direction the unit runs in;
* `PoweringOn`, `PoweredOn`: power, a pause, the mode, a pause, and the setpoints; and
  the same after its first frame, or after the pause behind it;
* `Turned`: the mode is written, and the pause before the setpoints has not ended: the
  only course in which the device's restoring may be outstanding.

Each course also carries what the next service will start from (`Memory`): while the
unit runs and its mode has been heard, climate's memory is in step with it; while it
is off, `OffMemory` says which of the device's report and the memory still hold the
user's preset, on firmware that reports the mode while off and on firmware that does
not. In Auto, and while a mode is still to be written, `Remembers` says that what climate
remembers, and what it may yet take over from a report, is a preset that may be meant:
that is what makes nothing but plain or the former preset come after Auto. `DeviceInv` has the ranges of the directions' setpoints and that the unit runs at
its direction's own when nothing is outstanding. `KeptAfter` says that the setpoints
left end in one that the direction is meant to have: the clamped one first, the
asked-for one last. The pauses are what makes `SetpointKept` provable: without the
premise that a restore comes within them (the guard of `SettleEnds`), `Turned` does not
lead to `Ready`.

`InvStep` has one step per action, each a lemma: what a service begins with is a course
(`SetHvacModeStep` to `NumberSetStep`), a frame that is written moves along it
(`WriteStep`, by `SwitchWritten`, `PresetWritten`, `PoweringWritten`, `TurnWritten` and
`SetWritten`), and everything else leaves it (`SettleStep`, `RestoreStep`, `UpdateStep`,
`PanelStep`, `RestartStep`) or gives up what was meant (`FailStep`).

Only model-checked: liveness (`LinkSpec`'s fairness part, `Settles`, `PollsGoOn`,
`AvailabilityFollows`, `FaultsSettle`, `Offered`, `HostFollows`, `Progress`), which
TLAPS does not reach. Every safety property of a passing run is the statement of a
theorem.

## 6. Not modelled

* **Data-point tables and decoding** (`models.py`, `layouts.py`, `devices/*`,
  `const.py`): tables and a type filter per field, total functions without state.
  `DeviceState.merge` is the overlay of functions that `Dispatch` and `Entities` use;
  `supported_dps` is the set of keys ever seen.
* **Encoding** is the mirror of decoding and only gives `Frames` its layouts;
  cryptography is perfect throughout.
* **Datagram parsing** is a total function on bytes; `discover_once` is the command
  line's; the **options flow** stores two numbers that reload the entry, which
  `Coordinator` and `Meters` have as `Unload` and `Setup`.
* **Read-only entities and diagnostics** are projections of `coordinator.data`.
* **Forged announcements** and **ignored discovery entries**, which have no
  credentials to verify with (`Discovery`).
* **A mode string nothing decodes** (`Entities`): `async_turn_on` tests DP 4 only for
  `None` and would resume such a string as it is.
* **The crash exit of the read loop** (`client.py:593-594`) runs the same `finally` as
  the other exits, and is one of them in `Connection`.
* **Command-line tools and scripts** are one-shot programs.

What could be added: runs of the six further configurations with the code mended as
`PROJECT.json` and section 4 suggest, and a refinement that ties `Negotiation` to the
one await by which `Connection` stands for it.
