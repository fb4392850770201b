# STYLY NetSync client for Godot: specifications

The repository is a Godot extension (C++) that speaks the NetSync protocol v8
to an external server over three ZeroMQ sockets: a control DEALER (ordered,
both directions), a transform DEALER (poses out) and a SUB (room broadcasts in).
These modules specify the client: what its threads may do to each other, what
it promises its host, and how far those promises hold.

## 1. The system and its parts

| Part | State it keeps | Operations | Threads and partners |
|---|---|---|---|
| Transport, outbound (`transport/zmq_transport.cpp`) | four flags, control outbox, held packet, latest-wins slots for the avatar and each object | `start`, `stop`, `try_enqueue_control`, `set_latest_transform`, `set_latest_object_transform`, `clear_outgoing`, the send half of `network_loop` | main thread against network thread; libzmq |
| Transport, inbound (same file) | frames of one drain | `receive_sub`, `receive_control` | network thread, calls `handle_payload`, which fills the inbox and the room slots of the client |
| Session (`core/netsync_client.cpp`) | connection state, hello and ready flags, notifications, control inbox, room slots; the local pose with its times and signature | `connect`, `disconnect`, `poll` and what they call; `set_local_pose`, `send_local_pose_if_due` | main thread; hears from network and discovery threads through `inbox_mutex_` |
| Discovery (`transport/server_discovery.cpp`) | two flags, a thread, sockets, an optional cache | `start`, `stop`, `discovery_loop` with its probes, broadcast rounds and parsing | its own thread; servers over TCP and UDP |
| Network variables (`core/network_variable_manager.cpp`) | values, dedupe cache, cooldowns, pending values and deadlines | `set_*`, `tick`, `handle_*_sync`, `clear_*` | main thread; server and other clients |
| RPC (`core/rpc_manager.cpp`) | pending queue, rate window | `send`, `flush_pending`, `clear_pending` | main thread |
| Objects (`core/object_sync_manager.cpp`) | owner, poses and send state of each object | `register_object`, `submit_local_pose`, `tick`, `handle_*` | main thread; server |
| Device mapping and presence (`core/device_mapping.cpp`) | id maps, announced and pending clients | `apply`, `update_presence` | main thread |
| Wire format (`protocol/*`) | none | encode, decode, quantise | - |
| JSON (`core/json_util.cpp`) | none | encode, parse, dump, decode of RPC arguments | - |
| Device id file (`core/device_id.cpp`) | one file | `load_or_create_device_id` | one launch after another |
| Godot bridge (`godot/*`) | a client | forwards calls, turns events into signals in `poll` | host |
| Add-on scripts (`addons/*`) | registered object nodes, node state | `NetSyncManager._process`, registration, `NetSyncObject` | host's handlers run inside its signals |

What is hard in it: two threads around one unlocked packet; a latest-wins slot
that is copied, sent and compared; queues with limits and time-outs;
notifications that outlive the thread that pushed them; a reconnect after a
failure; snapshots that are older than what the client has sent since;
ownership that is told over two sockets; a subscription filter that is a prefix;
handlers of the host that run in the middle of a frame; a launch that dies while
it writes its identity. PROJECT.json lists these hazards line
by line with the property that watches each.

What makes each part correct: the transport loses, reorders and repeats
nothing it accepted, keeps the newest pose, and can be stopped; the session
handles nothing of an earlier connection and becomes ready exactly once; a
variable ends up with the value the host asked for last; an object is published
by its owner only, and is published; queued RPCs leave in order and within the
rate limit; the host hears of every other client and never of itself; what is
received is of this room, in order, and the newest; a changed pose leaves within a
send interval and an unchanged one with the heartbeat; a current server is found
and nothing else is; texts and messages come back as they went; the device keeps
its id; an object node knows its owner.

## 2. Modules

| Module | Models | One action is |
|---|---|---|
| `Transport` | outbound half of `ZmqTransport`, two threads | a stretch between two points where the other thread can be observed: a critical section of `outbound_mutex_`, an access to an atomic flag, a call into libzmq |
| `ControlLane`, `PoseSlot` | what the transport promises of control messages and of a latest-wins slot, without threads, locks or sockets | one acceptance, delivery, loss, submission |
| `TransportRefinement` | the mapping under which `Transport` implements both | - |
| `TransportProofs`, `SessionProofs`, `NetworkVariablesProofs`, `ObjectsProofs`, `RpcProofs`, `InboundProofs`, `SceneProofs` | theorems about the module of that name | - |
| `ClientProofs` | theorems about the smaller parts: `Presence` (other avatars), `LocalPose` (the own one), `Discovery` and `DeviceId` (what a client needs before a session), `Codec` (what a message makes of a value) | - |
| `OwnPose`, `ServerSearch`, `OwnIdentity` | `LocalPose`, `Discovery` and `DeviceId` as instances: state, assumptions and properties, under names that do not clash with the module beside them in a run or in the proofs | - |
| `Inbound` | `receive_sub`, `receive_control`, `handle_payload`, the swap of `poll` | one frame group read, one delivery, one `poll` |
| `LocalPose` | the local pose from `set_local_pose` to `set_latest_transform` | one call, one frame |
| `Discovery` | `ServerDiscovery` with its thread and the servers | one probe, one broadcast, one socket read, one flag access |
| `Connection` | what the client promises of the life of a connection, without calls, threads or queues | one phase reached, lost, failed or ended |
| `Session` | `NetSyncClient` with the discovery and network threads it starts and joins | a step of `connect`, `disconnect` or `poll` up to the next join, queue swap or flag read; a push by a thread |
| `NetworkVariables` | `NetworkVariableManager`, the server, both channels | one call, one handled message |
| `Objects` | `ObjectSyncManager` as `poll` drives it, the server, both lanes | one call, one `poll` |
| `Rpc` | `RpcManager` | one call; one turn of the loop of `flush_pending` |
| `Presence` | `DeviceMapping`, `process_room_pose` and the mapping branch of `process_control_payload` | one call, one `poll` |
| `Codec` | the rules of `pose_codec.cpp` for one value: flags, texts, numbers, rotations | - |
| `WireFormat` | the writers and readers of protocol v8 | one message written; one payload, whole or cut, read |
| `Json` | the encoder, the parser with its depth limit, `dump`, the decoder | one symbol or fragment added to the input |
| `DeviceId` | the id file over launches | a system call of `load_or_create_device_id`; the death of the process |
| `Scene` | `NetSyncManager`, `NetSyncObject` and the bridge's `poll` | a stretch between two points at which the host's code can run |
| `MC*` | the instances TLC checks | - |

Every definition names the function it translates in a comment where that is
not its own name, and PROJECT.json maps it to source lines. A definition that
starts with the word Mutant in its comment is a wrong variant of the next one;
it belongs to no specification and shows that a property would notice that bug.

How code becomes state:

* In `WireFormat` a number's bytes keep the number, their place and the width: a
  reader that mixes bytes of two fields is caught, while the byte order within a
  number (which the golden vectors of the tests fix) is not modelled. What a
  receiver should hold is stated a second time, without writer or reader:
  longest prefix of whole characters, nearest multiple of the step, flags as
  sets.
* A rotation is a quaternion of four integers, `Unit` to the one, with a sixteenth
  of a step of the ten-bit code as its last place (the code's own numbers are
  doubles). Multiplication, inverse, normalisation, the smallest-three code with its
  clamp and rounding, and the yaw are computed in that fixed point; square root,
  sine, cosine and arc tangent are external and are approximated to a last place or
  two. Rotations are compared up to the sign of the whole quaternion: to two steps
  of the code for one that is sent as it is, four for one that is sent relative to
  the head.
* A queue is a sequence, a map a function with `None` where it has no entry, an
  optional value `None` when its flag is false. A pose, a value or a device is
  an atom; what matters is which ones are equal, because the code compares
  payloads and not submissions.
* A control packet is the number of its enqueue (`Transport`), a kind
  (`Session`), or the variable and value it carries (`NetworkVariables`).
* Time is a clock (`Transport`, where a packet's stamp is compared over a whole
  session) or the age of an event, which stops counting where no comparison in
  the code can tell (`NetworkVariables`, `Session`, `Objects`, `Rpc`).
* Variables listed last in each module are what an observer of the session sees:
  what was accepted, sent, granted. The code keeps none of them, and no guard
  of a modelled operation reads them, except through a named bound.
* Undefined behaviour is a choice. `clear_outgoing` empties `pending_control_`
  under the lock while the network thread uses it without; `NetSendTorn` sends a
  frame from that storage and sets `torn`. It may be called at any time, as the
  header says and a test does; the client itself calls it from `stop` only.

* In `Inbound` a topic is a sequence of symbols, so that a room's name can be a
  prefix of another's; a message has one to three frames.
* In `Discovery` a reply is the sequence of its fields and a TCP reply may be cut
  in or between them. In `Json` a text is a sequence of symbols, where a numeral, a
  word and the digits of an escape are one symbol each. In `DeviceId` a file holds a
  number of pieces of an id, and stdio's buffer reaches it in `fclose` only.
* In `Scene` everything is one thread, and the hard part is re-entrance: the
  events of a `poll` are emitted one by one, and between them, and while the
  registered nodes are visited, the host may add and remove nodes, disconnect
  and connect again.

The modules meet at narrow places: `Session` sees of the transport whether
`try_enqueue_control` accepts (outbox limit, running, no error), which is what
`Transport` describes in detail; `Rpc` and `NetworkVariables` let it accept or
refuse at will, which covers both; `Objects` and `Presence` see the inbox with its
limit and the latest-wins room slots, which `poll` empties under one lock, and
which `Inbound` describes from the sockets on. In both, messages and snapshots are in
flight on lanes of their own, either may overtake the other, and control messages of
other kinds take places in the inbox; `LocalPose` ends at the slot that
`Transport` starts with; `Session` sees of `Discovery` that it finds or misses;
`Scene` sees of the client its number, the owners and the events of a poll.

`TransportRefinement` states what the two threads add up to. A packet waits from
its acceptance until it is delivered or dropped, in the outbox or held; a slot owes
its newest payload until that very payload was shown. A session is over, for both,
once `stop` has cleared the queues, although the thread may still be running.

`Connection` states the same of the session: connecting, connected, synchronising,
ready, in this order and none skipped; then perhaps failing, when the transport has
failed and `poll` has not heard of it yet, which `state_` shows as Synchronizing
again; an error at any time; the end at any time. `Session` is mapped to it by
`Phase`, the Ready events of the connection and the number of connections.

External parts, each modelled from how the code uses it: libzmq (a send is
accepted, refused, or fails on the second frame), the server (answers a hello,
applies variables, grants ownership, broadcasts), the clocks. The server gives a
device the same number at every join (docs/UPSTREAM_COMPATIBILITY.md), so
`Presence` uses devices for numbers. The protocol has no message that leaves a room:
after a reconnect the server still has this device, its last pose and its objects.

## 3. Runs

Passing runs, each a question of its own:

| Run | Question | States |
|---|---|---|
| `transport` | Over two sessions, with expiry, backpressure, failing second frames, `clear_outgoing` and `stop` at any moment: is nothing of a session sent or queued in the next (`SessionIsolation`)? Does `stop` return, does every packet leave (`StopReturns`, `ControlLeaves`)? Does the newest pose of the avatar and of every object get out, although a control packet may be held for ever (`PosesDelivered`)? Do the threads implement the lane, so that packets leave in order and at most once, and the slots (`ImplementsControlLane`, `ImplementsSlots`)? | 519 k |
| `poses` | In: is what `poll` hands on of this room and session and in order (`SeenInRoomAndOrder`), is the newest of each kind never lost in a drain (`NewestDelivered`), is every control message accounted for (`ControlAccounted`)? Out: is a new pose handed over within a send interval (`PoseNeverStale`) and an old one repeated (`HeartbeatKept`)? | 701 k |
| `session` | Two connections in a row: nothing stale (`NoStaleEvents`), Ready means ready and comes once (`ReadyAfterHandshake`), the hello is said once and accounted for (`HelloAccounted`), errors surface (`ErrorSurfaces`), no phase is skipped and none comes back, Error least of all (`FollowsLifeCycle`), calls return (`CallsReturn`), readiness comes (`ReadyEventually`). And the search before it: what is found is a current server's (`FoundIsGenuine`), the search and `stop` end (`SearchEnds`). | 241 k |
| `room` | Variables, whatever snapshots, cooldowns, refusals and session ends interleave: does a global end with the value the host asked for last, and is a deferred value scheduled (`GlobalIntentKept`)? Is the dedupe cache right when all is quiet (`DedupeCoherent`)? Objects, of which two lanes tell the owner, each in its own time: does the client end up with the server's view (`OwnerCoherent`), and publish only what the server has had as its own in this session (`PublishesOnlyGranted`)? | 1,861 k |
| `objects_publish` | Does the pose of an object that stays the client's get through (`PosePublished`)? | 853 k |
| `rpc` | Do the rate limit (`RateLimited`) and the books and order of the queue (`QueuedAccounted`) survive invalid targets, refusals and a changing limit, and does the queue drain (`PendingLeaves`)? | 156 k |
| `presence` | Is the host told of each other client that stays or leaves (`RemoteTracked`), and never of itself (`OwnNeverAnnounced`)? | 276 k |
| `formats` | Does each deserialiser return what its serialiser was given, up to the stated limits (`RoundTrip`), refuse every strict prefix (`TruncationRefused`), and keep its place in a room pose whose flags were not cleaned and whose virtuals are within the limit (`StaysAligned`)? Do RPC arguments and nested values survive JSON (`ArgumentsSurvive`, `CompactFormFaithful`)? Does an id that was read or written stay the device's id, wherever launches die (`IdentitySurvives`)? | 439 k |
| `scene` | Does every registered node come to know the owner its client knows, whatever handlers do in the middle of a frame (`NodeFollows`)? When a frame has visited the nodes, does each know its client's owner (`VisitTellsOwner`)? | 322 k |

`poses`, `session`, `room` and `formats` each check components that share no state: a
behaviour moves one component and leaves the others in an initial state, so the
run explores exactly the behaviours of each. In `session` nothing that fairness
speaks of is enabled in the state in which the other component stays, so no
behaviour is lost to a fairness condition of a component at rest; `poses`,
`room` and `formats` check safety only.

Runs that end in a violation, each a disagreement between the code and what a
comment, header or document of the repository says (quoted under "findings"):

| Run | What TLC shows |
|---|---|
| `session_hello` | A variable set between `connect` and the first `poll` after the sockets are up is sent before the hello, which "must be the first control message". |
| `variables_client_intent` | `handle_client_sync` takes any value in a snapshot for our last send. Another writer's equal value cancels our pending one while an older one of ours is still on its way, and that one wins. |
| `scene_respawn` | `unregister_object` erases whatever node holds the id: when a node leaves after its successor has registered, the successor is no longer served. |

Section 4 lists the other disagreements the modules state. Deadlock is checked
in every run except `formats`, where inputs and launches come to an end.

### 3.1 Bounds

A bound is a constant with `Max` in its name, described where it is declared,
and stands in the guard of the one action that would exceed it. The limits of
the code (`OutboxMax`, `InboxMax`, `DrainBatch`, `MaxPending`, `TTL`...) are
constants of their own, set to 1 or 2 so that a full queue, an exhausted batch
and an expired packet all happen.

* `transport`: two sessions, each of one of three kinds (`MCTransport`). Packets:
  three of them against an outbox and a batch of two, so a batch ends with a packet
  left, one is held and one refused; the clock runs one tick beyond the TTL of a
  packet accepted at time 1. Slots: two payloads for the avatar and the object 1, so
  equal and different submissions both meet the send. All lanes: the avatar and the
  objects 1 and 2 with one payload, submitted again and again, and a packet that does
  not expire and may be held for ever, in a single session without failures. An
  action constraint keeps to these; what it removes are calls of the host and failing
  sends, of which no fairness speaks. The theorems of section 5 cover all lanes
  together, for any number of objects and sessions.
* `poses`: two rooms, one's name a prefix of the other's, three messages of one to
  three frames, a SUB socket of four frames, an inbox of one, two sessions; two
  poses, send intervals of one to three ticks against a heartbeat of five.
* `session`: two connections, an outbox of one (the hello can find it full), an
  inbox of two (it overflows), one failure for each transport, one packet of the
  host's own in each session, which can fill the outbox before the hello. The search:
  an old, a current and a faulty server, the current one behind the second
  interface only, one on this machine, interfaces of every kind that
  `getifaddrs` reports, socket buffers of two, two searches.
* `room`, variables: a global and a client variable with two values, two packets up and
  two snapshots down; a behaviour writes one of the two (`OneKeyWritten`), since
  they meet only in channels that keep their order. A variable cooldown is one
  tick. `MaxVars = 1` with one variable written: a second name never meets
  the limit in this run, so the refusal at the limit is not exercised by it.
* `room`, objects: one object, two poses, an inbox of one (any other message pushes an
  ownership message out), two messages and one snapshot in flight and one waiting.
  `objects_publish`: one message in flight, heartbeat twice the send interval.
  Objects do not read each other's entries.
* `rpc`: three RPCs, a queue of two, windows of one and two ticks, limits of none
  and two.
* `presence`: one other device, an inbox of two shared with messages of other kinds,
  two tables and two snapshots in flight, two connections. Devices meet only in
  messages that carry the whole table or room.
* `formats`: a table of messages, all fifteen types of v8. Every flag byte from 0 to
  127 meets hands off the grid and more virtuals than allowed; heads and limbs are
  turned about different axes, so that the order of a product shows, some
  with their largest component negative, at the bounds of the code or zero, one of
  them no rotation at all; strings of
  one-, two- and three-byte characters cross limits of 4 and 13 bytes, 2 and 3
  characters at every place in a character; coordinates lie on the grid, on ties
  of both parities and signs, and beyond 16 and 24 bits, which keep their real
  width. Lists have at most two entries where the code has no limit, and exceed it where it
  has one (targets of an RPC, virtuals). Each message is read at every length. JSON texts of up to seven
  fragments under a depth limit of two (a text is extended only while the
  parser asks for more), argument lists of two with up to four characters, among
  them both surrogates, alone and paired. Four launches on an id of two pieces: one
  dies, one finds the rest, two more read it.
* `scene`: two nodes, one that claims, two sessions with different client numbers,
  one message for each poll; `scene_respawn` has a third node with the id of the
  first. With one node and two messages for each poll, and with two nodes, one
  session and two messages (956 k states), `NodeFollows` holds as well.

Only `room` uses symmetry, of the two poses; it checks no liveness.

### 3.2 Fairness

* The network thread is scheduled, finishes its calls and tests `should_stop_` in
  every iteration: weak fairness of its step (`Transport`, `Session`); all libzmq
  calls are non-blocking, so no step of it can wait.
* Calls of the main thread that have begun are finished; discovery probes have a
  time-out and return, so the discovery thread's step is weakly fair.
* The host polls in every frame (net_sync_manager.gd calls `poll` from
  `_process`) and its clock advances between frames: weak fairness of `poll`'s
  steps, strong fairness of `Time` in `Session` and `Rpc`, where a call in progress
  stands between two ticks. In `Scene`, weak fairness of the steps of a frame: Godot
  calls `_process`, and the host's handlers return.
* No failure is ever forced: that a live connection breaks or, in `Session`, that
  a search finds a server is possible and never certain.
* External: a transform socket tried again and again accepts a pose now and then, of
  the avatar or of some object (strong fairness of the two pose sends together;
  without it a peer that never reads starves them, and the code cannot help that).
  Nothing is assumed for one object: that none is passed over follows from the loop,
  once the host leaves the slots alone. While it keeps refilling the slots that come
  first, the ones behind them may starve, and `PosesDelivered` says so; the server
  answers a hello and keeps broadcasting the room; in `Discovery`, when current
  servers are asked again and again an answer of one of them gets through now and
  then (strong fairness of `GoodReply`, and of no other reply). Nothing is assumed of
  the control socket: packets leave by expiry. In `Objects` nothing is assumed of the
  control lane either: `PosePublished` holds although ownership messages may be in
  flight for ever. In `Presence` a table that was sent arrives.

`NetworkVariables`, `Inbound`, `LocalPose`, `WireFormat`, `Json` and `DeviceId`
are checked for safety only, and have no fairness.

## 4. What the checks say about the code

* The latest-wins slots are right: the comparison before the clear is needed and
  sufficient, even when the same bytes are submitted twice.
* The unlocked use of the held packet in `drain_control_sends` can send a frame of a
  packet that `clear_outgoing` has dropped (`DroppedNeverSent` below). Order, isolation of
  sessions and the books of the lane survive it.
* `connect` after a failure is sound because both joins come before the reset;
  moving the reset would let a stale notification in (`NoStaleEvents`).
* A client snapshot is reconciled differently from a global one. The global rule
  (forget the cache when the server disagrees) keeps the host's intent; the
  client rule does not.
* The heartbeat of `ObjectSyncManager::tick` is more than a service to late
  joiners: ownership learned from a snapshot does not reset the send state, and
  when the inbox has dropped the message, only the heartbeat sends the pose.
* Ownership converges whichever lane is late: a stale message applied over a newer
  snapshot is undone by the newer message behind it or, when a full inbox has dropped
  that one, by the next snapshot. A client
  that reconnects before the server has timed it out is told by the first snapshot
  that its objects are still its own, and publishes them without asking again.
* A mapping that other control messages push out of a full inbox is not repeated: a
  client that it named stays unannounced until the table changes again, and
  `RemoteTracked` sets the case apart (`lost`).
* One RPC with a target that cannot be encoded blocks the queue for its TTL, and
  what is behind it may expire with it: `PendingLeaves` holds by expiry.
* The client's own avatar is in `remote_poses_` from a snapshot that precedes the
  mapping after a reconnect, but it is never announced, because it is mapped in
  the same step in which its number becomes known.
* The wire format is consistent: relative encoding against the exact head and
  decoding against the quantised one costs one rounding of each and nothing more.
  Of rotations the same holds to a few steps of the ten-bit code; no code stands for
  zero, so an identity comes back as a turn of about a tenth of a degree.
* JSON has no word for an infinite number: a nested 1e999 is read as infinity and
  handed on as null. Every other value survives its compact form.
* The prefix subscription is harmless because `receive_sub` compares the whole
  topic; a slot left by a drain is overwritten by a newer one only.
* A hello that expires in the outbox is never repeated, and `ReadyEventually` sets
  that case apart: the code has no answer to it.
* A cut TCP reply gives no server or the right ports: the last field is the name,
  and only the name can be short.
* A truncated device id that a launch finds is kept as it is. The identity is
  stable, but it need not be a UUID.

Disagreements with a comment or document that have no run of their own. Each is
stated in its module, and TLC refutes it with the constants named:

| Property | Constants | What happens | Said where |
|---|---|---|---|
| `NothingSentAfterError` (Transport) | `Transport.cfg` | After a failed second frame the loop goes on sending on the same sockets. | zmq_transport.hpp:60, "when the loop aborts" |
| `DroppedNeverSent` (Transport) | `Transport.cfg` | `clear_outgoing`, on a running transport or in `stop`, empties the held packet while the network thread, which does not take the lock, is sending it. | zmq_transport.hpp:95, "Drop everything queued for sending. Used on room switch and shutdown."; tests/transport/test_outbound_queue.cpp:275 calls it on a running transport |
| `ResponderCached` (Discovery) | `Session.cfg` | Nothing calls `set_cache`, so a server found on the network is not remembered. | docs/PROTOCOL_V8.md:682, "On success the responder's IP is cached." |
| `NeverDesynchronised` (WireFormat) | `Formats.cfg`, `ForeignPoses <- MCOverfullPoses` | A body announces one virtual more than the limit: the count is clamped, the last entry stays unread and is taken for the next client. | docs/PROTOCOL_V8.md:249, "so a non-conforming sender cannot desynchronise the reader" |
| `CooldownRespected` (NetworkVariables) | `VariablesClientIntent.cfg` | A leading-edge send keeps an earlier deadline, and the trailing flush follows at once. | network_variable_manager.hpp:4, "leading-edge send with a 100 ms cooldown" |
| `StateReported` (Session) | `SessionHello.cfg` | `connect` and `disconnect` assign the state without an event. | net_sync_manager.gd:28, "The connection state changed." |
| `SubmittedByOwner` (Objects) | `ObjectsPublish.cfg` | A pose submitted under another owner is kept, and `tick` publishes it after a grant. | net_sync_manager.gd:461, "Ignored unless this client owns it." |
| `LiteralTextKept` (Json) | `Formats.cfg` | A number is printed anew: 1e3 becomes 1000. | json_util.hpp:31, "by their literal text" |
| `WriteReported` (DeviceId) | `Formats.cfg` | A flush that fails in `fclose` returns true. | device_id.hpp:36, "Returns false when the write failed." |
| `SilentAfterDisconnect` (Scene) | `Scene.cfg` | The rest of a poll's events is emitted after a handler has disconnected. | net_sync_manager.gd:259, "drop all room-scoped state" |
| `ClaimMade` (Scene) | `Scene.cfg` | The one-shot claim is used up by the first session. | net_sync_object.gd:36, "as soon as the client is ready" |

Known limits of the code that no property is about: the limit of 100 variables
counts confirmed names only, so a burst of new names passes it
(network_variable_manager.cpp:98); a direct RPC that a full outbox refuses is lost
without an event (rpc_manager.cpp:83); a packet that expires in the outbox stays
in the dedupe cache as sent (network_variable_manager.cpp:120); the serialisers of the
server's messages would wrap a two-byte count (protocol_v8.cpp:353).

## 5. Theorems

TLAPS proves, for every value of the constants, every safety invariant and every
action property that a run checks about a module without recursive operators,
the three refinements, the rules of the wire format for one value, and the type
invariants. Each proof has the same shape: a
conjunction of named parts is shown to hold initially and to be kept by every
action (one step lemma for each part, one case for each action), and the property
follows from it. The properties are seldom inductive alone; the other conjuncts
say why they hold.

### 5.1 `TransportProofs`

For any payloads, object ids, outbox limit, batch, TTL and number of sessions:
`TypeCorrect`, `ControlOrdered`, `SessionsIsolated`, `AllAccountedFor`,
`NewestPoseKept`, `ConnectedReportedFirst`. The invariant is
`SafetyInv`, defined at the end of `Transport`:

* `OrderInv`: wire, held packet and outbox are three consecutive pieces of one
  increasing sequence, all of this session. `ControlFifo` speaks of the wire
  only, and says nothing about the packet that is sent next.
* `CallInv`: what a call in progress implies for the flags and for the network
  thread; it ties the end of a session to the empty queues from which the next one
  starts.
* `SlotInv`: a filled slot holds the newest pose, and stays filled while its copy
  is being sent unless `clear_outgoing` has emptied it; hence an emptied slot means that the
  newest pose was the one sent.
* `ReportInv`: nothing is reported while the sockets are being opened.

`LaneImplemented` and `SlotsImplemented` prove the two refinements. Each action
of a thread is a step of `ControlLane` (or of a `PoseSlot`, for the avatar and for
every object id) or a stutter, from `SafetyInv` and `CopyInv`: the network thread
drains with a time that has been, and what it sends from a slot is a payload.

### 5.2 `SessionProofs`

For any queue limits, time-outs and number of connections: `EventsNeverStale`,
`ReadyOnlyAfterHandshake`, `HelloAlwaysAccounted`, `ErrorNeverLeft`,
`SessionTypeCorrect`. `SessionInv` has one part for each reason:

* `CallInv`: what the joins have achieved by each step of a call. `EpochInv`
  needs it: threads and what they pushed belong to the present connection, because
  both joins come before the reset.
* `SearchInv`: a search reports once, and until its report is heard the transport
  is not started, so no two transports share a connection.
* `ErrorInv`: after an error only errors follow, so no late report of a connection
  can leave the Error state.
* `HandshakeInv`: a mapping on its way, in the inbox or applied answers a hello
  on the wire. `ReadyInv`: readiness is lost only to a failure, which lasts as long
  as the connection; hence the event fires once although it is re-armed.
* `HelloInv`: the one hello is found in what was said, or it has expired.
* `ReportInv`: a connection reports its sockets once, and is still connecting when
  it does. `PhaseInv`: a hello or a Ready event belongs to a phase from which it can
  have come; only a call that is about to join the thread has told it to stop.

`LifeCycleFollowed` proves that `Session` implements `Connection`. Most
steps move nothing of it; the others are of five shapes (`StateStep`). The one
that needs the whole invariant is Ready: `update_ready` would take any state
there but Error and Disconnected, and it is always Synchronizing, because the
device is mapped, so a hello was on the wire, so the flag was set, so the phase
had been reached (`MappedAfterHello`).

### 5.3 `NetworkVariablesProofs`

For any keys, values, scopes and bounds: `GlobalIntentAlwaysKept`,
`DedupeAlwaysCoherent`, `VariablesTypeCorrect`. `GlobalInv`: the last value of a
global on its way up, or else the server's, is the host's intent unless a value
is pending, another client has written or a packet was lost; and the dedupe
cache agrees with it. `SnapshotInv`: the newest snapshot on its way shows the
server's value unless it has changed since. `ClientInv` is the weaker fact that
client variables have: `ClientIntentKept` fails (section 3).

### 5.4 `ObjectsProofs`

For any ids, poses, inbox limit, intervals and messages in flight:
`OwnerAlwaysCoherent`, `OnlyGrantedPublished`, `ObjectsTypeCorrect`. `ToldInv`: the
last ownership message on its way about an object, or the last one in the inbox when
none is, tells the server's owner. `KnownInv`: for an object that has not changed since
the last snapshot was sent, and has lost no message since, the newest snapshot on its
way, or else the slot, shows what the server has; or else the client does, unless a
message about the object has yet to be applied. `GrantedInv`: nothing anywhere says that an object is this client's
that the server has not had as this client's in this session.

### 5.5 `RpcProofs`

For any limits, windows, TTL and queue length: `RateAlwaysLimited`,
`QueuedAlwaysAccounted`, `RpcTypeCorrect`. The code counts the hits in
`rate_hits_`, which is pruned lazily and also holds attempts that were refused;
the property counts sends. `WindowInv` relates them without counting: the k-th
youngest send within the window is one of at most `limit`, and the k-th youngest
hit is no older. That the hits are sorted makes popping the front the same as
forgetting what left the window. `QueueInv` says that only queued RPCs wait. The
sets that are counted are intervals and images of them; their cardinalities come
from the library's theorems.

### 5.6 `InboundProofs`

For any rooms of which none is another's objects topic, any socket and inbox
limits, messages and sessions: `SeenAlwaysInRoomAndOrder`,
`NewestAlwaysDelivered`, `ControlAlwaysAccounted`. `SocketInv`: frames come in whole
messages, a topic first, each belonging to a message that was sent in this session
on this socket's lanes. `LaneInv`: for poses and for objects, what is in the
socket, held by the drain, in the slot and handed on is one increasing sequence
(`LaneOrder`), and the newest is in one of these places (`LaneNewest`).
`ControlOrder` is the same for the control socket and the inbox.

### 5.7 `ClientProofs`

Presence: `OwnAvatarNeverAnnounced` for any devices and any messages in the inbox.
`NumberWithTable`: the table
never has this device while the client does not know its own number.

The own avatar: `PoseAlwaysFresh` and `HeartbeatAlwaysKept` for any poses, heartbeat
and set of send rates with a slowest one (`LocalInv`): the change detection compares
with what was handed over last, the pose to send has been another one for no longer
than `last_pose_send_time_` is old, and the silence is shorter than that age and a
heartbeat together: a quiet poll restarts the throttle only while the heartbeat is
not due.

Discovery: `FoundAlwaysGenuine` for any servers, interfaces
and buffers. Buffers hold whole replies of servers; a cut of a reply has fewer than
six fields or has lost at most the end of the name (`CutShaped`), and what
`parse_discovery_response` makes of such a reply is what the server advertises
(`ParsedGenuine`); until the thread ends it has called nothing, and what it is about
to report is genuine (`SearchInv`).

The device id: `IdentityAlwaysSurvives` for ids of any size. When a launch has opened
the file for writing there is no value the file would have to keep
(`NothingToLose`).

The codec, for one value of a message:

* `NumbersCarried`: every number at every positive scale, hence every rational one,
  arrives as the nearest step, the even one on a tie, the last one when it is out
  of range. Rounding is within half a step (`Rounded`), clamping takes it no further
  from the clamped value (`ClampedNearest`), and the width gives a number in range
  back (`SignedBack`).
* `HandsKeepTheirPlace`: a hand is encoded against the exact head and decoded against
  the quantised one; relative to the head it is exact to a fine step, in the room to
  half a step of each.
* `FlagsAgree`, for each of the 256 flag bytes.
* `ComponentsCarried`: each component within the bounds has a ten-bit code and comes
  back to half a step of it. `RotationsRestored`: for all integer quaternions, the head
  times its conjugate times the limb is the limb times the squared length of the
  head, so the two products, in the order in which `write_relative` and
  `read_relative` take them, undo each other exactly. What the roundings between them
  add up to is left to `RoundTrip`.
* `TextsCutWhole`: for any bytes that start with a character and any limits, the two
  cuts one after the other leave the longest prefix of whole characters within both.
  The number of characters that begin in a prefix grows with it by one or not at all
  (`LeadsCounted`), so one length divides what fits from what does not
  (`CodePointsKept`). The induction is hidden in the least element of a set of
  numbers (`LeastNat`), which follows from the library's well-founded relations.

### 5.8 `SceneProofs`

`VisitAlwaysTells` for any nodes, shared ids included, client numbers, sessions and
inbox: it states `VisitTellsOwner`. `VisitInv` carries it through the visit: a node
knows its owner unless its turn is to come or the host has touched the object since
the visit began. `EntryInv`: the entry of an id is a node of that id, so telling one
object's node does not change what another's knows, even where two nodes share
an id. `KeysInv`: nothing is left to visit outside a visit.

### 5.9 Assumptions

They stand in the module that declares the constants and TLC evaluates them in
the runs: `None` is no payload, value, number or snapshot; limits are positive; ids are
numbers. Three say more. `Inbound`: rooms are texts, and no room's name is another's
objects topic (the suffix starts with a NUL, which no room name holds).
`LocalPose`: there is a slowest send rate (the code clamps rates to 0.5 Hz and
more). `Discovery`: a server advertises a version, four port numbers and a name,
and `getifaddrs` returns a list of interfaces. `Discovery`, `LocalPose` and `DeviceId`
are instantiated and not extended, so their assumptions are named formulas, which
`ServerSearch`, `OwnPose` and `OwnIdentity` assume; both the runs and the proofs extend
these.

### 5.10 Only model-checked

* Liveness (`StopReturns`, `ControlLeaves`, `PosesDelivered`, `CallsReturn`,
  `ErrorSurfaces`, `ReadyEventually`, `SearchEnds`, `PosePublished`, `PendingLeaves`,
  `RemoteTracked`, `NodeFollows`): the prover has no rules for fairness.
* `RoundTrip`, `TruncationRefused`, `StaysAligned`, `ArgumentsSurvive`,
  `CompactFormFaithful`: what the readers and writers of `WireFormat` and `Json`
  make of lists and nested values is defined by recursive operators, about which the
  prover cannot reason. What `RoundTrip` says of a single number, hand, flag byte,
  rotation or text is proved (section 5.7).
* What the violation runs of section 3 refute.

The type invariants (`TypeOK`), `ConnectedFirst`, `NoSilentLoss`, `LatestNotLost`
and `ControlFifo` of `Transport`, and `ErrorSticky` of `Session`, are in no run; TLC
confirms them, and the inductive invariants of this section, with the constants of
the runs. The last two overlap with what the runs do check: the order of the control
lane with `ImplementsControlLane`, the sticky error state with `FollowsLifeCycle`.

Two operators have a form that the proofs can use. `Rpc` says by an index how many
hits have left the window (`Overdue`, `Within`), and `Discovery` picks the increasing
enumeration of the usable interfaces (`InOrder`): the library's `SelectSeq` has no
theorem.

## 6. Plan

Done: every module of section 2 and the theorems of section 5. Left:

1. Steps towards the liveness properties that need no fairness: what a leads-to
   argument decreases (the outbox, the pending queue) is never increased by the steps
   between.
2. The remaining hazards without a property, where a property can be stated.

## 7. Not modelled

* The coordinate conversion of the bridge (a sign flip of real numbers, covered by
  tests/compatibility/test_coordinates.cpp) and the bridge methods that forward one
  call and keep no state.
* `NetSyncAvatar` and the XR adapter, which read and write transforms of scene
  nodes; the smoothing of remote poses; the fallback for the device id on platforms
  without a path.
* Numbers that are not finite in poses, and lists whose length overflows a two-byte
  count: only the serialisers of the server's messages count so, which the client
  calls in its tests alone.
* An error bound for all rotations: `RoundTrip` checks the rotations of the run, in
  fixed point; the doubles of the code are finer.
* Logging, counters that nothing reads, third-party code, and the server, except as
  the environment of the client.
