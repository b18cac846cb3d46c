# Verification of multiplayer_game_programming

TLA+ models of the networking code of this repository, the TLC runs that check
them on small instances, and theorems about them that TLAPS checks for every
value of the constants. File names below are relative to the repository:
`src/` is the library, `examples/` the programs that use it.

## 1. The system

The library is a study version of the networking layer of a multiplayer game.
There are no threads: each process is one loop, and everything concurrent
comes from several processes that exchange UDP datagrams or, with the echo
server, TCP streams.

| Part | State | Operations | Interacts with |
|---|---|---|---|
| `DeliveryNotificationManager` | next outgoing and next expected sequence number (16 bits), queue of in-flight packets, queue of pending ack ranges, three counters | `WriteSequenceNumber`, `ProcessSequenceNumber`, `WritePendingAcks`, `ProcessAcks`, `ProcessTimeoutPackets` | its twin at the other end, through sequence numbers and acks in packets; its user, through callbacks |
| `InFlightPacket`, `TransmissionData` | number, dispatch time, items to notify | `HandleDeliverySuccess`, `HandleDeliveryFailure` | owned by the manager; calls back the user |
| `Timing` | steady clock | `GetTimeMS` | managers |
| `NetworkManager` | the socket | `Initialize`, `SendPacket`, `ReceiveFrom` | base class of server and client |
| `NetworkManagerServer` | map from address to proxy, world objects, next player id, linking context | `AddWorldObject`, `ProcessPacket`, `SendReplicationDataToAllClients` | receives SYNC; sends ACKC, STAT |
| `ClientProxy`, `ReplicationManagerServer` | player id, queue of replication commands, a delivery notification manager | `QueueCreate`, `WriteReplicationData` / `WritePendingCommands` | one per client, owned by the server |
| `NetworkManagerClient` | state (Uninitialized, InSync, Connected), player id, linking context, a delivery notification manager | `Initialize`, `Send`, `Read` | sends SYNC; receives ACKC, STAT |
| `LinkingContext` | two maps between objects and network ids, next id | `GetId`, `GetGameObject`, `AddGameObject`, `RemoveGameObject` | server, client, `ReplicationManager` |
| `ReplicationManager`, `ReplicationHeader`, `ObjectCreationRegistry` | set of replicated objects; class ids | `ReplicateWorld`, `ReceiveWorld`, create/update/destroy, `ProcessReplicationAction` | two ends of a stream |
| `OutputMemoryBitStream`, `InputMemoryBitStream`, `Serializer`, `Deserializer`, `ObjectSocketUtil` | buffer, head and capacity in bits | `Write`, `WriteBits`, `Read`, `ReadBits`; `Send`, `Receive` of an object | everything that sends |
| `TCPSocket`, `SocketSelectUtil`, `examples/echo_server` | sockets being watched, sockets that are ready | `Select`, `Accept`, `Receive`, `Send` | clients over TCP, through descriptors |
| `UDPSocket`, addresses | file descriptors | socket calls | the operating system |
| `examples/` | | main loops | the parts above |

What is hard in it, with what would make it correct:

- *Loss, repetition, reordering.* Delivery notification exists for them: a
  payload is taken at most once and in order; each packet gets exactly one
  report; "delivered" is never said of a packet that was not accepted.
- *A timeout racing an ack* for the same packet at the head of the same queue.
- *Boundaries of machine integers*: the wrap of 16-bit sequence numbers against
  32-bit sums, a run of more than 256 acks, unsigned subtraction from a clock.
- *Uninitialized memory* in a freshly constructed manager.
- *Joining*: clients register at any moment between rounds of replication;
  SYNC, ACKC and STAT may be lost, repeated and overtake each other.
- *Partial failure*: a send that throws in the middle of a round, a bind whose
  failure has the wrong sign.
- *Progress*: the server only speaks when spoken to.
- *One thread, calls that block*: what `select` reported is used while clients
  stop reading, leave, and give their descriptors to others.
- *Bits*: fields at every offset of a byte, buffers that grow under them,
  machines of different byte order, messages cut short.

`PROJECT.json` lists the hazards line by line, with the properties that cover
each of them.

## 2. The modules

| Module | Models |
|---|---|
| `DeliveryNotificationManager` | the class: a manager is a record with the class's fields, its methods are operators |
| `AckLoop` | the `while` loop of `ProcessAcks`, one iteration per step |
| `DeliveryPair` | two endpoints with a manager each over an arbitrary network, after `examples/delivery_notification_socket.cpp` |
| `DeliveryPromise` | the abstract specification: what delivery notification promises its user |
| `GameSession` | one server and its clients: `examples/server.cpp`, `examples/client.cpp` and the classes under `Server/` and `Client/` |
| `LinkingContext` | the class: the two maps between objects and network ids |
| `WorldReplication` | a sender and a receiver with a `ReplicationManager` each: `examples/replication_socket.cpp`, continued over several messages |
| `MemoryBitStream` | the two bit streams: a stream is a record with the class's fields, its methods are operators |
| `ObjectStream` | a message of fields that is written, transferred and read: `examples/robocat_serialization.cpp`, `examples/robocat_socket.cpp`, `ObjectSocketUtil`, `ReplicationHeader` |
| `SelectEcho` | `examples/echo_server.cpp` with `SocketSelectUtil` and `TCPSocket`, and its clients |
| `MCDeliveryPair`, `MCGameSession`, `MCWorldReplication`, `MCObjectStream`, `MCSelectEcho` | constants and symmetry for TLC |
| `DeliveryNotificationManagerProofs`, `DeliveryPairProofs`, `DeliveryPromiseProofs` | theorems on delivery notification: its operators, its invariants, and that it implements its promise |
| `AckLoopProofs`, `GameSessionProofs`, `WorldReplicationProofs`, `ObjectStreamProofs`, `SelectEchoProofs` | theorems on the module each is named after |

**DeliveryNotificationManager.** `WriteSequenceNumber(m, now)`,
`WritePendingAcks(m)`, `ProcessSequenceNumber(m, seq)` return the manager after
the call. `ProcessAcks(m, acks, missed, popped)` and
`ProcessTimeoutPackets(m, now, n)` are predicates that say how many entries the
call takes from the front of the queue; `AfterPops` is the manager after that
and `CallbacksOfPops` the callbacks it makes. `ProcessAcks` looks at the first
range of a packet only, because the code reads only one. `OnWire` is
`AckRange::Write` followed by `Read`, which cuts a run at `MaxAckRun` (256).
`SeqMod` is 2^16 in the code and small in the runs; sums of a number and a count
are not reduced, as the code computes them in 32 bits. `AckLoop` closes the gap
between the two counts and the loop: from every queue of consecutive numbers
and every range it runs the loop's three branches and compares at the end.

**DeliveryPair.** `SendPacket`, `ReceivePacket` (with `DropOldPacket` for its
early return) and `SweepTimeouts` are the two functions of the example and its
call of `ProcessTimeoutPackets`. The example makes these calls in one fixed
order on one machine; the model makes them in every order, with a network that
keeps every datagram for ever and so may lose, repeat and reorder. `callbacks`
and `accepted` are histories of what the user of a manager sees.

**DeliveryPromise.** Packets are dispatched; the peer accepts some of them in
the order of dispatch; each is reported once, in order, and reported delivered
only if it was accepted. It has no numbers, acks, queues or clock.
`DeliveryPair!Promise` maps the detailed state to it.

**GameSession.** The server's program counter is `phase`: `start`, `setup`
(objects are added), `receive` (the top of the loop), `replicate` (inside
`SendReplicationDataToAllClients`; `toUpdate` holds the proxies the loop has not
reached, in the arbitrary order of an unordered map) and `ended`. Receiving a
packet and registering its sender is one step, since nothing outside the
process can see a point in between; every `SendPacket` is a step of its own
because datagrams are visible and each may throw. A client's actions are
`InitializeClient`, `Send`, `HandleAckedPacket`, `HandleReplicationData`.
`written` is the history of the network ids that were written for each client.
The dispatch time of STATs is 0: the server never sweeps timeouts.

**WorldReplication.** A connection uses one of the two protocols of
`ReplicationManager`, whole worlds or single actions. The loops over the objects
of a world take one step per object (`ReplicateGameObject`,
`RecieveGameObject`); the second loop of `ReceiveWorld`, which destroys what is
absent, is the one step `RemoveAbsentObjects`, since nothing can come between its
turns. The stream is reliable and ordered, and one receive takes one message, as
in the example. `heap` holds the receiver's objects, with `destroyed` where
`Destroy` deletes. `shown` is the history of what a receiver of everything sent
should show. An object may be destroyed and linked again, under a new id.

**MemoryBitStream** and **ObjectStream.** A byte is a function from bit numbers
to bits, so that shifts, masks and `|` are what they are in the code, and a bit
of memory that nobody has written is a third value, `Unwritten`. `WriteByte` is
`WriteBits(uint8_t, size_t)`, with `Grown`, `Joined` and `Spilled` for its three
parts; `Turns` are the calls of it that `WriteBits(const void*, size_t)` makes;
`ByteAt` and `BytesRead` are the two `ReadBits`. `ObjectStream` writes any
sequence of fields, one `WriteByte` per step, and reads fields of the same kinds
until it has them all or a read throws. `Transfer` hands over the whole stream
bit by bit, as in memory, or a part of its bytes, as `recv` may. Each machine
has a byte order, and `Swapped` is the code's `#if`. `written` and `begins` are
histories: the bits written so far, and where among them each field begins.

**SelectEcho.** `server.phase` is `select` (waiting in `Select`), `serve` (at the
next socket of `readReady`), `send` (inside a `Send`, with `reply` left to hand
to the kernel) or `ended`. `Select` is one step, since no step of a client
between the return of `select(2)` and the filter changes its result; so is each
accept and each receive; a send takes one step per byte, because it waits where
the connection has no room. `descriptor` gives the descriptors of the
`TCPSocket`s some vector still holds: the `readReady` of a turn goes out of scope
at the end of it, which is at the latest when `select` waits again, and only
then is a removed socket closed. A `select` that fails ends the loop
(`SelectFails`, where `SelectMayFail`), and a client connects only while the
backlog has room (`MaxBacklog`, 32 in `TCPSocket::Listen`). TCP itself is
external and modelled from what the calls return on Linux: bytes in order with
so much room each way, the end of the stream, resets and the errors and the
signal that follow them.

Definitions named `X_Y` (`IsOld_ByTwo`, `Rest_OneLost`, ...) are versions of
`X` with a plausible bug. No specification uses them; put in the place of `X`,
each breaks a property, which shows that the property would notice.

## 3. The runs

| Run | Shows | Bounds |
|---|---|---|
| `ack_loop` | the loop ends and does what the operator `ProcessAcks` says; its inductive invariant | numbers modulo 5, queues up to 7 entries: a queue is longer than the number space |
| `pair_nowrap` | type invariant, delivered means accepted, payloads in order and once, only overtaken packets are dropped once one was accepted, no accepted packet goes unacked, sweeps are exact, `DeliveryPair` implements `DeliveryPromise`; the two inductive invariants of the proofs, `DeliveryInvariant` and `BookkeepingInvariant` | 3 packets each way, 3 accepted, clock 1..4, numbers modulo 6 so that none wraps; any expected number at first |
| `pair_wrap` | every packet has one fate across the wrap, ack ranges never run past the largest number, every packet of an endpoint that keeps sweeping is reported | numbers modulo 3, 3 packets each way: the third is number 0; `MaxAckRun` 2, so that a run can be cut; only endpoint A has to sweep |
| `session_join` | distinct and agreed player ids, batches that make up the world; the inductive invariant `SessionInvariant` | 2 clients with up to 2 SYNCs, 3 objects in packets of 2, 3 STATs per client, a network that repeats, every socket call may fail |
| `session_fair` | no object is made twice, because each create travels once (`CreatesTravelOnce`); a STAT that arrives late is not wasted (`OnlyTheNetworkLosesCreates`); and every registered client gets the world | 2 clients, a world that fits one packet, no repetition, no failure; the liveness property assumes delivery |
| `world_replication` | a receiver that has read everything shows what was sent and has destroyed the rest, no destroyed object is reached again, the maps of a context are inverse, no exception; the inductive invariant `ReplicationInvariant` | 2 objects, 2 values, 4 messages, both protocols |
| `bit_streams` | the buffer holds what was written and sends nothing unwritten, what is read is what was written, reads throw exactly when the message was cut; the inductive invariant `StreamInvariant` | bytes of 3 bits, numbers of 2 bytes, a buffer of 2 bytes that doubles up to three times, 3 fields, machines of either byte order, a receive buffer that may be too small |
| `echo` | echoes are faithful, no call on a ready socket waits, every client that reads is served; the inductive invariant `EchoInvariant` | 3 clients that send 2, 3 and 1 bytes, of which the first may leave early; a backlog of 2; a `select` that may fail; receives of 2 bytes, room for 3 bytes to the server and 1 back, descriptors for the listener and 2 clients |
| `pair_wrap_false_ack` | *fails*: an ack of the largest number delivers the whole queue | numbers modulo 3 |
| `pair_ack_lost` | *fails*: the second range of a packet is not read | 3 packets each way |
| `session_large_world` | *fails*: creates beyond the first packet stay queued for ever | 1 client, 3 objects in packets of 2 |
| `echo_ended` | *fails*: a client that leaves while it is answered ends the server | 2 clients |

Why the bounds are enough. Two or three packets each way give every shape of
pending acks (one range, an extended range, two ranges around a gap), an ack
that names packets already reported, a packet that is missed and one that is
newer, and a timeout before, between and after acks. The two sides are
independent except for what a datagram carries. In the session two clients
suffice for one client's SYNC to drive another's batches, and three objects in
packets of two for a full batch, a remainder and an empty batch. With two
objects and four messages one object stays while the other leaves a world, comes
back under its old id and leaves again. Bytes of three bits
have every kind of offset (none, one, the last), and actions of two bits, flags
of one and numbers of two bytes reach them all; a third field begins after any
two. In the echo server three clients and two descriptors make one client wait
until another's socket is destroyed; a message longer than the receive buffer,
and a reply longer than the room on the way back, make sends wait and turns
overlap with departures. The symmetry of `session_join` and
`world_replication` is sound: clients, objects and values are exchangeable and
no liveness is checked there.

Fairness. `DeliveryPair!FairSpec` assumes that the clock advances and that the
users of the endpoints in `Sweepers` keep calling `ProcessTimeoutPackets`. This is
an obligation on the user that the code does not meet everywhere: the example
calls it once, on A, after a wait in which everything sent has become late, and
the game server never does. `EveryPacketIsReported` therefore speaks of the
`Sweepers` only; in the run that is A, as in the example, and B may never sweep.
Nothing is assumed of the network, and no packet is sent so close to the bound
of the clock that the bound would stop its timeout. `GameSession!FairSpec`
assumes that processes run, that a client calls `Send` once, as
`examples/client.cpp` does, and that a datagram in transit is read in the end.
The last is more than UDP gives, and is there to show what goes wrong even on a
perfect network (`session_large_world`) and what goes right on one
(`session_fair`). `AckLoop` assumes that a loop in one thread goes on.
`SelectEcho!FairSpec` assumes that the server's thread runs, without obliging
`select` to fail or not to, and that a client
which reads goes on reading and, when it has everything back, closes: otherwise
two clients could hold both descriptors for ever. A client need never connect
or send.

Deadlock is checked in the pair's runs and in `world_replication`'s. It is
switched off for `AckLoop` and `ObjectStream`, which stop, for the session, where
a process may end and clients fall silent, and for the echo server, whose clients
may all have left.

## 4. Disagreements between code and comments

Four runs end in a violation; each is a disagreement between a line of the code
and what a comment, message or example says (`findings` in `PROJECT.json`).
Others were met while modelling. The definitions show them; the constants that
make a property fail are given, and no run is kept:

- `mNextExpectedSequenceNumber` (`DeliveryNotificationManager.cpp:68`) has no
  initializer. A receiver whose memory held more than 1 drops first packets that
  nothing has overtaken, all of them if it held more than its peer ever sends.
  `OnlyOldPacketsAreIgnored` says where this ends: with the first packet that is
  accepted, and never at or above the value the memory held. Without its second
  disjunct it fails in `pair_nowrap`, unless `GarbageValues` is within {0, 1}.
- `NetworkManager::Initialize` (`NetworkManager.cpp:40`) tests `Bind(...) < 0`, and
  `UDPSocket::Bind` returns a positive error. With `"bind"` in `SocketFailures` the
  server reaches its loop with an unbound socket, and receives nothing.
- `HandleReplicationData` (`Client/NetworkManagerClient.cpp:113`) does not use the
  verdict on a sequence number. With `NetworkRepeats`, `NoObjectIsMadeTwice` fails:
  a STAT that arrives twice makes its objects twice.
- `Send` in the echo server blocks (`echo_server.cpp:82`), though lines 8-9 promise
  that clients are handled concurrently and every message is echoed. With a client
  in `NeverReads` that sends more than the connection holds on its way back,
  `EveryMessageIsEchoed` fails for the others.
- `ReplicationHeader::Read` (`ReplicationHeader.cpp:37`) reads the action's bits into
  the first byte of an enum, which is the highest on a big-endian machine. There
  an action comes out with its bytes reversed (`ReadAs`), and a destroy is taken
  for a command with a class ID. `ReadsReturnWhatWasWritten` allows for the first;
  the second is not modelled.
- `OutputMemoryBitStream::Write(const T&, size_t)` takes a width, but swaps the whole
  number first: fewer bits than the number has would be taken from its highest
  byte. Every caller uses the full width, and the model has no other.
- `HandlePacketFromExistingClient` (`Server/NetworkManagerServer.cpp:92`) is
  empty. A client whose ACKC was lost may send SYNC again and is not answered;
  the branch for "already exists, ignoring sync packet" (77-79), after which an
  ACKC would be sent, cannot be reached.
- `TimeoutTime` wraps in the first second of the steady clock: with `BootTime`
  below `kAckTimeoutMs`, `SweepIsExact` fails, as packets just sent are failed
  at once.
- With `MaxAckRun` below the number of packets accepted between two replies,
  `EveryAcceptedPacketIsAcked` fails: `AckRange::Write` cuts the run and
  `WritePendingAcks` pops it whole.
- After the wrap, `AcceptedInOrder` and `OnlyOldPacketsAreIgnored` fail: if
  number 65535 is accepted old duplicates are accepted again, and if it is lost
  everything after it is dropped.
- `NetworkManagerServer.cpp:11` says there is one `ReplicationManagerServer` per
  server; `ReplicationManagerServer.cpp:15` and the code say one per connection.
- The client makes the objects of a create without linking them, where
  `ReplicationManager.cpp:120` links them: no later update or destroy finds them,
  and an update that finds no object leaves its state unread before the next
  command (`Client/NetworkManagerClient.cpp:131`). No server queues either today.

## 5. What is proved

Every safety property of the passing runs is a theorem, for all values of the
constants. `PROJECT.json` lists the theorems with the properties they
state. Each rests on the assumptions of the modules on their constants, which
TLC evaluates in every run, and on the hypotheses in the second column.

| Theorems | Hypotheses |
|---|---|
| `DeliveryPairProofs`: `TypeCorrect`, `OneFate` | |
| `DeliveryPairProofs`: `InvariantHolds`, `DeliveredIsTrue`, `AcceptedOnceInOrder` | `NoWrap` |
| `DeliveryPromiseProofs`: `AckRangesNeverWrap` | |
| `DeliveryPromiseProofs`: `OnlyCutRunsLoseAcks` | `RunsFit` in every state |
| `DeliveryPromiseProofs`: `AcceptedIsAcked` | `MaxAccepted <= MaxAckRun` |
| `DeliveryPromiseProofs`: `OnlyOvertakenAreIgnored` | `NoWrap` |
| `DeliveryPromiseProofs`: `SweepsAreExact` | `BootTime >= kAckTimeoutMs` |
| `DeliveryPromiseProofs`: `BookkeepingHolds` | `NoWrap`, `MaxAccepted <= MaxAckRun` |
| `DeliveryPromiseProofs`: `PromiseKept` (the refinement) | `NoWrap` |
| `AckLoopProofs`: `InvariantHolds`, `TypeCorrect`, `LoopIsProcessAcks`, `EveryIterationCounts` | |
| `GameSessionProofs`: `InvariantHolds`, `TypeCorrect`, `PlayersStayDistinct`, `CreatesAreCutOnce`, `NoCreateIsLostOnTheWay`, `SettledClientsHaveTheWorld` | |
| `GameSessionProofs`: `CreatesAlwaysTravelOnce`, `NoObjectMadeTwice` | `~NetworkRepeats` |
| `WorldReplicationProofs`: `InvariantHolds`, `TypeCorrect`, `ContextsStayConsistent`, `ReceiverShowsTheWorld`, `DestroyedIsUnreachable`, `NoCreateThrows` | |
| `ObjectStreamProofs`: `MessageIsHeld`, `WrittenBitsAreHeld`, `NothingUnwrittenIsSent`, `InvariantHolds`, `TypeCorrect`, `ReadsAreRight`, `ThrowsAreRight` | |
| `SelectEchoProofs`: `InvariantHolds`, `TypeCorrect`, `EchoesStayFaithful`, `ReadyCallsNeverWait` | |

Every hypothesis is a line of the code that section 4 is about: where it does
not hold, the property fails, and TLC shows how. `NoWrap` says that fewer packets
are sent than there are sequence numbers, 65536. `MaxAckRun` is 256,
`MaxAccepted` bounds what an endpoint accepts, and `RunsFit` says of a state that
no pending run is longer than `MaxAckRun`: it holds for ever while a reply goes
out at least once in 256 packets, however many there are. The others are the age
of the steady clock and the network. No theorem assumes anything of
`GarbageValues`, what the memory of a new manager may hold.

**Delivery notification.** `DeliveredWasAccepted` says nothing of the acks
still under way, so one more ack could break it. `DeliveryInvariant` adds
`AcksAreHonest` (a pending or a sent ack names only packets that were
accepted); to get from an acked number to a packet it needs `NumberedInOrder`
and `DatagramsAreNumbered` (without a wrap the number of a packet is its place
in the order of dispatch); and to keep payloads in order it needs
`AcceptedBelowExpected`. `DeliveredWasAcked` is the heart: an entry that
`ProcessAcks` pops as a success has a number in the first range of the packet.
It uses `NoWrap` where the code needs it, since with a wrap it is false
(`pair_wrap_false_ack`). `OneFate` and `AckRangesNeverWrap` need no such thing:
pops take a prefix of the queue, and a range grows only by the number that
follows it, which is itself below 65536.

`BookkeepingInvariant` is for what the first one does not say. That no accepted
packet goes unacked follows from `PayloadsAreDistinct` (one payload, one
datagram) and `RunsFit` (`AckRange::Write` cuts nothing), which `RunsAreCovered` (no
run is longer than what was accepted) gives for few packets; that drops are justified, from
`ExpectedIsNext` (the expected number follows an accepted packet, or nothing was
accepted and it is what the memory held); that a sweep
which stops at the first packet that is not late misses none, from
`TimesAreInOrder`.

`PromiseKept` maps each step of `DeliveryPair` to a step of `DeliveryPromise` or a
stutter: a send is a dispatch, an accepted packet is an accept together with
the reports its acks bring, a sweep gives up some packets. `DeliveryInvariant`
justifies the reports of delivery.

**AckLoop.** `LoopInvariant` says where the loop's 16-bit counter is: at the
range's start while only failures have been popped, and afterwards at the
number of the front entry, since numbers are consecutive and both wrap alike.
`LoopIsProcessAcks` then lets the theorems on `DeliveryPair`, which use the
operator, speak of the loop. It needs no bound on wrapping. That the loop ends is
liveness, but what makes it end is not: `EveryIterationCounts` gives it a variant,
the in-flight packets left, counted twice, less one when the counter is already at
the front. Each iteration lessens it, so the loop takes at most twice as many
iterations as the queue has entries.

**GameSession.** `PlayersAreDistinct` needs that ids handed out stay below the next
one and that every ACKC on its way agrees with its proxy (`IdsAreAgreed`), since
a late one may still connect its client. `CreatesAreWrittenOnce` needs that the
world is complete before the first proxy exists (`WorldIsCutInOrder`): a later
object would be missing in the queues. `NoObjectIsMadeTwice` needs
`CreatesTravelOnce`: a create is at most in one datagram, and in none once it was
carried out. `OnlyTheNetworkLosesCreates` is the converse, on any network: a create
that was written is in some datagram, or was carried out; it holds because the
client handles an old packet like a new one, and would not if it heeded the
verdict on the number while it has no way to ask for what it dropped. With
`CreatesAreWrittenOnce` it gives `SettledClientsHaveTheWorld`, the safety half of
`EveryClientGetsTheWorld`: a registered client with nothing pending and nothing in
transit has the whole world, however large.

**WorldReplication.** Each protocol has its part. `WorldsArriveWhole`: the last
world on its way, or else what has been read of it together with what is still
unread, is what should be shown. `ActionsArriveInOrder`: every action in the
stream will find its object when its turn comes, the last action on an id says
what will be shown of it, and an id on which none is left is shown as the
receiver has it. `ReceiverReachesWhatLives` ties destruction to the context: an
object that was made is destroyed exactly when it is not linked.

**ObjectStream.** `BufferInvariant`: below the head the buffer holds the bits
written, and the rest of the head's byte is written too. The lemmas under it
take `WriteByte` apart, bit by bit: `JoinedBits` and `SpilledBits` for the two
bytes that a write may touch at any offset, `GrownFields` for a buffer that
doubles. `LayoutInvariant`: each field lies where it begins, call of `WriteBits`
after call. `ReadingInvariant`: the receiver's head is where the next field
begins, or the characters of a string whose length was read. `CallIsRead` joins
them: a read at the place of a call returns the bits of that call; `BytesAreRead`,
`NumberIsRead`, `BoolIsRead` and `ActionIsRead` build the fields from that, with
`SwappedBack` for the byte orders. What arithmetic on powers of two would give is
assumed of the constants, and evaluated by TLC: that an action fits in
`ActionBits` bits of its lowest byte (`ActionAssumption`), and that the length of
a string is the number that its four bytes stand for (`LengthAssumption`).

**SelectEcho.** `EchoesAreFaithful` is nearly inductive: it needs that a send under
way has bytes left, and that only the connection of a client that has closed
has an error, so that no reply to a client that may still read is given up
(`StreamInvariant`). `NoReadyCallWaits` is about what `select` reported some steps
ago. It needs that no two sockets of a vector, and no two descriptors, are the
same (`SocketInvariant`): then a socket is served once in a turn, what a step of
the server consumes is its own socket's, and a step of a client only adds to
what can be read. A connection is accepted once, which is what keeps the vectors
without repetition, because it is in the backlog or has a descriptor, never
both. The filter and `std::remove` are loops over a vector (`Kept`). What
`KeptProperties` says of their result is an induction over their turns, put as a
fact about sets of numbers (`NaturalInduction`), since the library's induction
theorems cannot be instantiated.

Only model-checked. Liveness, as fairness and `ENABLED` are out of the prover's
reach: `LoopTerminates`, `EveryPacketIsReported`, `EveryClientGetsTheWorld`,
`EveryMessageIsEchoed`. The four violations of section 4 are counterexamples and
need no proof.

## 6. Not modelled, and what comes next

Abstracted throughout: printing and error logging, and outside `ObjectStream` the
contents of objects and names and the layout of packets. That a message is read
as it was written is shown once, in `ObjectStream`, for fields in any order; the
other modules send whole records. The 32-bit counters and lengths do not wrap
within the bounds. Datagrams that no part of this system sends are
left out, and with them the branches for unknown packet types and actions and
the throw on an unregistered class. So is a receiver that gets both whole worlds
and single actions: no program here has one, and `ReceiveWorld` would delete
again an object that a destroy action has deleted, because only `ReceiveWorld`
keeps `mReplicatedObjects`.

Whole components left out: `InputMemoryStream` and `OutputMemoryStream`, which no
class or program includes; `SocketAddress` and `SocketAddressFactory` (an address is
a model value; name resolution is the system's); `ErrorUtil` and `SocketUtil`
(logging and `errno`, whose effect on return values is modelled at the callers);
`examples/echo_udp_server`, which keeps no state between datagrams. Partly modelled:
the update and destroy branches of `ReplicationManagerServer` and
`NetworkManagerClient`, which no program reaches; `UDPSocket::SetNonBlockingMode`'s
own failure, which `Initialize` ignores; the throw of `ObjectCreationRegistry`.

What could come next, in order:

1. Delivery notification across the wrap: what remains true of drops and order
   when at most half of the numbers are in flight.
2. The refinement `DeliveryPromise` also for what the two ends of a `GameSession`
   use of a manager.

`PROJECT.json` gives the status and the reason for every component, and maps
every definition to the lines it stands for.
