------------------------- MODULE GameSessionProofs -------------------------
(***************************************************************************)
(* Theorems about GameSession, for any clients, world, packet size and     *)
(* network.  They rest on SessionInvariant, which is inductive, and, for   *)
(* what becomes of a create, on two properties that are inductive with it: *)
(* OnlyTheNetworkLosesCreates, on any network, and CreatesTravelOnce, on   *)
(* one that repeats nothing.                                               *)
(***************************************************************************)
EXTENDS GameSession, DeliveryNotificationManagerProofs

\* The ids of a sequence of commands, one for each.
LEMMA NetworkIdsFields ==
    ASSUME NEW commands \in Seq(ReplicationCommand)
    PROVE  /\ NetworkIds(commands) \in Seq(Nat)
           /\ Len(NetworkIds(commands)) = Len(commands)
           /\ \A i \in 1 .. Len(commands) :
                  NetworkIds(commands)[i] = commands[i].networkId
<1>1. Len(commands) \in Nat
    BY LenProperties
<1>2. \A i \in 1 .. Len(commands) : commands[i].networkId \in Nat
    <2>1. \A i \in 1 .. Len(commands) : commands[i] \in ReplicationCommand
        BY ElementOfSeq
    <2>2. QED
        BY <2>1 DEF ReplicationCommand
<1>3. NetworkIds(commands) \in [1 .. Len(commands) -> Nat]
    BY <1>2 DEF NetworkIds
<1>4. QED
    BY <1>1, <1>3, FunctionIsSequence DEF NetworkIds

\* A new client's queue is one create for every world object.
LEMMA QueueCreatesFields ==
    ASSUME NEW objects \in Seq(Nat)
    PROVE  /\ QueueCreates(objects) \in Seq(ReplicationCommand)
           /\ NetworkIds(QueueCreates(objects)) = objects
<1>1. Len(objects) \in Nat /\ \A i \in 1 .. Len(objects) : objects[i] \in Nat
    BY LenProperties, ElementOfSeq
<1>2. QueueCreates(objects) \in [1 .. Len(objects) -> ReplicationCommand]
    BY <1>1 DEF QueueCreates, ReplicationCommand
<1>3. /\ QueueCreates(objects) \in Seq(ReplicationCommand)
      /\ Len(QueueCreates(objects)) = Len(objects)
    BY <1>1, <1>2, FunctionIsSequence
<1>4. \A i \in 1 .. Len(objects) : QueueCreates(objects)[i].networkId = objects[i]
    BY DEF QueueCreates
<1>5. /\ NetworkIds(QueueCreates(objects)) \in Seq(Nat)
      /\ Len(NetworkIds(QueueCreates(objects))) = Len(objects)
      /\ \A i \in 1 .. Len(objects) :
             NetworkIds(QueueCreates(objects))[i] = objects[i]
    BY <1>3, <1>4, NetworkIdsFields
<1>6. QED
    BY <1>3, <1>5, SeqEqual

\* What is written and what is left are together what was pending.
LEMMA BatchFields ==
    ASSUME NEW pending \in Seq(ReplicationCommand)
    PROVE  /\ Batch(pending) \in Seq(ReplicationCommand)
           /\ Rest(pending) \in Seq(ReplicationCommand)
           /\ NetworkIds(Batch(pending)) \o NetworkIds(Rest(pending))
                  = NetworkIds(pending)
<1> DEFINE n == BatchSize(pending)
           batch == NetworkIds(Batch(pending))
           rest == NetworkIds(Rest(pending))
<1>1. Len(pending) \in Nat /\ n \in 0 .. Len(pending)
    BY SessionAssumption, LenProperties DEF BatchSize
<1>2. \A i \in 1 .. Len(pending) : pending[i] \in ReplicationCommand
    BY ElementOfSeq
<1> HIDE DEF n
<1>3. /\ Batch(pending) \in Seq(ReplicationCommand)
      /\ Len(Batch(pending)) = n
      /\ \A i \in 1 .. n : Batch(pending)[i] = pending[i]
    BY <1>1, <1>2, SubSeqProperties DEF Batch, n
<1>4. /\ Rest(pending) \in Seq(ReplicationCommand)
      /\ Len(Rest(pending)) = Len(pending) - n
      /\ \A i \in 1 .. Len(pending) - n : Rest(pending)[i] = pending[n + i]
    BY <1>1, <1>2, SubSeqProperties DEF Rest, n
<1>5. /\ batch \in Seq(Nat) /\ Len(batch) = n
      /\ \A i \in 1 .. n : batch[i] = pending[i].networkId
    BY <1>1, <1>3, NetworkIdsFields
<1>6. /\ rest \in Seq(Nat) /\ Len(rest) = Len(pending) - n
      /\ \A i \in 1 .. Len(pending) - n : rest[i] = pending[n + i].networkId
    BY <1>1, <1>4, NetworkIdsFields
<1>7. /\ NetworkIds(pending) \in Seq(Nat)
      /\ Len(NetworkIds(pending)) = Len(pending)
      /\ \A i \in 1 .. Len(pending) : NetworkIds(pending)[i] = pending[i].networkId
    BY NetworkIdsFields
<1> HIDE DEF batch, rest
<1>8. /\ batch \o rest \in Seq(Nat)
      /\ Len(batch \o rest) = Len(pending)
    <2>1. batch \o rest \in Seq(Nat) /\ Len(batch \o rest) = Len(batch) + Len(rest)
        BY <1>5, <1>6, ConcatProperties
    <2>2. n + (Len(pending) - n) = Len(pending)
        BY <1>1
    <2>3. QED
        BY <1>5, <1>6, <2>1, <2>2
<1>9. \A i \in 1 .. Len(pending) : (batch \o rest)[i] = pending[i].networkId
    <2> SUFFICES ASSUME NEW i \in 1 .. Len(pending)
                 PROVE  (batch \o rest)[i] = pending[i].networkId
        OBVIOUS
    <2>1. (batch \o rest)[i] = IF i <= n THEN batch[i] ELSE rest[i - n]
        BY <1>1, <1>5, <1>6, ConcatProperties
    <2>2. CASE i <= n
        BY <1>1, <1>5, <2>1, <2>2
    <2>3. CASE ~(i <= n)
        <3>1. i - n \in 1 .. Len(pending) - n /\ n + (i - n) = i
            BY <1>1, <2>3
        <3>2. QED
            BY <1>6, <2>1, <2>3, <3>1
    <2>4. QED
        BY <2>2, <2>3
<1>10. batch \o rest = NetworkIds(pending)
    BY <1>7, <1>8, <1>9, SeqEqual
<1>11. QED
    BY <1>3, <1>4, <1>10 DEF batch, rest

----------------------------------------------------------------------------
\* Nothing has been registered, sent or written.
LEMMA InitKeeps ==
    ASSUME Init
    PROVE  SessionInvariant
<1>1. \A g \in GarbageValues : InitialClient(g) \in Client
    <2>1. \A g \in GarbageValues : NewManager(g) \in Manager
        BY SessionAssumption, NewManagerType
    <2>2. QED
        BY <2>1 DEF InitialClient, Client
<1>2. client \in [Clients -> Client]
    BY <1>1 DEF Init
<1>3. \A c \in Clients : client[c].mState = "NCS_Uninitialized"
    BY DEF Init, InitialClient
<1>4. /\ server = InitialServer /\ network = {}
      /\ written = [c \in Clients |-> << >>]
      /\ Proxies = << >> /\ DOMAIN Proxies = {}
    BY DEF Init, InitialServer, Proxies
<1>5. TypeOK
    BY <1>2, <1>4 DEF TypeOK, InitialServer, Client
<1>6. IdsAreAgreed
    BY <1>3, <1>4 DEF IdsAreAgreed, PlayersAreDistinct
<1>7. WorldIsCutInOrder
    BY <1>4 DEF WorldIsCutInOrder, CreatesAreWrittenOnce, InitialServer
<1>8. QED
    BY <1>5, <1>6, <1>7 DEF SessionInvariant

\* Whatever Initialize returns, the socket is in one of three states.
LEMMA OutcomesType ==
    \A o \in InitializeOutcomes : o.mSocket \in {"none", "unbound", "bound"}
BY DEF InitializeOutcomes

\* Whatever the outcome of Initialize, nobody has registered yet.
LEMMA InitializeServerKeeps ==
    ASSUME SessionInvariant, InitializeServer
    PROVE  SessionInvariant'
<1> USE DEF SessionInvariant
<1>1. PICK o \in InitializeOutcomes :
          server' = [server EXCEPT
                        !.mSocket = o.mSocket,
                        !.phase = IF o.result THEN "setup" ELSE "ended"]
    BY DEF InitializeServer
<1>2. server.phase = "start" /\ UNCHANGED <<client, network, written>>
    BY DEF InitializeServer
<1>3. /\ DOMAIN server' = DOMAIN server
      /\ server'.phase \in {"setup", "ended"}
      /\ server'.mSocket \in {"none", "unbound", "bound"}
      /\ server'.mWorldObjects = server.mWorldObjects
      /\ server'.mNextPlayerId = server.mNextPlayerId
      /\ Proxies' = Proxies
      /\ server'.toUpdate = server.toUpdate
    BY <1>1, OutcomesType DEF TypeOK, Proxies
<1>4. TypeOK'
    BY <1>2, <1>3 DEF TypeOK
<1>5. IdsAreAgreed'
    BY <1>2, <1>3 DEF IdsAreAgreed, PlayersAreDistinct
<1>6. WorldIsCutInOrder'
    BY <1>2, <1>3 DEF WorldIsCutInOrder, CreatesAreWrittenOnce
<1>7. QED
    BY <1>4, <1>5, <1>6

\* An object of the setup gets the next id, before any client gets one.
LEMMA AddWorldObjectKeeps ==
    ASSUME SessionInvariant, AddWorldObject
    PROVE  SessionInvariant'
<1> USE DEF SessionInvariant
<1> DEFINE world == server.mWorldObjects
<1>1. /\ server.phase = "setup"
      /\ server' = [server EXCEPT !.mWorldObjects = Append(@, Len(@) + 1)]
      /\ UNCHANGED <<client, network, written>>
    BY DEF AddWorldObject, GetId
<1>2. /\ DOMAIN server' = DOMAIN server
      /\ server'.phase = server.phase
      /\ server'.mSocket = server.mSocket
      /\ server'.mWorldObjects = Append(world, Len(world) + 1)
      /\ server'.mNextPlayerId = server.mNextPlayerId
      /\ Proxies' = Proxies
      /\ server'.toUpdate = server.toUpdate
    BY <1>1 DEF TypeOK, Proxies
<1>3. world \in Seq(Nat) /\ Len(world) + 1 \in Nat
    BY LenProperties DEF TypeOK
<1> HIDE DEF world
<1>4. TypeOK'
    BY <1>1, <1>2, <1>3, AppendProperties DEF TypeOK
<1>5. IdsAreAgreed'
    BY <1>1, <1>2 DEF IdsAreAgreed, PlayersAreDistinct
<1>6. WorldIsCutInOrder'
    <2>1. DOMAIN Proxies = {}
        BY <1>1 DEF WorldIsCutInOrder
    <2>2. \A i \in 1 .. Len(world) + 1 : Append(world, Len(world) + 1)[i] = i
        BY <1>3, AppendProperties DEF WorldIsCutInOrder, world
    <2>3. Len(Append(world, Len(world) + 1)) = Len(world) + 1
        BY <1>3, AppendProperties
    <2>4. QED
        BY <1>1, <1>2, <2>1, <2>2, <2>3 DEF WorldIsCutInOrder, CreatesAreWrittenOnce
<1>7. QED
    BY <1>4, <1>5, <1>6

\* Entering the loop changes the phase only.
LEMMA EnterLoopKeeps ==
    ASSUME SessionInvariant, EnterLoop
    PROVE  SessionInvariant'
<1> USE DEF SessionInvariant
<1>1. /\ server' = [server EXCEPT !.phase = "receive"]
      /\ UNCHANGED <<client, network, written>>
    BY DEF EnterLoop
<1>2. /\ DOMAIN server' = DOMAIN server
      /\ server'.phase = "receive"
      /\ server'.mSocket = server.mSocket
      /\ server'.mWorldObjects = server.mWorldObjects
      /\ server'.mNextPlayerId = server.mNextPlayerId
      /\ Proxies' = Proxies
      /\ server'.toUpdate = server.toUpdate
    BY <1>1 DEF TypeOK, Proxies
<1>3. TypeOK'
    BY <1>1, <1>2 DEF TypeOK
<1>4. IdsAreAgreed'
    BY <1>1, <1>2 DEF IdsAreAgreed, PlayersAreDistinct
<1>5. WorldIsCutInOrder'
    BY <1>1, <1>2 DEF WorldIsCutInOrder, CreatesAreWrittenOnce
<1>6. QED
    BY <1>3, <1>4, <1>5

\* A new client gets the next player id and the whole world; no one else's
\* proxy changes, and the only new datagram is its ACKC.
LEMMA ProcessPacketKeeps ==
    ASSUME SessionInvariant, NEW d \in network, NEW g \in GarbageValues,
           ProcessPacket(d, g)
    PROVE  SessionInvariant'
<1> USE DEF SessionInvariant
<1>1. /\ server.phase = "receive"
      /\ UNCHANGED <<client, written>>
    BY DEF ProcessPacket
<1>2. network \subseteq Datagram /\ d.client \in Clients
    BY DEF TypeOK, Datagram, ProcessPacket
<1>3. Taken(d) \subseteq network
    BY DEF Taken
<1>4. CASE HandlePacketFromExistingClient(d)
    <2>1. /\ network' \subseteq network
          /\ server' = [server EXCEPT !.phase = "replicate",
                                      !.toUpdate = DOMAIN Proxies]
        BY <1>3, <1>4 DEF HandlePacketFromExistingClient
    <2>2. /\ DOMAIN server' = DOMAIN server
          /\ server'.phase = "replicate"
          /\ server'.mSocket = server.mSocket
          /\ server'.mWorldObjects = server.mWorldObjects
          /\ server'.mNextPlayerId = server.mNextPlayerId
          /\ Proxies' = Proxies
          /\ server'.toUpdate = DOMAIN Proxies
        BY <2>1 DEF TypeOK, Proxies
    <2>3. TypeOK'
        BY <1>1, <2>1, <2>2 DEF TypeOK
    <2>4. IdsAreAgreed'
        BY <1>1, <2>1, <2>2 DEF IdsAreAgreed, PlayersAreDistinct
    <2>5. WorldIsCutInOrder'
        BY <1>1, <2>1, <2>2 DEF WorldIsCutInOrder, CreatesAreWrittenOnce
    <2>6. QED
        BY <2>3, <2>4, <2>5
<1>5. CASE HandlePacketFromNewClient(d, g)
    <2> DEFINE c == d.client
               proxy == [mPlayerId        |-> server.mNextPlayerId,
                         mPendingCommands |-> QueueCreates(server.mWorldObjects),
                         mDeliveryNotificationManager |-> NewManager(g)]
               proxies == [a \in DOMAIN Proxies \cup {c} |->
                              IF a = c THEN proxy ELSE Proxies[a]]
               ack == AckPacket(c, server.mNextPlayerId)
    <2>1. c \notin DOMAIN Proxies
        BY <1>5 DEF HandlePacketFromNewClient
    <2>2. proxy \in ClientProxy
        <3>1. QueueCreates(server.mWorldObjects) \in Seq(ReplicationCommand)
            BY QueueCreatesFields DEF TypeOK
        <3>2. NewManager(g) \in Manager
            BY SessionAssumption, NewManagerType
        <3>3. QED
            BY <3>1, <3>2 DEF TypeOK, ClientProxy
    <2>3. NetworkIds(proxy.mPendingCommands) = server.mWorldObjects
        BY QueueCreatesFields DEF TypeOK
    <2>4. proxy.mPlayerId = server.mNextPlayerId
        OBVIOUS
    <2> HIDE DEF proxy
    <2>5. /\ DOMAIN proxies = DOMAIN Proxies \cup {c}
          /\ proxies[c] = proxy
          /\ \A a \in DOMAIN Proxies : proxies[a] = Proxies[a]
          /\ proxies \in [DOMAIN proxies -> ClientProxy]
        BY <2>1, <2>2 DEF TypeOK
    <2>6. /\ DOMAIN server' = DOMAIN server
          /\ server'.phase \in {"replicate", "ended"}
          /\ server'.mSocket = server.mSocket
          /\ server'.mWorldObjects = server.mWorldObjects
          /\ server'.mNextPlayerId = server.mNextPlayerId + 1
          /\ Proxies' = proxies
          /\ server'.toUpdate \subseteq DOMAIN proxies
          /\ network' \subseteq network \cup {ack}
        <3> HIDE DEF proxies
        <3> DEFINE registered == [server EXCEPT
                                     !.mClientAddressToProxyMap = proxies,
                                     !.mNextPlayerId = NextPlayerId(@)]
        <3>1. /\ DOMAIN registered = DOMAIN server
              /\ registered.phase = server.phase
              /\ registered.mSocket = server.mSocket
              /\ registered.mWorldObjects = server.mWorldObjects
              /\ registered.mNextPlayerId = server.mNextPlayerId + 1
              /\ registered.mClientAddressToProxyMap = proxies
              /\ registered.toUpdate = server.toUpdate
            BY DEF TypeOK, NextPlayerId
        <3>2. \/ /\ network' = Taken(d) \cup {ack}
                 /\ server' = [registered EXCEPT !.phase = "replicate",
                                                 !.toUpdate = DOMAIN proxies]
              \/ /\ Thrown
                 /\ server' = [registered EXCEPT !.phase = "ended"]
            BY <1>5 DEF HandlePacketFromNewClient, proxies, proxy
        <3> HIDE DEF registered
        <3>3. server.toUpdate \subseteq DOMAIN proxies
            BY <2>5 DEF TypeOK
        <3>4. QED
            BY <1>3, <3>1, <3>2, <3>3 DEF TypeOK, Proxies, Thrown
    <2> HIDE DEF proxies
    <2>7. ack \in Datagram
        BY <1>2 DEF AckPacket, Datagram, TypeOK
    <2>8. TypeOK'
        BY <1>1, <1>2, <2>5, <2>6, <2>7 DEF TypeOK
    <2>9. IdsAreAgreed'
        <3>1. \A a \in DOMAIN proxies : proxies[a].mPlayerId < server.mNextPlayerId + 1
            BY <2>4, <2>5 DEF IdsAreAgreed, TypeOK, ClientProxy
        <3>2. \A a, b \in DOMAIN proxies :
                  proxies[a].mPlayerId = proxies[b].mPlayerId => a = b
            BY <2>4, <2>5 DEF IdsAreAgreed, PlayersAreDistinct, TypeOK, ClientProxy
        <3>3. \A e \in network' : e.type = "ACKC" =>
                  e.client \in DOMAIN proxies
                    /\ e.mPlayerId = proxies[e.client].mPlayerId
            BY <2>4, <2>5, <2>6 DEF IdsAreAgreed, AckPacket
        <3>4. \A a \in Clients : client[a].mState = "NCS_Connected" =>
                  a \in DOMAIN proxies /\ client[a].mPlayerId = proxies[a].mPlayerId
            BY <2>5 DEF IdsAreAgreed, PlayersAreDistinct
        <3>5. QED
            BY <1>1, <2>6, <3>1, <3>2, <3>3, <3>4 DEF IdsAreAgreed, PlayersAreDistinct
    <2>10. WorldIsCutInOrder'
        <3>1. written[c] \o NetworkIds(proxies[c].mPendingCommands)
                  = server.mWorldObjects
            <4>1. written[c] = << >>
                BY <1>2, <2>1 DEF WorldIsCutInOrder
            <4>2. QED
                BY <2>3, <2>5, <4>1, ConcatEmptySeq DEF TypeOK
        <3>2. \A a \in DOMAIN proxies :
                  written[a] \o NetworkIds(proxies[a].mPendingCommands)
                      = server.mWorldObjects
            BY <2>5, <3>1 DEF WorldIsCutInOrder, CreatesAreWrittenOnce
        <3>3. QED
            BY <1>1, <2>5, <2>6, <3>2 DEF WorldIsCutInOrder, CreatesAreWrittenOnce
    <2>11. QED
        BY <2>8, <2>9, <2>10
<1>6. QED
    BY <1>4, <1>5 DEF ProcessPacket

\* A round writes the next batch of a client, and takes it off its queue.
LEMMA SendReplicationDataFields ==
    ASSUME TypeOK, NEW c \in Clients, SendReplicationData(c)
    PROVE  \E stat \in Datagram, after \in ClientProxy :
               /\ stat.type = "STAT" /\ stat.client = c
               /\ stat.commands = Batch(Proxies[c].mPendingCommands)
               /\ after.mPlayerId = Proxies[c].mPlayerId
               /\ after.mPendingCommands = Rest(Proxies[c].mPendingCommands)
               /\ c \in DOMAIN Proxies
               /\ server.phase = "replicate"
               /\ DOMAIN server' = DOMAIN server
               /\ server'.phase \in {"receive", "replicate", "ended"}
               /\ server'.mSocket = server.mSocket
               /\ server'.mWorldObjects = server.mWorldObjects
               /\ server'.mNextPlayerId = server.mNextPlayerId
               /\ Proxies' = [Proxies EXCEPT ![c] = after]
               /\ server'.toUpdate \subseteq server.toUpdate
               /\ network' = network \/ network' = network \cup {stat}
               /\ server'.phase # "ended" => network' = network \cup {stat}
               /\ written' = [written EXCEPT ![c] = @ \o NetworkIds(stat.commands)]
               /\ client' = client
<1> DEFINE proxy == Proxies[c]
           m == WriteSequenceNumber(proxy.mDeliveryNotificationManager, 0)
           stat == [type |-> "STAT", client |-> c,
                    seq |-> proxy.mDeliveryNotificationManager
                                .mNextOutgoingSequenceNumber,
                    acks |-> AcksToWrite(m),
                    commands |-> Batch(proxy.mPendingCommands)]
           sent == [proxy EXCEPT !.mDeliveryNotificationManager =
                                     WritePendingAcks(m)]
           done == [sent EXCEPT !.mPendingCommands = Rest(@)]
           after == [server EXCEPT
                        !.mClientAddressToProxyMap[c].mDeliveryNotificationManager =
                            WritePendingAcks(m),
                        !.mClientAddressToProxyMap[c].mPendingCommands = Rest(@),
                        !.toUpdate = @ \ {c}]
<1>1. /\ server.phase = "replicate"
      /\ c \in DOMAIN Proxies
      /\ client' = client
      /\ written' = [written EXCEPT ![c] = @ \o NetworkIds(stat.commands)]
      /\ \/ /\ Sent(stat)
            /\ server' = [after EXCEPT
                             !.phase = IF after.toUpdate = {} THEN "receive"
                                                              ELSE "replicate"]
         \/ /\ Thrown
            /\ server' = [after EXCEPT !.phase = "ended"]
    BY DEF SendReplicationData, TypeOK
<1>2. proxy \in ClientProxy
    BY <1>1 DEF TypeOK
<1>3. /\ proxy.mDeliveryNotificationManager \in Manager
      /\ proxy.mPendingCommands \in Seq(ReplicationCommand)
      /\ proxy.mPlayerId \in Nat
    BY <1>2 DEF ClientProxy
<1>4. m \in Manager
    BY <1>3, WriteSequenceNumberFields
<1>5. stat \in Datagram
    <2>1. AcksToWrite(m) \in Seq(AckRange)
        BY <1>4, AcksToWriteFields
    <2>2. Batch(proxy.mPendingCommands) \in Seq(ReplicationCommand)
        BY <1>3, BatchFields
    <2>3. proxy.mDeliveryNotificationManager.mNextOutgoingSequenceNumber
              \in PacketSequenceNumber
        BY <1>3 DEF Manager
    <2>4. QED
        BY <2>1, <2>2, <2>3 DEF Datagram
<1>6. /\ done \in ClientProxy
      /\ done.mPlayerId = proxy.mPlayerId
      /\ done.mPendingCommands = Rest(proxy.mPendingCommands)
    <2>1. WritePendingAcks(m) \in Manager
        BY <1>4, WritePendingAcksFields
    <2>2. Rest(proxy.mPendingCommands) \in Seq(ReplicationCommand)
        BY <1>3, BatchFields
    <2>3. /\ sent \in ClientProxy
          /\ sent.mPlayerId = proxy.mPlayerId
          /\ sent.mPendingCommands = proxy.mPendingCommands
        BY <1>2, <2>1 DEF ClientProxy
    <2> HIDE DEF sent
    <2>4. QED
        BY <2>2, <2>3 DEF ClientProxy
<1> HIDE DEF m
<1>7. /\ DOMAIN after = DOMAIN server
      /\ after.phase = server.phase
      /\ after.mSocket = server.mSocket
      /\ after.mWorldObjects = server.mWorldObjects
      /\ after.mNextPlayerId = server.mNextPlayerId
      /\ after.mClientAddressToProxyMap = [Proxies EXCEPT ![c] = done]
      /\ after.toUpdate = server.toUpdate \ {c}
    <2>1. /\ DOMAIN after = DOMAIN server
          /\ after.phase = server.phase
          /\ after.mSocket = server.mSocket
          /\ after.mWorldObjects = server.mWorldObjects
          /\ after.mNextPlayerId = server.mNextPlayerId
          /\ after.toUpdate = server.toUpdate \ {c}
        BY DEF TypeOK
    <2> DEFINE first == [server EXCEPT
                            !.mClientAddressToProxyMap[c]
                                .mDeliveryNotificationManager = WritePendingAcks(m)]
    <2>2. /\ DOMAIN first = DOMAIN server
          /\ first.mClientAddressToProxyMap = [Proxies EXCEPT ![c] = sent]
        BY DEF TypeOK, Proxies
    <2> HIDE DEF sent
    <2>3. first.mClientAddressToProxyMap[c] = sent
        BY <1>1, <2>2 DEF TypeOK
    <2>4. after = [[first EXCEPT !.mClientAddressToProxyMap[c].mPendingCommands =
                                     Rest(@)]
                       EXCEPT !.toUpdate = @ \ {c}]
        OBVIOUS
    <2> HIDE DEF first
    <2>5. after.mClientAddressToProxyMap =
              [first.mClientAddressToProxyMap EXCEPT ![c] = done]
        BY <2>2, <2>3, <2>4 DEF TypeOK
    <2>6. [[Proxies EXCEPT ![c] = sent] EXCEPT ![c] = done]
              = [Proxies EXCEPT ![c] = done]
        BY DEF TypeOK
    <2>7. QED
        BY <2>1, <2>2, <2>5, <2>6
<1> HIDE DEF after
<1>8. /\ DOMAIN server' = DOMAIN server
      /\ server'.phase \in {"receive", "replicate", "ended"}
      /\ server'.mSocket = server.mSocket
      /\ server'.mWorldObjects = server.mWorldObjects
      /\ server'.mNextPlayerId = server.mNextPlayerId
      /\ Proxies' = [Proxies EXCEPT ![c] = done]
      /\ server'.toUpdate \subseteq server.toUpdate
      /\ network' = network \/ network' = network \cup {stat}
      /\ server'.phase # "ended" => network' = network \cup {stat}
    BY <1>1, <1>7 DEF TypeOK, Proxies, Sent, Thrown
<1>9. /\ stat.type = "STAT" /\ stat.client = c
      /\ stat.commands = Batch(Proxies[c].mPendingCommands)
    OBVIOUS
<1> HIDE DEF stat, done
<1>10. QED
    BY <1>1, <1>5, <1>6, <1>8, <1>9

\* Ids are written one batch after the other.
LEMMA ConcatIsAssociative ==
    ASSUME NEW s \in Seq(Nat), NEW t \in Seq(Nat), NEW u \in Seq(Nat)
    PROVE  (s \o t) \o u = s \o (t \o u)
BY ConcatAssociative

\* One turn of the round: a batch leaves the queue of one client, is
\* written, and is sent in one datagram or lost with the exception.
LEMMA SendReplicationDataKeeps ==
    ASSUME SessionInvariant, NEW c \in Clients, SendReplicationData(c)
    PROVE  SessionInvariant'
<1> USE DEF SessionInvariant
<1>1. PICK stat \in Datagram, after \in ClientProxy :
          /\ stat.type = "STAT" /\ stat.client = c
          /\ stat.commands = Batch(Proxies[c].mPendingCommands)
          /\ after.mPlayerId = Proxies[c].mPlayerId
          /\ after.mPendingCommands = Rest(Proxies[c].mPendingCommands)
          /\ c \in DOMAIN Proxies
          /\ server.phase = "replicate"
          /\ DOMAIN server' = DOMAIN server
          /\ server'.phase \in {"receive", "replicate", "ended"}
          /\ server'.mSocket = server.mSocket
          /\ server'.mWorldObjects = server.mWorldObjects
          /\ server'.mNextPlayerId = server.mNextPlayerId
          /\ Proxies' = [Proxies EXCEPT ![c] = after]
          /\ server'.toUpdate \subseteq server.toUpdate
          /\ network' = network \/ network' = network \cup {stat}
          /\ server'.phase # "ended" => network' = network \cup {stat}
          /\ written' = [written EXCEPT ![c] = @ \o NetworkIds(stat.commands)]
          /\ client' = client
    BY SendReplicationDataFields
<1> DEFINE pending == Proxies[c].mPendingCommands
<1>2. pending \in Seq(ReplicationCommand)
    BY <1>1 DEF TypeOK, ClientProxy
<1>3. /\ NetworkIds(stat.commands) \in Seq(Nat)
      /\ NetworkIds(after.mPendingCommands) \in Seq(Nat)
      /\ NetworkIds(stat.commands) \o NetworkIds(after.mPendingCommands)
             = NetworkIds(pending)
    BY <1>1, <1>2, BatchFields, NetworkIdsFields
<1>4. /\ DOMAIN Proxies' = DOMAIN Proxies
      /\ Proxies'[c] = after
      /\ \A a \in DOMAIN Proxies \ {c} : Proxies'[a] = Proxies[a]
      /\ \A a \in DOMAIN Proxies : Proxies'[a].mPlayerId = Proxies[a].mPlayerId
      /\ Proxies' \in [DOMAIN Proxies' -> ClientProxy]
    BY <1>1 DEF TypeOK
<1>5. written[c] \in Seq(Nat) /\ written[c] \o NetworkIds(stat.commands) \in Seq(Nat)
    BY <1>3, ConcatProperties DEF TypeOK
<1>6. TypeOK'
    BY <1>1, <1>4, <1>5 DEF TypeOK
<1>7. IdsAreAgreed'
    BY <1>1, <1>4 DEF IdsAreAgreed, PlayersAreDistinct
<1>8. WorldIsCutInOrder'
    <2>1. written'[c] = written[c] \o NetworkIds(stat.commands)
            /\ \A a \in Clients \ {c} : written'[a] = written[a]
        BY <1>1 DEF TypeOK
    <2>2. (written[c] \o NetworkIds(stat.commands))
                  \o NetworkIds(after.mPendingCommands)
              = written[c] \o (NetworkIds(stat.commands)
                                   \o NetworkIds(after.mPendingCommands))
        BY <1>3, <1>5, ConcatIsAssociative
    <2>3. written[c] \o NetworkIds(pending) = server.mWorldObjects
        BY <1>1 DEF WorldIsCutInOrder, CreatesAreWrittenOnce
    <2>4. written'[c] \o NetworkIds(after.mPendingCommands) = server.mWorldObjects
        BY <1>3, <2>1, <2>2, <2>3
    <2>5. \A a \in DOMAIN Proxies' :
              written'[a] \o NetworkIds(Proxies'[a].mPendingCommands)
                  = server'.mWorldObjects
        BY <1>1, <1>4, <2>1, <2>4 DEF WorldIsCutInOrder, CreatesAreWrittenOnce, TypeOK
    <2>6. QED
        BY <1>1, <1>4, <2>1, <2>5 DEF WorldIsCutInOrder, CreatesAreWrittenOnce
<1>9. QED
    BY <1>6, <1>7, <1>8

----------------------------------------------------------------------------
\* A client never names a player or writes a create: its steps change its own
\* record, take datagrams, send SYNCs and learn ids from ACKCs in transit.
LEMMA ClientStepKeeps ==
    ASSUME SessionInvariant, NEW c \in Clients, NEW after,
           NEW sync \in Datagram, sync.type = "SYNC",
           client[c] \in Client /\ after \in Client,
           client' = [client EXCEPT ![c] = after],
           network' \subseteq network \cup {sync},
           UNCHANGED <<server, written>>,
           \/ after.mState # "NCS_Connected"
           \/ /\ after.mState = client[c].mState
              /\ after.mPlayerId = client[c].mPlayerId
           \/ \E d \in network : /\ d.type = "ACKC" /\ d.client = c
                                 /\ after.mPlayerId = d.mPlayerId
    PROVE  SessionInvariant'
<1> USE DEF SessionInvariant
<1>1. client' \in [Clients -> Client]
    BY DEF TypeOK, Client
<1>2. Proxies' = Proxies
    BY DEF Proxies
<1>3. TypeOK'
    BY <1>1, <1>2 DEF TypeOK, Client
<1>4. client'[c] = after /\ \A a \in Clients \ {c} : client'[a] = client[a]
    BY DEF TypeOK
<1>5. \A a \in Clients : client'[a].mState = "NCS_Connected" =>
          a \in DOMAIN Proxies /\ client'[a].mPlayerId = Proxies[a].mPlayerId
    BY <1>4 DEF IdsAreAgreed, PlayersAreDistinct
<1>6. IdsAreAgreed'
    BY <1>2, <1>5 DEF IdsAreAgreed, PlayersAreDistinct
<1>7. WorldIsCutInOrder'
    BY <1>2 DEF WorldIsCutInOrder, CreatesAreWrittenOnce
<1>8. QED
    BY <1>3, <1>6, <1>7

\* Initialize makes a client ready to send its SYNC, not connected.
LEMMA InitializeClientKeeps ==
    ASSUME SessionInvariant, NEW c \in Clients, InitializeClient(c)
    PROVE  SessionInvariant'
<1>1. client[c] \in Client
    BY DEF SessionInvariant, TypeOK, Client
<1>2. PICK o \in InitializeOutcomes :
          client' = [client EXCEPT
                        ![c].mSocket = o.mSocket,
                        ![c].phase = IF o.result THEN "running" ELSE "ended",
                        ![c].mState = IF o.result THEN "NCS_InSync" ELSE @]
    BY DEF InitializeClient
<1> DEFINE after == [client[c] EXCEPT
                        !.mSocket = o.mSocket,
                        !.phase = IF o.result THEN "running" ELSE "ended",
                        !.mState = IF o.result THEN "NCS_InSync" ELSE @]
<1>3. client' = [client EXCEPT ![c] = after]
    BY <1>2 DEF SessionInvariant, TypeOK
<1>4. after \in Client
    BY <1>1, OutcomesType DEF Client
<1>5. \/ after.mState # "NCS_Connected"
      \/ /\ after.mState = client[c].mState
         /\ after.mPlayerId = client[c].mPlayerId
    BY <1>1 DEF Client
<1>6. SyncPacket(c, 0) \in Datagram /\ SyncPacket(c, 0).type = "SYNC"
    BY DEF SyncPacket, Datagram
<1>7. UNCHANGED <<server, network, written>>
    BY DEF InitializeClient
<1> HIDE DEF after
<1>8. QED
    BY <1>1, <1>3, <1>4, <1>5, <1>6, <1>7, ClientStepKeeps

\* Send changes nothing a client knows or has made, and sends at most a SYNC.
LEMMA SendFields ==
    ASSUME TypeOK, NEW c \in Clients, Send(c)
    PROVE  \E after \in Client, sync \in Datagram :
               /\ client' = [client EXCEPT ![c] = after]
               /\ after.mState = client[c].mState
               /\ after.mPlayerId = client[c].mPlayerId
               /\ after.objects = client[c].objects
               /\ sync.type = "SYNC"
               /\ network' \subseteq network \cup {sync}
               /\ UNCHANGED <<server, written>>
<1> DEFINE sync == SyncPacket(c, client[c].sends + 1)
           idle == [client[c] EXCEPT !.sends = @ + 1]
           sent == [idle EXCEPT !.mSocket = "bound"]
           thrown == [client[c] EXCEPT !.phase = "ended"]
           Same(after) == /\ after \in Client
                          /\ after.mState = client[c].mState
                          /\ after.mPlayerId = client[c].mPlayerId
                          /\ after.objects = client[c].objects
<1>1. client[c] \in Client
    BY DEF TypeOK
<1>2. Same(idle)
    BY <1>1 DEF Client
<1>3. Same(thrown)
    BY <1>1 DEF Client
<1>4. Same(sent)
    <2> HIDE DEF idle
    <2>1. QED
        BY <1>2 DEF Client
<1>5. \E after \in {sent, thrown, idle} : client' = [client EXCEPT ![c] = after]
    BY DEF Send, TypeOK
<1>6. sync \in Datagram /\ sync.type = "SYNC"
    BY <1>1 DEF SyncPacket, Datagram, Client
<1>7. network' \subseteq network \cup {sync} /\ UNCHANGED <<server, written>>
    BY DEF Send, Sent, Thrown
<1> HIDE DEF sync, idle, sent, thrown
<1>8. QED
    BY <1>2, <1>3, <1>4, <1>5, <1>6, <1>7

\* ... and so it keeps the invariant.
LEMMA SendKeeps ==
    ASSUME SessionInvariant, NEW c \in Clients, Send(c)
    PROVE  SessionInvariant'
<1>1. TypeOK /\ client[c] \in Client
    BY DEF SessionInvariant, TypeOK
<1>2. PICK after \in Client, sync \in Datagram :
          /\ client' = [client EXCEPT ![c] = after]
          /\ after.mState = client[c].mState
          /\ after.mPlayerId = client[c].mPlayerId
          /\ sync.type = "SYNC"
          /\ network' \subseteq network \cup {sync}
          /\ UNCHANGED <<server, written>>
    BY <1>1, SendFields
<1>3. QED
    BY <1>1, <1>2, ClientStepKeeps

\* A client that becomes connected takes the id of an ACKC in transit.
LEMMA HandleAckedPacketKeeps ==
    ASSUME SessionInvariant, NEW c \in Clients, NEW d \in network,
           HandleAckedPacket(c, d)
    PROVE  SessionInvariant'
<1>1. client[c] \in Client /\ d \in Datagram
    BY DEF SessionInvariant, TypeOK, Client
<1>2. /\ d.type = "ACKC" /\ d.client = c
      /\ network' \subseteq network
      /\ UNCHANGED <<server, written>>
    BY DEF HandleAckedPacket, CanRead, Taken
<1>3. d.mPlayerId \in Nat
    BY <1>1, <1>2 DEF Datagram
<1>4. SyncPacket(c, 0) \in Datagram /\ SyncPacket(c, 0).type = "SYNC"
    BY DEF SyncPacket, Datagram
<1>5. CASE client[c].mState = "NCS_InSync"
    <2> DEFINE after == [client[c] EXCEPT !.mPlayerId = d.mPlayerId,
                                          !.mState = "NCS_Connected"]
    <2>1. client' = [client EXCEPT ![c] = after]
        BY <1>5 DEF HandleAckedPacket, SessionInvariant, TypeOK
    <2>2. after \in Client /\ after.mPlayerId = d.mPlayerId
        BY <1>1, <1>3 DEF Client
    <2> HIDE DEF after
    <2>3. QED
        BY <1>1, <1>2, <1>4, <2>1, <2>2, ClientStepKeeps
<1>6. CASE client[c].mState # "NCS_InSync"
    <2>1. client' = [client EXCEPT ![c] = client[c]]
        BY <1>6 DEF HandleAckedPacket, SessionInvariant, TypeOK
    <2>2. QED
        BY <1>1, <1>2, <1>4, <2>1, ClientStepKeeps
<1>7. QED
    BY <1>5, <1>6

\* A STAT adds the objects of its creates, and leaves the session alone.
LEMMA HandleReplicationDataFields ==
    ASSUME TypeOK, NEW c \in Clients, NEW d \in network,
           HandleReplicationData(c, d)
    PROVE  \E after \in Client :
               /\ d.type = "STAT" /\ d.client = c
               /\ d.commands \in Seq(ReplicationCommand)
               /\ client' = [client EXCEPT ![c] = after]
               /\ after.objects = client[c].objects \o NetworkIds(d.commands)
               /\ after.mState = client[c].mState
               /\ after.mPlayerId = client[c].mPlayerId
               /\ network' = Taken(d)
               /\ UNCHANGED <<server, written>>
<1> DEFINE m == ProcessSequenceNumber(client[c].mDeliveryNotificationManager, d.seq)
<1>1. client[c] \in Client /\ d \in Datagram
    BY DEF TypeOK, Client
<1>2. /\ d.type = "STAT" /\ d.client = c /\ network' = Taken(d)
      /\ UNCHANGED <<server, written>>
    BY DEF HandleReplicationData, CanRead
<1>3. PICK popped \in 0 .. Len(m.mInFlightPackets) : \E missed \in 0 .. popped :
          client' = [client EXCEPT
                        ![c].mDeliveryNotificationManager =
                            AfterPops(m, missed, popped),
                        ![c].objects = @ \o NetworkIds(d.commands)]
    BY DEF HandleReplicationData
<1>4. PICK missed \in 0 .. popped :
          client' = [client EXCEPT
                        ![c].mDeliveryNotificationManager =
                            AfterPops(m, missed, popped),
                        ![c].objects = @ \o NetworkIds(d.commands)]
    BY <1>3
<1>5. d.seq \in PacketSequenceNumber /\ d.commands \in Seq(ReplicationCommand)
    BY <1>1, <1>2 DEF Datagram
<1>6. client[c].mDeliveryNotificationManager \in Manager /\ client[c].objects \in Seq(Nat)
    BY <1>1 DEF Client
<1>7. m \in Manager
    <2>1. CASE IsOld(client[c].mDeliveryNotificationManager, d.seq)
        BY <1>6, <2>1 DEF ProcessSequenceNumber
    <2>2. CASE ~IsOld(client[c].mDeliveryNotificationManager, d.seq)
        BY <1>5, <1>6, <2>2, ProcessSequenceNumberFields
    <2>3. QED
        BY <2>1, <2>2
<1> HIDE DEF m
<1>8. AfterPops(m, missed, popped) \in Manager
    BY <1>7, AfterPopsFields
<1>9. client[c].objects \o NetworkIds(d.commands) \in Seq(Nat)
    BY <1>5, <1>6, NetworkIdsFields, ConcatProperties
<1> DEFINE after == [client[c] EXCEPT
                        !.mDeliveryNotificationManager =
                            AfterPops(m, missed, popped),
                        !.objects = @ \o NetworkIds(d.commands)]
<1>10. client' = [client EXCEPT ![c] = after]
    BY <1>4 DEF TypeOK
<1>11. /\ after \in Client
       /\ after.objects = client[c].objects \o NetworkIds(d.commands)
       /\ after.mState = client[c].mState
       /\ after.mPlayerId = client[c].mPlayerId
    BY <1>1, <1>8, <1>9 DEF Client
<1> HIDE DEF after
<1>12. QED
    BY <1>2, <1>5, <1>10, <1>11

\* ... and so it keeps the invariant.
LEMMA HandleReplicationDataKeeps ==
    ASSUME SessionInvariant, NEW c \in Clients, NEW d \in network,
           HandleReplicationData(c, d)
    PROVE  SessionInvariant'
<1>1. TypeOK
    BY DEF SessionInvariant
<1>2. PICK after \in Client :
          /\ d.type = "STAT" /\ d.client = c
          /\ d.commands \in Seq(ReplicationCommand)
          /\ client' = [client EXCEPT ![c] = after]
          /\ after.objects = client[c].objects \o NetworkIds(d.commands)
          /\ after.mState = client[c].mState
          /\ after.mPlayerId = client[c].mPlayerId
          /\ network' = Taken(d)
          /\ UNCHANGED <<server, written>>
    BY <1>1, HandleReplicationDataFields
<1>3. client[c] \in Client /\ network' \subseteq network
    BY <1>1, <1>2 DEF TypeOK, Client, Taken
<1>4. SyncPacket(c, 0) \in Datagram /\ SyncPacket(c, 0).type = "SYNC"
    BY DEF SyncPacket, Datagram
<1>5. QED
    BY <1>2, <1>3, <1>4, ClientStepKeeps

----------------------------------------------------------------------------
\* Every step of the server, of a client or of nobody keeps the invariant.
LEMMA NextKeeps ==
    ASSUME SessionInvariant, [Next]_vars
    PROVE  SessionInvariant'
<1>1. CASE UNCHANGED vars
    <2>1. Proxies' = Proxies
        BY <1>1 DEF vars, Proxies
    <2>2. TypeOK'
        BY <1>1, <2>1 DEF vars, SessionInvariant, TypeOK
    <2>3. IdsAreAgreed'
        BY <1>1, <2>1 DEF vars, SessionInvariant, IdsAreAgreed, PlayersAreDistinct
    <2>4. WorldIsCutInOrder'
        BY <1>1, <2>1
        DEF vars, SessionInvariant, WorldIsCutInOrder, CreatesAreWrittenOnce
    <2>5. QED
        BY <2>2, <2>3, <2>4 DEF SessionInvariant
<1>2. CASE Next
    <2>1. CASE InitializeServer
        BY <2>1, InitializeServerKeeps
    <2>2. CASE AddWorldObject
        BY <2>2, AddWorldObjectKeeps
    <2>3. CASE EnterLoop
        BY <2>3, EnterLoopKeeps
    <2>4. CASE \E d \in network, g \in GarbageValues : ProcessPacket(d, g)
        BY <2>4, ProcessPacketKeeps
    <2>5. CASE \E c \in Clients : SendReplicationData(c)
        BY <2>5, SendReplicationDataKeeps
    <2>6. CASE \E c \in Clients : InitializeClient(c)
        BY <2>6, InitializeClientKeeps
    <2>7. CASE \E c \in Clients : Send(c)
        BY <2>7, SendKeeps
    <2>8. CASE \E c \in Clients, d \in network : HandleAckedPacket(c, d)
        BY <2>8, HandleAckedPacketKeeps
    <2>9. CASE \E c \in Clients, d \in network : HandleReplicationData(c, d)
        BY <2>9, HandleReplicationDataKeeps
    <2>10. QED
        BY <1>2, <2>1, <2>2, <2>3, <2>4, <2>5, <2>6, <2>7, <2>8, <2>9 DEF Next
<1>3. QED
    BY <1>1, <1>2

\* SessionInvariant holds in every reachable state, for any set of clients,
\* world, packet size, socket failures, and network that loses, reorders and
\* repeats datagrams.
THEOREM InvariantHolds == Spec => []SessionInvariant
<1>1. Init => SessionInvariant
    BY InitKeeps
<1>2. SessionInvariant /\ [Next]_vars => SessionInvariant'
    BY NextKeeps
<1>3. QED
    BY <1>1, <1>2, PTL DEF Spec

\* Every state of the session is well-formed.
THEOREM TypeCorrect == Spec => []TypeOK
<1>1. SessionInvariant => TypeOK
    BY DEF SessionInvariant
<1>2. QED
    BY <1>1, InvariantHolds, PTL

\* No two clients are one player, and a connected client has its own id.
THEOREM PlayersStayDistinct == Spec => []PlayersAreDistinct
<1>1. SessionInvariant => PlayersAreDistinct
    BY DEF SessionInvariant, IdsAreAgreed
<1>2. QED
    BY <1>1, InvariantHolds, PTL

\* The batches written for a client and what is pending are the world, in order.
THEOREM CreatesAreCutOnce == Spec => []CreatesAreWrittenOnce
<1>1. SessionInvariant => CreatesAreWrittenOnce
    BY DEF SessionInvariant, WorldIsCutInOrder
<1>2. QED
    BY <1>1, InvariantHolds, PTL

----------------------------------------------------------------------------
\* Where the elements of a concatenation are.
LEMMA ConcatElements ==
    ASSUME NEW s \in Seq(Nat), NEW t \in Seq(Nat)
    PROVE  /\ s \o t \in Seq(Nat)
           /\ Len(s) \in Nat /\ Len(t) \in Nat
           /\ Len(s \o t) = Len(s) + Len(t)
           /\ \A i \in 1 .. Len(s) : (s \o t)[i] = s[i]
           /\ \A i \in 1 .. Len(t) : (s \o t)[Len(s) + i] = t[i]
<1>1. Len(s) \in Nat /\ Len(t) \in Nat
    BY LenProperties
<1>2. /\ s \o t \in Seq(Nat)
      /\ Len(s \o t) = Len(s) + Len(t)
      /\ \A i \in 1 .. Len(s) + Len(t) :
             (s \o t)[i] = IF i <= Len(s) THEN s[i] ELSE t[i - Len(s)]
    BY ConcatProperties
<1>3. \A i \in 1 .. Len(s) : i \in 1 .. Len(s) + Len(t) /\ i <= Len(s)
    BY <1>1
<1>4. \A i \in 1 .. Len(t) : /\ Len(s) + i \in 1 .. Len(s) + Len(t)
                             /\ ~(Len(s) + i <= Len(s))
                             /\ (Len(s) + i) - Len(s) = i
    BY <1>1
<1>5. QED
    BY <1>1, <1>2, <1>3, <1>4

\* A batch holds the ids that follow the ones already written.
LEMMA BatchIsNext ==
    ASSUME SessionInvariant, NEW c \in DOMAIN Proxies,
           NEW batch, batch = Batch(Proxies[c].mPendingCommands)
    PROVE  /\ batch \in Seq(ReplicationCommand)
           /\ \A i \in 1 .. Len(batch) : batch[i].networkId = Len(written[c]) + i
<1> DEFINE pending == Proxies[c].mPendingCommands
           ids == NetworkIds(batch)
           rest == NetworkIds(Rest(pending))
           world == server.mWorldObjects
<1>1. pending \in Seq(ReplicationCommand) /\ written[c] \in Seq(Nat)
    BY DEF SessionInvariant, TypeOK, ClientProxy
<1>2. batch \in Seq(ReplicationCommand) /\ Rest(pending) \in Seq(ReplicationCommand)
      /\ ids \o rest = NetworkIds(pending)
    BY <1>1, BatchFields
<1>3. /\ ids \in Seq(Nat) /\ Len(ids) = Len(batch) /\ rest \in Seq(Nat)
      /\ \A i \in 1 .. Len(batch) : ids[i] = batch[i].networkId
    BY <1>2, NetworkIdsFields
<1>4. written[c] \o (ids \o rest) = world
    BY <1>2 DEF SessionInvariant, WorldIsCutInOrder, CreatesAreWrittenOnce
<1>5. \A i \in 1 .. Len(world) : world[i] = i
    BY DEF SessionInvariant, WorldIsCutInOrder
<1> HIDE DEF ids, rest, world
<1>6. SUFFICES ASSUME NEW i \in 1 .. Len(batch)
               PROVE  batch[i].networkId = Len(written[c]) + i
    BY <1>2
<1>7. /\ ids \o rest \in Seq(Nat)
      /\ i \in 1 .. Len(ids \o rest)
      /\ (ids \o rest)[i] = ids[i]
    <2>1. /\ ids \o rest \in Seq(Nat) /\ Len(ids) \in Nat /\ Len(rest) \in Nat
          /\ Len(ids \o rest) = Len(ids) + Len(rest)
          /\ \A j \in 1 .. Len(ids) : (ids \o rest)[j] = ids[j]
        BY <1>3, ConcatElements
    <2>2. i \in 1 .. Len(ids)
        BY <1>3, <1>6
    <2>3. i \in 1 .. Len(ids) + Len(rest)
        BY <2>1, <2>2
    <2>4. QED
        BY <2>1, <2>2, <2>3
<1>8. /\ Len(written[c]) + i \in 1 .. Len(world)
      /\ world[Len(written[c]) + i] = (ids \o rest)[i]
    <2> DEFINE done == written[c]
               next == ids \o rest
    <2>1. done \in Seq(Nat) /\ next \in Seq(Nat) /\ world = done \o next
        BY <1>1, <1>4, <1>7
    <2>2. i \in 1 .. Len(next)
        BY <1>7
    <2> HIDE DEF done, next
    <2>3. /\ Len(done) \in Nat /\ Len(next) \in Nat
          /\ Len(world) = Len(done) + Len(next)
          /\ \A j \in 1 .. Len(next) : world[Len(done) + j] = next[j]
        BY <2>1, ConcatElements
    <2>4. Len(done) + i \in 1 .. Len(world) /\ world[Len(done) + i] = next[i]
        BY <2>2, <2>3
    <2>5. QED
        BY <2>4 DEF done, next
<1>9. QED
    BY <1>3, <1>5, <1>7, <1>8

\* Steps that neither make objects, nor write creates, nor send STATs.
LEMMA NothingTravels ==
    ASSUME CreatesTravelOnce,
           \A c \in Clients : client'[c].objects = client[c].objects,
           \A d \in network' : d.type = "STAT" => d \in network,
           written' = written
    PROVE  CreatesTravelOnce'
<1>1. \A c \in Clients : InTransit(c)' \subseteq InTransit(c) /\ Made(c)' = Made(c)
    BY DEF InTransit, Made
<1>2. NoObjectIsMadeTwice'
    BY DEF CreatesTravelOnce, NoObjectIsMadeTwice
<1>3. ASSUME NEW c \in Clients
      PROVE  CreatesTravelOnceTo(c)'
    BY <1>1 DEF CreatesTravelOnce, CreatesTravelOnceTo
<1>4. QED
    BY <1>2, <1>3 DEF CreatesTravelOnce

\* A batch holds ids that are in no other datagram and that made no object.
LEMMA SendReplicationDataTravels ==
    ASSUME SessionInvariant, CreatesTravelOnce,
           NEW c \in Clients, SendReplicationData(c)
    PROVE  CreatesTravelOnce'
<1>1. TypeOK
    BY DEF SessionInvariant
<1>2. PICK stat \in Datagram :
          /\ stat.type = "STAT" /\ stat.client = c
          /\ stat.commands = Batch(Proxies[c].mPendingCommands)
          /\ c \in DOMAIN Proxies
          /\ network' = network \/ network' = network \cup {stat}
          /\ written' = [written EXCEPT ![c] = @ \o NetworkIds(stat.commands)]
          /\ client' = client
    BY <1>1, SendReplicationDataFields
<1> DEFINE n == Len(stat.commands)
           w == Len(written[c])
<1>3. /\ stat.commands \in Seq(ReplicationCommand)
      /\ \A i \in 1 .. n : stat.commands[i].networkId = w + i
    BY <1>2, BatchIsNext
<1>4. n \in Nat /\ w \in Nat
    BY <1>1, <1>3, LenProperties DEF TypeOK
<1>5. Len(written'[c]) = w + n
    <2> DEFINE ids == NetworkIds(stat.commands)
    <2>1. ids \in Seq(Nat) /\ Len(ids) = n
        BY <1>3, NetworkIdsFields
    <2>2. written'[c] = written[c] \o ids
        BY <1>1, <1>2 DEF TypeOK
    <2>3. written[c] \in Seq(Nat)
        BY <1>1 DEF TypeOK
    <2> HIDE DEF ids, n
    <2>4. Len(written[c] \o ids) = w + n
        BY <2>1, <2>3, ConcatElements
    <2>5. QED
        BY <2>2, <2>4
<1>6. \A a \in Clients \ {c} : written'[a] = written[a]
    BY <1>1, <1>2 DEF TypeOK
<1>7. \A a \in Clients : Made(a)' = Made(a)
    BY <1>2 DEF Made
<1>8. \A a \in Clients \ {c} : InTransit(a)' = InTransit(a)
    BY <1>2 DEF InTransit
<1>9. InTransit(c)' \subseteq InTransit(c) \cup {stat}
    BY <1>2 DEF InTransit
<1>10. Ids(stat) \subseteq (w + 1) .. (w + n)
    <2> HIDE DEF n, w
    <2>1. \A i \in 1 .. n : w + i \in (w + 1) .. (w + n)
        BY <1>4
    <2>2. QED
        BY <1>3, <2>1 DEF Ids, n
<1>11. \A i, j \in 1 .. n :
           stat.commands[i].networkId = stat.commands[j].networkId => i = j
    BY <1>3, <1>4
<1>12. NoObjectIsMadeTwice'
    BY <1>2 DEF CreatesTravelOnce, NoObjectIsMadeTwice
<1>13. ASSUME NEW a \in Clients \ {c}
       PROVE  CreatesTravelOnceTo(a)'
    BY <1>6, <1>7, <1>8 DEF CreatesTravelOnce, CreatesTravelOnceTo
<1> HIDE DEF n, w
<1>14. CreatesTravelOnceTo(c)'
    <2>1. /\ Made(c) \subseteq 1 .. w
          /\ \A d \in InTransit(c) :
                 /\ Ids(d) \subseteq (1 .. w) \ Made(c)
                 /\ \A i, j \in 1 .. Len(d.commands) :
                        d.commands[i].networkId = d.commands[j].networkId => i = j
                 /\ \A e \in InTransit(c) : d # e => Ids(d) \cap Ids(e) = {}
        BY DEF CreatesTravelOnce, CreatesTravelOnceTo, w
    <2>2. /\ 1 .. w \subseteq 1 .. (w + n)
          /\ (w + 1) .. (w + n) \subseteq 1 .. (w + n)
          /\ (1 .. w) \cap ((w + 1) .. (w + n)) = {}
        BY <1>4
    <2>3. Made(c)' \subseteq 1 .. Len(written'[c])
        BY <1>5, <1>7, <2>1, <2>2
    <2>4. \A d \in InTransit(c)' :
              Ids(d) \subseteq (1 .. Len(written'[c])) \ Made(c)'
        <3>1. Ids(stat) \subseteq (1 .. (w + n)) \ Made(c)
            BY <1>10, <2>1, <2>2
        <3>2. \A d \in InTransit(c) : Ids(d) \subseteq (1 .. (w + n)) \ Made(c)
            BY <2>1, <2>2
        <3>3. QED
            BY <1>5, <1>7, <1>9, <3>1, <3>2
    <2>5. \A d \in InTransit(c)' : \A i, j \in 1 .. Len(d.commands) :
              d.commands[i].networkId = d.commands[j].networkId => i = j
        BY <1>9, <1>11, <2>1 DEF n
    <2>6. \A d, e \in InTransit(c)' : d # e => Ids(d) \cap Ids(e) = {}
        <3>1. \A d \in InTransit(c) : Ids(d) \cap Ids(stat) = {}
            BY <1>10, <2>1, <2>2
        <3>2. QED
            BY <1>9, <2>1, <3>1
    <2>7. QED
        BY <2>3, <2>4, <2>5, <2>6 DEF CreatesTravelOnceTo
<1>15. QED
    BY <1>12, <1>13, <1>14 DEF CreatesTravelOnce

\* The element of a concatenation is an element of one of its parts.
LEMMA ConcatElement ==
    ASSUME NEW s \in Seq(Nat), NEW t \in Seq(Nat), NEW i \in 1 .. Len(s \o t)
    PROVE  \/ \E j \in 1 .. Len(s) : (s \o t)[i] = s[j]
           \/ \E j \in 1 .. Len(t) : (s \o t)[i] = t[j]
<1>1. /\ Len(s) \in Nat /\ Len(t) \in Nat
      /\ Len(s \o t) = Len(s) + Len(t)
      /\ \A j \in 1 .. Len(s) : (s \o t)[j] = s[j]
      /\ \A j \in 1 .. Len(t) : (s \o t)[Len(s) + j] = t[j]
    BY ConcatElements
<1>2. CASE i <= Len(s)
    <2>1. i \in 1 .. Len(s)
        BY <1>1, <1>2
    <2>2. QED
        BY <1>1, <2>1
<1>3. CASE ~(i <= Len(s))
    <2>1. i - Len(s) \in 1 .. Len(t) /\ Len(s) + (i - Len(s)) = i
        BY <1>1, <1>3
    <2>2. QED
        BY <1>1, <2>1
<1>4. QED
    BY <1>2, <1>3

\* A STAT makes an object for each of its creates.
LEMMA HandleReplicationDataMakes ==
    ASSUME TypeOK, NEW c \in Clients, NEW d \in network,
           HandleReplicationData(c, d)
    PROVE  Made(c)' = Made(c) \cup Ids(d)
<1> DEFINE old == client[c].objects
           ids == NetworkIds(d.commands)
<1>1. /\ d.commands \in Seq(ReplicationCommand)
      /\ client'[c].objects = old \o ids
    <2>1. PICK after \in Client :
              /\ d.type = "STAT" /\ d.client = c
              /\ d.commands \in Seq(ReplicationCommand)
              /\ client' = [client EXCEPT ![c] = after]
              /\ after.objects = client[c].objects \o NetworkIds(d.commands)
              /\ after.mState = client[c].mState
              /\ after.mPlayerId = client[c].mPlayerId
              /\ network' = Taken(d)
              /\ UNCHANGED <<server, written>>
        BY HandleReplicationDataFields
    <2>2. QED
        BY <2>1 DEF TypeOK
<1>2. old \in Seq(Nat)
    BY DEF TypeOK, Client
<1>3. /\ ids \in Seq(Nat) /\ Len(ids) = Len(d.commands)
      /\ \A i \in 1 .. Len(ids) : ids[i] = d.commands[i].networkId
    BY <1>1, NetworkIdsFields
<1>4. /\ Made(c) = {old[i] : i \in 1 .. Len(old)}
      /\ Ids(d) = {ids[i] : i \in 1 .. Len(ids)}
    BY <1>3 DEF Made, Ids
<1>5. Made(c)' = {(old \o ids)[i] : i \in 1 .. Len(old \o ids)}
    BY <1>1 DEF Made
<1> HIDE DEF old, ids
<1>6. Made(c)' \subseteq Made(c) \cup Ids(d)
    BY <1>2, <1>3, <1>4, <1>5, ConcatElement
<1>7. /\ \A i \in 1 .. Len(old) : /\ i \in 1 .. Len(old \o ids)
                                  /\ (old \o ids)[i] = old[i]
      /\ \A i \in 1 .. Len(ids) : /\ Len(old) + i \in 1 .. Len(old \o ids)
                                  /\ (old \o ids)[Len(old) + i] = ids[i]
    <2>1. /\ Len(old) \in Nat /\ Len(ids) \in Nat
          /\ Len(old \o ids) = Len(old) + Len(ids)
          /\ \A i \in 1 .. Len(old) : (old \o ids)[i] = old[i]
          /\ \A i \in 1 .. Len(ids) : (old \o ids)[Len(old) + i] = ids[i]
        BY <1>2, <1>3, ConcatElements
    <2>2. QED
        BY <2>1
<1>8. Made(c) \cup Ids(d) \subseteq Made(c)'
    BY <1>4, <1>5, <1>7
<1>9. QED
    BY <1>6, <1>8

\* The objects of a datagram are made when the datagram leaves the network.
LEMMA HandleReplicationDataTravels ==
    ASSUME ~NetworkRepeats, SessionInvariant, CreatesTravelOnce,
           NEW c \in Clients, NEW d \in network, HandleReplicationData(c, d)
    PROVE  CreatesTravelOnce'
<1>1. TypeOK
    BY DEF SessionInvariant
<1>2. PICK after \in Client :
          /\ d.type = "STAT" /\ d.client = c
          /\ d.commands \in Seq(ReplicationCommand)
          /\ client' = [client EXCEPT ![c] = after]
          /\ after.objects = client[c].objects \o NetworkIds(d.commands)
          /\ after.mState = client[c].mState
          /\ after.mPlayerId = client[c].mPlayerId
          /\ network' = Taken(d)
          /\ UNCHANGED <<server, written>>
    BY <1>1, HandleReplicationDataFields
<1> DEFINE old == client[c].objects
           ids == NetworkIds(d.commands)
           n == Len(old)
           k == Len(ids)
<1>3. /\ client'[c].objects = old \o ids
      /\ \A a \in Clients \ {c} : client'[a].objects = client[a].objects
    BY <1>1, <1>2 DEF TypeOK
<1>4. network' = network \ {d}
    BY <1>2 DEF Taken
<1>5. /\ ids \in Seq(Nat) /\ k = Len(d.commands)
      /\ \A i \in 1 .. k : ids[i] = d.commands[i].networkId
    BY <1>2, NetworkIdsFields
<1>6. old \in Seq(Nat)
    BY <1>1 DEF TypeOK, Client
<1>7. n \in Nat /\ k \in Nat
    BY <1>5, <1>6, LenProperties
<1>8. d \in InTransit(c)
    BY <1>2 DEF InTransit
<1>9. /\ Ids(d) \subseteq (1 .. Len(written[c])) \ Made(c)
      /\ \A i, j \in 1 .. k : ids[i] = ids[j] => i = j
      /\ \A i, j \in 1 .. n : old[i] = old[j] => i = j
    BY <1>5, <1>8
    DEF CreatesTravelOnce, CreatesTravelOnceTo, NoObjectIsMadeTwice
<1>10. /\ Ids(d) = {ids[i] : i \in 1 .. k}
       /\ Made(c) = {old[i] : i \in 1 .. n}
    BY <1>5 DEF Ids, Made
<1> HIDE DEF old, ids
<1> DEFINE made == old \o ids
<1>11. /\ Len(made) = n + k
       /\ \A i \in 1 .. n : made[i] = old[i]
       /\ \A i \in 1 .. k : made[n + i] = ids[i]
    BY <1>5, <1>6, ConcatElements
<1> HIDE DEF n, k
<1> DEFINE J == 1 .. (n + k)
<1>12. \A i \in J : i \in 1 .. n \/ \E j \in 1 .. k : i = n + j
    <2> SUFFICES ASSUME NEW i \in J, ~(i \in 1 .. n)
                 PROVE  \E j \in 1 .. k : i = n + j
        OBVIOUS
    <2>1. i - n \in 1 .. k /\ i = n + (i - n)
        BY <1>7
    <2>2. QED
        BY <2>1
<1> HIDE DEF J, made
<1>13. \A i, j \in J : made[i] = made[j] => i = j
    <2>1. \A i \in 1 .. n, j \in 1 .. k : old[i] # ids[j]
        BY <1>9, <1>10
    <2>2. QED
        BY <1>9, <1>11, <1>12, <2>1
<1>14. Made(c)' = Made(c) \cup Ids(d)
    BY <1>1, HandleReplicationDataMakes
<1>15. NoObjectIsMadeTwice'
    <2> SUFFICES ASSUME NEW a \in Clients
                 PROVE  \A i, j \in 1 .. Len(client'[a].objects) :
                            client'[a].objects[i] = client'[a].objects[j] => i = j
        BY DEF NoObjectIsMadeTwice
    <2>1. CASE a = c
        BY <1>3, <1>11, <1>13, <2>1 DEF J, made
    <2>2. CASE a # c
        BY <1>3, <2>2 DEF CreatesTravelOnce, NoObjectIsMadeTwice
    <2>3. QED
        BY <2>1, <2>2
<1>16. ASSUME NEW a \in Clients \ {c}
       PROVE  CreatesTravelOnceTo(a)'
    <2>1. InTransit(a)' \subseteq InTransit(a) /\ Made(a)' = Made(a)
        BY <1>3, <1>4 DEF InTransit, Made
    <2>2. QED
        BY <1>2, <2>1 DEF CreatesTravelOnce, CreatesTravelOnceTo
<1>17. CreatesTravelOnceTo(c)'
    <2>1. InTransit(c)' = InTransit(c) \ {d}
        BY <1>4 DEF InTransit
    <2>2. CreatesTravelOnceTo(c)
        BY DEF CreatesTravelOnce
    <2>3. QED
        BY <1>2, <1>8, <1>9, <1>14, <2>1, <2>2 DEF CreatesTravelOnceTo
<1>18. QED
    BY <1>15, <1>16, <1>17 DEF CreatesTravelOnce

\* The other steps make no objects, write no creates, neither send nor receive a
\* STAT, and do not bring the server back.
LEMMA OtherStepsCarryNothing ==
    ASSUME SessionInvariant, [Next]_vars,
           \A c \in Clients : ~SendReplicationData(c),
           \A c \in Clients, d \in network : ~HandleReplicationData(c, d)
    PROVE  /\ \A c \in Clients : client'[c].objects = client[c].objects
           /\ \A d \in network' : d.type = "STAT" => d \in network
           /\ \A d \in network : d.type = "STAT" => d \in network'
           /\ written' = written
           /\ server.phase = "ended" => server'.phase = "ended"
<1>1. CASE UNCHANGED vars \/ InitializeServer \/ AddWorldObject \/ EnterLoop
    <2>1. UNCHANGED <<client, network, written>>
        BY <1>1 DEF vars, InitializeServer, AddWorldObject, EnterLoop
    <2>2. server.phase = "ended" => server' = server
        BY <1>1 DEF vars, InitializeServer, AddWorldObject, EnterLoop
    <2>3. QED
        BY <2>1, <2>2
<1>2. CASE \E d \in network, g \in GarbageValues : ProcessPacket(d, g)
    <2>1. PICK d \in network, g \in GarbageValues : ProcessPacket(d, g)
        BY <1>2
    <2>2. /\ UNCHANGED <<client, written>>
          /\ server.phase = "receive" /\ d.type = "SYNC"
        BY <2>1 DEF ProcessPacket
    <2>3. /\ \A e \in network' : e.type = "STAT" => e \in network
          /\ \A e \in network : e.type = "STAT" => e \in network'
        <3>1. CASE HandlePacketFromExistingClient(d)
            BY <2>2, <3>1 DEF HandlePacketFromExistingClient, Taken
        <3>2. CASE HandlePacketFromNewClient(d, g)
            BY <2>2, <3>2 DEF HandlePacketFromNewClient, Taken, Thrown, AckPacket
        <3>3. QED
            BY <2>1, <3>1, <3>2 DEF ProcessPacket
    <2>4. QED
        BY <2>2, <2>3
<1>3. CASE \E c \in Clients : InitializeClient(c)
    <2>1. PICK c \in Clients : InitializeClient(c)
        BY <1>3
    <2>2. client \in [Clients -> Client]
        BY DEF SessionInvariant, TypeOK
    <2>3. PICK o \in InitializeOutcomes :
              client' = [client EXCEPT
                  ![c].mSocket = o.mSocket,
                  ![c].phase = IF o.result THEN "running" ELSE "ended",
                  ![c].mState = IF o.result THEN "NCS_InSync" ELSE @]
        BY <2>1 DEF InitializeClient
    <2>4. \A a \in Clients : client'[a].objects = client[a].objects
        BY <2>2, <2>3 DEF Client
    <2>5. UNCHANGED <<server, network, written>>
        BY <2>1 DEF InitializeClient
    <2>6. QED
        BY <2>4, <2>5
<1>4. CASE \E c \in Clients : Send(c)
    <2>1. PICK c \in Clients : Send(c)
        BY <1>4
    <2>2. TypeOK /\ client \in [Clients -> Client]
        BY DEF SessionInvariant, TypeOK
    <2>3. PICK after \in Client, sync \in Datagram :
              /\ client' = [client EXCEPT ![c] = after]
              /\ after.objects = client[c].objects
              /\ sync.type = "SYNC"
              /\ network' \subseteq network \cup {sync}
              /\ UNCHANGED <<server, written>>
        BY <2>1, <2>2, SendFields
    <2>4. \A a \in Clients : client'[a].objects = client[a].objects
        BY <2>2, <2>3
    <2>5. network \subseteq network'
        BY <2>1 DEF Send, Sent, Thrown
    <2>6. QED
        BY <2>3, <2>4, <2>5
<1>5. CASE \E c \in Clients, d \in network : HandleAckedPacket(c, d)
    <2>1. PICK c \in Clients, d \in network : HandleAckedPacket(c, d)
        BY <1>5
    <2>2. /\ UNCHANGED <<server, written>>
          /\ d.type = "ACKC"
          /\ network' = Taken(d)
        BY <2>1 DEF HandleAckedPacket
    <2>3. client \in [Clients -> Client]
        BY DEF SessionInvariant, TypeOK
    <2>4. \A a \in Clients : client'[a].objects = client[a].objects
        BY <2>1, <2>3 DEF HandleAckedPacket, Client
    <2>5. QED
        BY <2>2, <2>4 DEF Taken
<1>6. QED
    BY <1>1, <1>2, <1>3, <1>4, <1>5 DEF Next

\* On a network that repeats nothing, every create travels once.
LEMMA NextTravels ==
    ASSUME ~NetworkRepeats, SessionInvariant, CreatesTravelOnce, [Next]_vars
    PROVE  CreatesTravelOnce'
<1>1. CASE \E c \in Clients : SendReplicationData(c)
    BY <1>1, SendReplicationDataTravels
<1>2. CASE \E c \in Clients, d \in network : HandleReplicationData(c, d)
    BY <1>2, HandleReplicationDataTravels
<1>3. CASE /\ \A c \in Clients : ~SendReplicationData(c)
           /\ \A c \in Clients, d \in network : ~HandleReplicationData(c, d)
    BY <1>3, OtherStepsCarryNothing, NothingTravels
<1>4. QED
    BY <1>1, <1>2, <1>3

\* Every create travels once, for every world and every packet size.
THEOREM CreatesAlwaysTravelOnce ==
    ASSUME ~NetworkRepeats
    PROVE  Spec => []CreatesTravelOnce
<1>1. Init => CreatesTravelOnce
    <2> SUFFICES ASSUME Init PROVE CreatesTravelOnce
        OBVIOUS
    <2>1. \A c \in Clients : client[c].objects = << >> /\ InTransit(c) = {}
        BY DEF Init, InitialClient, InTransit
    <2>2. \A c \in Clients : Made(c) = {}
        BY <2>1 DEF Made
    <2>3. QED
        BY <2>1, <2>2 DEF CreatesTravelOnce, CreatesTravelOnceTo, NoObjectIsMadeTwice
<1>2. SessionInvariant /\ CreatesTravelOnce /\ [Next]_vars => CreatesTravelOnce'
    BY NextTravels
<1>3. QED
    BY <1>1, <1>2, InvariantHolds, PTL DEF Spec

\* On a network that repeats nothing, no client makes an object twice, although
\* it handles old packets like new ones.
THEOREM NoObjectMadeTwice ==
    ASSUME ~NetworkRepeats
    PROVE  Spec => []NoObjectIsMadeTwice
<1>1. CreatesTravelOnce => NoObjectIsMadeTwice
    BY DEF CreatesTravelOnce
<1>2. QED
    BY <1>1, CreatesAlwaysTravelOnce, PTL

----------------------------------------------------------------------------
\* A round writes creates and sends what it writes.
LEMMA SendReplicationDataLosesNothing ==
    ASSUME SessionInvariant, OnlyTheNetworkLosesCreates,
           NEW c \in Clients, SendReplicationData(c)
    PROVE  OnlyTheNetworkLosesCreates'
<1>1. TypeOK
    BY DEF SessionInvariant
<1>2. PICK stat \in Datagram :
          /\ stat.type = "STAT" /\ stat.client = c
          /\ stat.commands = Batch(Proxies[c].mPendingCommands)
          /\ c \in DOMAIN Proxies
          /\ server.phase = "replicate"
          /\ server'.phase # "ended" => network' = network \cup {stat}
          /\ written' = [written EXCEPT ![c] = @ \o NetworkIds(stat.commands)]
          /\ client' = client
    BY <1>1, SendReplicationDataFields
<1> SUFFICES ASSUME server'.phase # "ended",
                    NEW a \in Clients, NEW i \in 1 .. Len(written'[a])
             PROVE  written'[a][i]
                        \in Made(a)' \cup UNION {Ids(d) : d \in InTransit(a)'}
    BY DEF OnlyTheNetworkLosesCreates
<1>3. /\ Made(a)' = Made(a)
      /\ InTransit(a) \subseteq InTransit(a)'
    BY <1>2 DEF Made, InTransit
<1>4. \A j \in 1 .. Len(written[a]) :
          written[a][j] \in Made(a)' \cup UNION {Ids(d) : d \in InTransit(a)'}
    BY <1>2, <1>3 DEF OnlyTheNetworkLosesCreates
<1>5. CASE a # c
    BY <1>1, <1>2, <1>4, <1>5 DEF TypeOK
<1>6. CASE a = c
    <2> DEFINE ids == NetworkIds(stat.commands)
    <2>1. Batch(Proxies[c].mPendingCommands) \in Seq(ReplicationCommand)
        BY <1>1, <1>2, BatchFields DEF TypeOK, ClientProxy
    <2>2. /\ ids \in Seq(Nat) /\ Len(ids) = Len(stat.commands)
          /\ \A j \in 1 .. Len(ids) : ids[j] = stat.commands[j].networkId
        BY <1>2, <2>1, NetworkIdsFields
    <2>3. \A j \in 1 .. Len(ids) : ids[j] \in Ids(stat)
        BY <2>2 DEF Ids
    <2>4. written[c] \in Seq(Nat) /\ written'[c] = written[c] \o ids
        BY <1>1, <1>2 DEF TypeOK
    <2>5. stat \in InTransit(c)'
        BY <1>2 DEF InTransit
    <2> HIDE DEF ids
    <2>6. \/ \E j \in 1 .. Len(written[c]) : written'[c][i] = written[c][j]
          \/ \E j \in 1 .. Len(ids) : written'[c][i] = ids[j]
        <3>1. i \in 1 .. Len(written[c] \o ids)
            BY <1>6, <2>4
        <3>2. \/ \E j \in 1 .. Len(written[c]) : (written[c] \o ids)[i] = written[c][j]
              \/ \E j \in 1 .. Len(ids) : (written[c] \o ids)[i] = ids[j]
            BY <2>2, <2>4, <3>1, ConcatElement
        <3>3. QED
            BY <2>4, <3>2
    <2>7. QED
        BY <1>4, <1>6, <2>3, <2>5, <2>6
<1>7. QED
    BY <1>5, <1>6

\* A client makes an object for every create of a STAT it takes, old or not.
LEMMA HandleReplicationDataLosesNothing ==
    ASSUME SessionInvariant, OnlyTheNetworkLosesCreates,
           NEW c \in Clients, NEW d \in network, HandleReplicationData(c, d)
    PROVE  OnlyTheNetworkLosesCreates'
<1>1. TypeOK
    BY DEF SessionInvariant
<1>2. PICK after \in Client :
          /\ d.type = "STAT" /\ d.client = c
          /\ d.commands \in Seq(ReplicationCommand)
          /\ client' = [client EXCEPT ![c] = after]
          /\ after.objects = client[c].objects \o NetworkIds(d.commands)
          /\ after.mState = client[c].mState
          /\ after.mPlayerId = client[c].mPlayerId
          /\ network' = Taken(d)
          /\ UNCHANGED <<server, written>>
    BY <1>1, HandleReplicationDataFields
<1>3. Made(c) \cup Ids(d) \subseteq Made(c)'
    BY <1>1, <1>2, HandleReplicationDataMakes
<1>4. \A a \in Clients \ {c} : Made(a)' = Made(a)
    BY <1>1, <1>2 DEF TypeOK, Made
<1>5. \A a \in Clients : \A e \in InTransit(a) : e # d => e \in InTransit(a)'
    BY <1>2 DEF InTransit, Taken
<1>6. \A a \in Clients \ {c} : d \notin InTransit(a)
    BY <1>2 DEF InTransit
<1>7. \A a \in Clients :
          Made(a) \cup UNION {Ids(e) : e \in InTransit(a)}
              \subseteq Made(a)' \cup UNION {Ids(e) : e \in InTransit(a)'}
    BY <1>3, <1>4, <1>5, <1>6
<1>8. QED
    BY <1>2, <1>7 DEF OnlyTheNetworkLosesCreates

\* A step of anybody loses no create.
LEMMA NextLosesNothing ==
    ASSUME SessionInvariant, OnlyTheNetworkLosesCreates, [Next]_vars
    PROVE  OnlyTheNetworkLosesCreates'
<1>1. CASE \E c \in Clients : SendReplicationData(c)
    BY <1>1, SendReplicationDataLosesNothing
<1>2. CASE \E c \in Clients, d \in network : HandleReplicationData(c, d)
    BY <1>2, HandleReplicationDataLosesNothing
<1>3. CASE /\ \A c \in Clients : ~SendReplicationData(c)
           /\ \A c \in Clients, d \in network : ~HandleReplicationData(c, d)
    <2>1. /\ \A c \in Clients : client'[c].objects = client[c].objects
          /\ \A d \in network : d.type = "STAT" => d \in network'
          /\ written' = written
          /\ server.phase = "ended" => server'.phase = "ended"
        BY <1>3, OtherStepsCarryNothing
    <2>2. \A c \in Clients : Made(c)' = Made(c) /\ InTransit(c) \subseteq InTransit(c)'
        BY <2>1 DEF Made, InTransit
    <2>3. QED
        BY <2>1, <2>2 DEF OnlyTheNetworkLosesCreates
<1>4. QED
    BY <1>1, <1>2, <1>3

\* While the server runs, a create that was written for a client is in a datagram
\* to it or has made its object, however STATs are lost, repeated and reordered.
THEOREM NoCreateIsLostOnTheWay == Spec => []OnlyTheNetworkLosesCreates
<1>1. Init => OnlyTheNetworkLosesCreates
    <2> SUFFICES ASSUME Init PROVE OnlyTheNetworkLosesCreates
        OBVIOUS
    <2>1. \A c \in Clients : Len(written[c]) = 0
        BY DEF Init
    <2>2. QED
        BY <2>1 DEF OnlyTheNetworkLosesCreates
<1>2. SessionInvariant /\ OnlyTheNetworkLosesCreates /\ [Next]_vars
          => OnlyTheNetworkLosesCreates'
    BY NextLosesNothing
<1>3. QED
    BY <1>1, <1>2, InvariantHolds, PTL DEF Spec

\* A client to which nothing is pending and nothing travels.
Settled(c) ==
    /\ server.phase # "ended"
    /\ c \in DOMAIN Proxies
    /\ Len(Proxies[c].mPendingCommands) = 0
    /\ InTransit(c) = {}

\* The safety half of EveryClientGetsTheWorld, for worlds of any size: a client
\* that has registered, with no command pending and no STAT in transit, has made
\* every world object.
THEOREM SettledClientsHaveTheWorld ==
    Spec => [](\A c \in Clients : Settled(c) => HasTheWorld(c))
<1>1. SessionInvariant /\ OnlyTheNetworkLosesCreates
          => \A c \in Clients : Settled(c) => HasTheWorld(c)
    <2> SUFFICES ASSUME SessionInvariant, OnlyTheNetworkLosesCreates,
                        NEW c \in Clients, Settled(c)
                 PROVE  HasTheWorld(c)
        OBVIOUS
    <2> DEFINE pending == Proxies[c].mPendingCommands
    <2>1. pending \in Seq(ReplicationCommand) /\ Len(pending) = 0
        BY DEF SessionInvariant, TypeOK, ClientProxy, Settled
    <2>2. NetworkIds(pending) = << >>
        <3>1. NetworkIds(pending) \in Seq(Nat) /\ Len(NetworkIds(pending)) = 0
            BY <2>1, NetworkIdsFields
        <3>2. QED
            BY <3>1, EmptySeq
    <2>3. written[c] \in Seq(Nat)
        BY DEF SessionInvariant, TypeOK
    <2>4. written[c] \o NetworkIds(pending) = server.mWorldObjects
        BY DEF SessionInvariant, WorldIsCutInOrder, CreatesAreWrittenOnce, Settled
    <2>5. written[c] = server.mWorldObjects
        BY <2>2, <2>3, <2>4, ConcatEmptySeq
    <2>6. \A i \in 1 .. Len(written[c]) : written[c][i] \in Made(c)
        BY DEF OnlyTheNetworkLosesCreates, Settled
    <2>7. QED
        BY <2>5, <2>6 DEF HasTheWorld, Made
<1>2. QED
    BY <1>1, InvariantHolds, NoCreateIsLostOnTheWay, PTL
=============================================================================
