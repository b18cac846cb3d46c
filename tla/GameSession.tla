---------------------------- MODULE GameSession ----------------------------
(***************************************************************************)
(* One server and its clients over UDP: examples/server.cpp with the       *)
(* NetworkManagerServer and its ClientProxies, and examples/client.cpp     *)
(* with the NetworkManagerClient.                                          *)
(*                                                                         *)
(* A client sends SYNC; the server registers it under a new player id,     *)
(* answers ACKC and queues one create command for every world object.      *)
(* After every packet it receives, the server sends each client a STAT     *)
(* with the next batch of its commands.                                    *)
(*                                                                         *)
(* The network is the set of datagrams in transit.  Nothing obliges it to  *)
(* deliver one, and with NetworkRepeats it keeps what it delivers and may  *)
(* deliver it again.                                                       *)
(*                                                                         *)
(* World objects are named by their network ids.  AddWorldObject is the    *)
(* only caller of the server's LinkingContext::GetId(obj, true), which     *)
(* hands out 1, 2, 3, ..., and no object is ever removed, so looking up    *)
(* the network id of a queued command always finds its object.             *)
(***************************************************************************)
EXTENDS DeliveryNotificationManager

CONSTANTS
    Clients,               \* the addresses clients send from
    WorldSize,             \* objects the server adds: 2 in server.cpp
    MaxCommandsPerPacket,  \* 10 in the code
    GarbageValues,         \* what an uninitialized uint16_t may hold
    NetworkRepeats,        \* may the network deliver a datagram again?
    SocketFailures,        \* the socket calls that may fail
    MaxSends,              \* Send calls of a client: 1 in client.cpp
    MaxDispatched,         \* bound: STAT packets to each client
    MaxObjects             \* bound: objects a client makes, repeats included

ASSUME SessionAssumption ==
    /\ WorldSize \in Nat
    /\ MaxCommandsPerPacket \in Nat \ {0}
    /\ GarbageValues \subseteq PacketSequenceNumber
    /\ NetworkRepeats \in BOOLEAN
    /\ SocketFailures \subseteq {"socket", "bind", "sendto"}
    /\ MaxSends \in Nat /\ MaxDispatched \in Nat /\ MaxObjects \in Nat

VARIABLES
    server,    \* the server process and its NetworkManagerServer
    client,    \* client[c]: the client process at address c
    network,   \* the datagrams in transit
    written    \* history: the network ids written in STATs for each client

vars == <<server, client, network, written>>

\* Every command is a create: QueueCreate is the only caller of
\* AddReplicationCommand.
ReplicationCommand == [networkId : Nat, action : {"RA_Create"}]

ClientProxy ==
    [mPlayerId                    : Nat,
     mPendingCommands             : Seq(ReplicationCommand),
     mDeliveryNotificationManager : Manager]

\* A client process.  objects are the network ids of the objects it made.
Client ==
    [phase                        : {"start", "running", "ended"},
     mSocket                      : {"none", "unbound", "bound"},
     mState                       : {"NCS_Uninitialized", "NCS_InSync",
                                     "NCS_Connected"},
     mPlayerId                    : Nat,
     mDeliveryNotificationManager : Manager,
     objects                      : Seq(Nat),
     sends                        : Nat]

Datagram ==
    [type : {"SYNC"}, client : Clients, n : Nat]
        \cup [type : {"ACKC"}, client : Clients, mPlayerId : Nat]
        \cup [type : {"STAT"}, client : Clients, seq : PacketSequenceNumber,
              acks : Seq(AckRange), commands : Seq(ReplicationCommand)]

\* The proxies are an unordered map from addresses, empty at first.  toUpdate
\* is what is left of the loop over them in SendReplicationDataToAllClients.
InitialServer ==
    [phase                    |-> "start",
     mSocket                  |-> "none",
     mWorldObjects            |-> << >>,
     mNextPlayerId            |-> 1,
     mClientAddressToProxyMap |-> << >>,
     toUpdate                 |-> {}]

\* mPlayerId is not initialized, and not read before it is set.
InitialClient(garbage) ==
    [phase                        |-> "start",
     mSocket                      |-> "none",
     mState                       |-> "NCS_Uninitialized",
     mPlayerId                    |-> 0,
     mDeliveryNotificationManager |-> NewManager(garbage),
     objects                      |-> << >>,
     sends                        |-> 0]

Init ==
    /\ server = InitialServer
    /\ client \in [Clients -> {InitialClient(g) : g \in GarbageValues}]
    /\ network = {}
    /\ written = [c \in Clients |-> << >>]

Proxies == server.mClientAddressToProxyMap

----------------------------------------------------------------------------
\* NetworkManager.

\* UDPSocket::Bind returns 0 or errno, which is positive.
BindResults == {0} \cup (IF "bind" \in SocketFailures THEN {98} ELSE {})

\* What one call of Initialize leaves in mSocket, and whether it returns true.
InitializeOutcomes ==
    {[mSocket |-> IF r = 0 THEN "bound" ELSE "unbound",
      result  |-> ~(r < 0)] : r \in BindResults}
        \cup (IF "socket" \in SocketFailures
              THEN {[mSocket |-> "none", result |-> FALSE]}
              ELSE {})

\* SendPacket gives the datagram to the network, or throws: no caller catches
\* it, and the process ends.  SendTo sends a datagram whole or not at all.
Sent(d) == network' = network \cup {d}
Thrown == "sendto" \in SocketFailures /\ UNCHANGED network

\* ReceiveFrom takes a datagram out of the network, or a copy of it.
Taken(d) == IF NetworkRepeats THEN network ELSE network \ {d}

----------------------------------------------------------------------------
\* The server.

InitializeServer ==
    /\ server.phase = "start"
    /\ \E o \in InitializeOutcomes :
           server' = [server EXCEPT
                         !.mSocket = o.mSocket,
                         !.phase = IF o.result THEN "setup" ELSE "ended"]
    /\ UNCHANGED <<client, network, written>>

\* Mutant: mNextNetworkId is not incremented.
GetId_Same(objects) == 1

\* GetId(obj, true) for an object that is not linked yet.
GetId(objects) == Len(objects) + 1

AddWorldObject ==
    /\ server.phase = "setup"
    /\ Len(server.mWorldObjects) < WorldSize
    /\ server' = [server EXCEPT !.mWorldObjects = Append(@, GetId(@))]
    /\ UNCHANGED <<client, network, written>>

EnterLoop ==
    /\ server.phase = "setup"
    /\ Len(server.mWorldObjects) = WorldSize
    /\ server' = [server EXCEPT !.phase = "receive"]
    /\ UNCHANGED <<client, network, written>>

\* Mutant: QueueCreate queues another action.  (A definition named X_Y is the
\* definition X with a plausible bug, Y; no specification uses it.)
QueueCreates_AsUpdates(objects) ==
    [i \in 1 .. Len(objects) |->
        [networkId |-> objects[i], action |-> "RA_Update"]]

QueueCreates(objects) ==
    [i \in 1 .. Len(objects) |->
        [networkId |-> objects[i], action |-> "RA_Create"]]

\* Mutant: the counter is not incremented.
NextPlayerId_Same(id) == id

\* GenerateNewPlayerId returns mNextPlayerId and leaves this.
NextPlayerId(id) == id + 1

\* Mutant: the id sent is what mNextPlayerId holds after the increment.
AckPacket_Next(c, playerId) ==
    [type |-> "ACKC", client |-> c, mPlayerId |-> playerId + 1]

AckPacket(c, playerId) ==
    [type |-> "ACKC", client |-> c, mPlayerId |-> playerId]

\* A SYNC from an address without a proxy.
HandlePacketFromNewClient(d, g) ==
    LET c == d.client
        proxies ==
            [a \in DOMAIN Proxies \cup {c} |->
                IF a = c
                THEN [mPlayerId        |-> server.mNextPlayerId,
                      mPendingCommands |-> QueueCreates(server.mWorldObjects),
                      mDeliveryNotificationManager |-> NewManager(g)]
                ELSE Proxies[a]]
        registered == [server EXCEPT
                          !.mClientAddressToProxyMap = proxies,
                          !.mNextPlayerId = NextPlayerId(@)]
    IN  /\ c \notin DOMAIN Proxies
        /\ \/ /\ network' = Taken(d) \cup {AckPacket(c, server.mNextPlayerId)}
              /\ server' = [registered EXCEPT !.phase = "replicate",
                                              !.toUpdate = DOMAIN proxies]
           \/ /\ Thrown
              /\ server' = [registered EXCEPT !.phase = "ended"]

\* A packet from an address with a proxy is not even read.
HandlePacketFromExistingClient(d) ==
    /\ d.client \in DOMAIN Proxies
    /\ network' = Taken(d)
    /\ server' = [server EXCEPT !.phase = "replicate",
                                !.toUpdate = DOMAIN Proxies]

\* The top of the loop of server.cpp: a packet, and then a round of STATs.
ProcessPacket(d, g) ==
    /\ server.phase = "receive"
    /\ server.mSocket = "bound"
    /\ d.type = "SYNC"
    /\ \A c \in DOMAIN Proxies :
           Proxies[c].mDeliveryNotificationManager.mDispatchedPacketCount
               < MaxDispatched
    /\ HandlePacketFromNewClient(d, g) \/ HandlePacketFromExistingClient(d)
    /\ UNCHANGED <<client, written>>

\* Mutant: the loop stops one command short of a full packet.
BatchSize_OneShort(pending) ==
    IF Len(pending) >= MaxCommandsPerPacket THEN MaxCommandsPerPacket - 1
                                            ELSE Len(pending)

\* The commands WritePendingCommands pops and writes, and the ones it leaves.
BatchSize(pending) ==
    IF Len(pending) > MaxCommandsPerPacket THEN MaxCommandsPerPacket
                                           ELSE Len(pending)
Batch(pending) == SubSeq(pending, 1, BatchSize(pending))

\* Mutants: one command too many is popped, or none.
Rest_OneLost(pending) == SubSeq(pending, BatchSize(pending) + 2, Len(pending))
Rest_Unpopped(pending) == pending

Rest(pending) == SubSeq(pending, BatchSize(pending) + 1, Len(pending))

NetworkIds(commands) == [i \in 1 .. Len(commands) |-> commands[i].networkId]

\* ClientProxy::WriteReplicationData, and then SendPacket.
SendReplicationData(c) ==
    LET proxy == Proxies[c]
        m == WriteSequenceNumber(proxy.mDeliveryNotificationManager, 0)
        stat == [type |-> "STAT", client |-> c,
                 seq |-> proxy.mDeliveryNotificationManager
                             .mNextOutgoingSequenceNumber,
                 acks |-> AcksToWrite(m),
                 commands |-> Batch(proxy.mPendingCommands)]
        after == [server EXCEPT
                     !.mClientAddressToProxyMap[c].mDeliveryNotificationManager =
                         WritePendingAcks(m),
                     !.mClientAddressToProxyMap[c].mPendingCommands = Rest(@),
                     !.toUpdate = @ \ {c}]
    IN  /\ server.phase = "replicate"
        /\ c \in server.toUpdate
        /\ written' = [written EXCEPT ![c] = @ \o NetworkIds(stat.commands)]
        /\ \/ /\ Sent(stat)
              /\ server' = [after EXCEPT
                               !.phase = IF after.toUpdate = {} THEN "receive"
                                                                ELSE "replicate"]
           \/ /\ Thrown
              /\ server' = [after EXCEPT !.phase = "ended"]
        /\ UNCHANGED client

----------------------------------------------------------------------------
\* A client.

InitializeClient(c) ==
    /\ client[c].phase = "start"
    /\ \E o \in InitializeOutcomes :
           client' = [client EXCEPT
                         ![c].mSocket = o.mSocket,
                         ![c].phase = IF o.result THEN "running" ELSE "ended",
                         ![c].mState = IF o.result THEN "NCS_InSync" ELSE @]
    /\ UNCHANGED <<server, network, written>>

SyncPacket(c, n) == [type |-> "SYNC", client |-> c, n |-> n]

\* A send binds an unbound socket to a port, as the bind to port 0 would have.
Send(c) ==
    /\ client[c].phase = "running"
    /\ client[c].sends < MaxSends
    /\ \/ /\ client[c].mState = "NCS_InSync"
          /\ Sent(SyncPacket(c, client[c].sends + 1))
          /\ client' = [client EXCEPT ![c].sends = @ + 1, ![c].mSocket = "bound"]
       \/ /\ client[c].mState = "NCS_InSync"
          /\ Thrown
          /\ client' = [client EXCEPT ![c].phase = "ended"]
       \/ /\ client[c].mState # "NCS_InSync"
          /\ client' = [client EXCEPT ![c].sends = @ + 1]
          /\ UNCHANGED network
    /\ UNCHANGED <<server, written>>

CanRead(c, d) ==
    /\ client[c].phase = "running"
    /\ client[c].mSocket = "bound"
    /\ d.client = c

\* An ACKC is read only while the client is waiting for one.
HandleAckedPacket(c, d) ==
    /\ CanRead(c, d)
    /\ d.type = "ACKC"
    /\ network' = Taken(d)
    /\ client' = IF client[c].mState = "NCS_InSync"
                 THEN [client EXCEPT ![c].mPlayerId = d.mPlayerId,
                                     ![c].mState = "NCS_Connected"]
                 ELSE client
    /\ UNCHANGED <<server, written>>

\* Mutant: what an old packet carries is not handled.
HandleReplicationData_NewOnly(c, d) ==
    /\ CanRead(c, d)
    /\ d.type = "STAT"
    /\ network' = Taken(d)
    /\ client' = [client EXCEPT
           ![c].mDeliveryNotificationManager = ProcessSequenceNumber(@, d.seq),
           ![c].objects = IF IsOld(client[c].mDeliveryNotificationManager, d.seq)
                          THEN @ ELSE @ \o NetworkIds(d.commands)]
    /\ UNCHANGED <<server, written>>

\* The result of ProcessSequenceNumber is not used: an old packet is handled
\* like any other.  Each create makes an object, which is not linked.
HandleReplicationData(c, d) ==
    LET m == ProcessSequenceNumber(client[c].mDeliveryNotificationManager, d.seq)
    IN  /\ CanRead(c, d)
        /\ d.type = "STAT"
        /\ Len(client[c].objects) + Len(d.commands) <= MaxObjects
        /\ network' = Taken(d)
        /\ \E popped \in 0 .. Len(m.mInFlightPackets) :
           \E missed \in 0 .. popped :
               /\ ProcessAcks(m, d.acks, missed, popped)
               /\ client' = [client EXCEPT
                      ![c].mDeliveryNotificationManager =
                          AfterPops(m, missed, popped),
                      ![c].objects = @ \o NetworkIds(d.commands)]
        /\ UNCHANGED <<server, written>>

----------------------------------------------------------------------------
Next ==
    \/ InitializeServer \/ AddWorldObject \/ EnterLoop
    \/ \E d \in network, g \in GarbageValues : ProcessPacket(d, g)
    \/ \E c \in Clients :
           \/ SendReplicationData(c)
           \/ InitializeClient(c)
           \/ Send(c)
           \/ \E d \in network : HandleAckedPacket(c, d)
                                     \/ HandleReplicationData(c, d)

Spec == Init /\ [][Next]_vars

(***************************************************************************)
(* Each process runs: the server through its set-up and its loop, a client *)
(* up to its first Send.  The network is assumed to deliver: a datagram    *)
(* that stays in transit is read in the end.  Nothing makes a client call  *)
(* Send again.                                                             *)
(***************************************************************************)
Fairness ==
    /\ WF_vars(InitializeServer) /\ WF_vars(AddWorldObject) /\ WF_vars(EnterLoop)
    /\ \A c \in Clients :
           /\ WF_vars(SendReplicationData(c))
           /\ WF_vars(InitializeClient(c))
           /\ WF_vars(client[c].sends = 0 /\ Send(c))
           /\ WF_vars(\E d \in network, g \in GarbageValues :
                          d.client = c /\ ProcessPacket(d, g))
           /\ WF_vars(\E d \in network : HandleAckedPacket(c, d))
           /\ WF_vars(\E d \in network : HandleReplicationData(c, d))

FairSpec == Spec /\ Fairness

----------------------------------------------------------------------------
TypeOK ==
    /\ DOMAIN server = {"phase", "mSocket", "mWorldObjects", "mNextPlayerId",
                        "mClientAddressToProxyMap", "toUpdate"}
    /\ server.phase \in {"start", "setup", "receive", "replicate", "ended"}
    /\ server.mSocket \in {"none", "unbound", "bound"}
    /\ server.mWorldObjects \in Seq(Nat)
    /\ server.mNextPlayerId \in Nat
    /\ DOMAIN Proxies \subseteq Clients
    /\ Proxies \in [DOMAIN Proxies -> ClientProxy]
    /\ server.toUpdate \subseteq DOMAIN Proxies
    /\ client \in [Clients -> Client]
    /\ network \subseteq Datagram
    /\ written \in [Clients -> Seq(Nat)]

\* No two clients are one player, and a connected client knows itself by the
\* player id under which the server registered it, whichever of several ACKCs
\* it read (NetworkManagerServer.cpp:69-81, NetworkManagerClient.cpp:94-101).
PlayersAreDistinct ==
    /\ \A c, d \in DOMAIN Proxies :
           Proxies[c].mPlayerId = Proxies[d].mPlayerId => c = d
    /\ \A c \in Clients : client[c].mState = "NCS_Connected" =>
           c \in DOMAIN Proxies /\ client[c].mPlayerId = Proxies[c].mPlayerId

\* Batches neither lose, repeat nor reorder a create: what was written for a
\* client and what is still pending are together the world, in order
\* (ReplicationManagerServer.cpp:32-46).
CreatesAreWrittenOnce ==
    \A c \in DOMAIN Proxies :
        written[c] \o NetworkIds(Proxies[c].mPendingCommands)
            = server.mWorldObjects

\* A client makes one object for a network id, whatever the order in which
\* the packets arrive (NetworkManagerClient.cpp:106-125).
NoObjectIsMadeTwice ==
    \A c \in Clients : \A i, j \in 1 .. Len(client[c].objects) :
        client[c].objects[i] = client[c].objects[j] => i = j

\* GenerateNewPlayerId has handed out what the proxies have, and every ACKC says
\* what its proxy says.
IdsAreAgreed ==
    /\ PlayersAreDistinct
    /\ \A c \in DOMAIN Proxies : Proxies[c].mPlayerId < server.mNextPlayerId
    /\ \A d \in network : d.type = "ACKC" =>
           d.client \in DOMAIN Proxies /\ d.mPlayerId = Proxies[d.client].mPlayerId

\* The world is complete before the first client joins; its ids are 1, 2, ...
WorldIsCutInOrder ==
    /\ CreatesAreWrittenOnce
    /\ server.phase \in {"start", "setup"} => DOMAIN Proxies = {}
    /\ \A c \in Clients \ DOMAIN Proxies : written[c] = << >>
    /\ \A i \in 1 .. Len(server.mWorldObjects) : server.mWorldObjects[i] = i

\* The inductive invariant (NetworkManagerServer.cpp:63-95, ReplicationManager-
\* Server.cpp:32-46, LinkingContext.cpp:14).
SessionInvariant == TypeOK /\ IdsAreAgreed /\ WorldIsCutInOrder

InTransit(c) == {d \in network : d.type = "STAT" /\ d.client = c}
Ids(d) == {d.commands[i].networkId : i \in 1 .. Len(d.commands)}
Made(c) == {client[c].objects[i] : i \in 1 .. Len(client[c].objects)}

CreatesTravelOnceTo(c) ==
    /\ Made(c) \subseteq 1 .. Len(written[c])
    /\ \A d \in InTransit(c) :
           /\ Ids(d) \subseteq (1 .. Len(written[c])) \ Made(c)
           /\ \A i, j \in 1 .. Len(d.commands) :
                  d.commands[i].networkId = d.commands[j].networkId => i = j
           /\ \A e \in InTransit(c) : d # e => Ids(d) \cap Ids(e) = {}

\* While the network repeats nothing, a create that was written for a client is
\* in at most one datagram, and not in one once it has been carried out
\* (NetworkManagerClient.cpp:106-125, ReplicationManagerServer.cpp:32-46).
CreatesTravelOnce ==
    NoObjectIsMadeTwice /\ \A c \in Clients : CreatesTravelOnceTo(c)

\* A create that was written for a client is in a datagram that still travels, or
\* that the network has lost and keeps for ever, or the client has made its object:
\* also when a later packet overtakes it, which makes it old, and when the network
\* repeats packets.  A send that throws loses its creates, and ends the server
\* (ReplicationManagerServer.cpp:32-46, NetworkManagerClient.cpp:106-125).
OnlyTheNetworkLosesCreates ==
    server.phase # "ended" =>
        \A c \in Clients : \A i \in 1 .. Len(written[c]) :
            written[c][i] \in Made(c) \cup UNION {Ids(d) : d \in InTransit(c)}

HasTheWorld(c) ==
    \A i \in 1 .. Len(server.mWorldObjects) :
        \E j \in 1 .. Len(client[c].objects) :
            client[c].objects[j] = server.mWorldObjects[i]

\* A registered client is connected in the end and has every world object
\* ("create all existing world objects for the new client for first time
\* synchronization", NetworkManagerServer.cpp:71).
EveryClientGetsTheWorld ==
    \A c \in Clients :
        c \in DOMAIN Proxies ~>
            client[c].mState = "NCS_Connected" /\ HasTheWorld(c)
============================================================================
