----------------------------- MODULE SelectEcho -----------------------------
(***************************************************************************)
(* The TCP echo server of examples/echo_server.cpp: one thread that waits  *)
(* in SocketSelectUtil::Select for its listening socket and its clients,   *)
(* and serves what is ready, one socket after the other, with calls that   *)
(* block.                                                                  *)
(*                                                                         *)
(* TCP is modelled by what the server sees of it, on Linux: a connection   *)
(* carries bytes in order, of which each direction holds only so many, and *)
(* ends when the client closes.  A send after that is answered with a      *)
(* reset, and so is a close with bytes unread.  A send on a connection     *)
(* that was reset returns what it had sent before, or else the error the   *)
(* reset left: ECONNRESET once, and EPIPE from then on, or at once if the  *)
(* reset came after the end of the stream.  With EPIPE comes SIGPIPE,      *)
(* which ends a process that neither ignores nor handles it, like this.    *)
(*                                                                         *)
(* Each client makes one connection, so a client stands for its            *)
(* connection, and for the server's TCPSocket of it.  Byte n of client c   *)
(* is <<c, n>>.                                                            *)
(***************************************************************************)
EXTENDS Integers, SequencesExt

CONSTANTS
    Clients,
    listenSocket,    \* the server's listening socket
    BufferSize,      \* bytes the server receives at once: 1024
    ToServer,        \* bytes a connection holds on their way to the server
    ToClient,        \* and on their way back
    MaxDescriptors,  \* descriptors the process may have open, from 0
    MaxBacklog,      \* connections that may wait to be accepted: 32
    SelectMayFail,   \* may select return an error, say for want of memory?
    LeavesEarly,     \* the clients that may close before they have it all back
    NeverReads,      \* the clients that send and do not read
    MaxSent          \* bound: MaxSent[c] bytes are sent by client c

ASSUME EchoAssumption ==
    /\ listenSocket \notin Clients
    /\ BufferSize \in Nat \ {0}
    /\ ToServer \in Nat \ {0} /\ ToClient \in Nat \ {0}
    /\ MaxDescriptors \in Nat \ {0} /\ MaxBacklog \in Nat \ {0}
    /\ SelectMayFail \in BOOLEAN
    /\ MaxSent \in [Clients -> Nat]
    /\ LeavesEarly \subseteq Clients /\ NeverReads \subseteq Clients

VARIABLES
    server,      \* the thread: where it is, and its vectors of sockets
    descriptor,  \* the descriptor of every TCPSocket that is not destroyed
    backlog,     \* connections that wait to be accepted
    conn         \* conn[c]: the connection of client c

vars == <<server, descriptor, backlog, conn>>

ByteSeq == Seq(Clients \X Nat)

Connection == [state    : {"new", "open", "closed"},
               sent     : Nat,
               received : ByteSeq,
               toServer : ByteSeq,
               toClient : ByteSeq,
               error    : {"none", "ECONNRESET", "EPIPE"}]

Sockets == Clients \cup {listenSocket}

\* started: the send under way has sent a part of its data.
Init ==
    /\ server = [phase     |-> "select",
                 readSet   |-> <<listenSocket>>,
                 readReady |-> << >>,
                 reply     |-> << >>,
                 started   |-> FALSE]
    /\ descriptor = [s \in {listenSocket} |-> 0]
    /\ backlog = << >>
    /\ conn = [c \in Clients |-> [state    |-> "new",
                                  sent     |-> 0,
                                  received |-> << >>,
                                  toServer |-> << >>,
                                  toClient |-> << >>,
                                  error    |-> "none"]]

----------------------------------------------------------------------------
\* The clients.

\* With the backlog full, connect waits.
Connect(c) ==
    /\ conn[c].state = "new"
    /\ Len(backlog) < MaxBacklog
    /\ conn' = [conn EXCEPT ![c].state = "open"]
    /\ backlog' = Append(backlog, c)
    /\ UNCHANGED <<server, descriptor>>

ClientSends(c) ==
    /\ conn[c].state = "open"
    /\ conn[c].sent < MaxSent[c]
    /\ Len(conn[c].toServer) < ToServer
    /\ conn' = [conn EXCEPT ![c].sent = @ + 1,
                            ![c].toServer = Append(@, <<c, conn[c].sent + 1>>)]
    /\ UNCHANGED <<server, descriptor, backlog>>

ClientReads(c) ==
    /\ c \notin NeverReads
    /\ conn[c].state = "open"
    /\ conn[c].toClient # << >>
    /\ conn' = [conn EXCEPT ![c].received = Append(@, Head(conn[c].toClient)),
                            ![c].toClient = Tail(@)]
    /\ UNCHANGED <<server, descriptor, backlog>>

\* Closing with bytes unread resets the connection, which may lose what is on
\* its way to the server.
ClientCloses(c) ==
    /\ conn[c].state = "open"
    /\ c \in LeavesEarly \/ Len(conn[c].received) = conn[c].sent
    /\ LET reset == conn[c].toClient # << >>
       IN  \E lost \in {FALSE, reset} :
               conn' = [conn EXCEPT
                   ![c].state = "closed",
                   ![c].error = IF reset THEN "ECONNRESET" ELSE "none",
                   ![c].toClient = << >>,
                   ![c].toServer = IF lost THEN << >> ELSE @]
    /\ UNCHANGED <<server, descriptor, backlog>>

----------------------------------------------------------------------------
\* SocketSelectUtil.

\* What the next accept or recv of a socket finds without waiting: a
\* connection; bytes, the end of the stream, or an error.
Readable(s) ==
    IF s = listenSocket
    THEN backlog # << >>
    ELSE conn[s].toServer # << >> \/ conn[s].state = "closed"

FillFdSetFromSocketVector(sockets) == {descriptor[s] : s \in Range(sockets)}

getMaxSocket(sockets) == Max(FillFdSetFromSocketVector(sockets))

\* select(nfds, ...) leaves those of the set that are below nfds and ready.
ReadyDescriptors(sockets) ==
    {fd \in FillFdSetFromSocketVector(sockets) :
        /\ fd < getMaxSocket(sockets) + 1
        /\ \E s \in DOMAIN descriptor : descriptor[s] = fd /\ Readable(s)}

\* Those of the sockets that are in the set, in their order.
Kept(sockets, set) ==
    LET kept[n \in 0 .. Len(sockets)] ==    \* of the first n
            IF n = 0 THEN << >>
            ELSE IF sockets[n] \in set THEN Append(kept[n - 1], sockets[n])
            ELSE kept[n - 1]
    IN  kept[Len(sockets)]

\* Mutant: the set is not looked at.
FilterSocketVectorFromFdSet_All(sockets, fdSet) == sockets

FilterSocketVectorFromFdSet(sockets, fdSet) ==
    Kept(sockets, {s \in DOMAIN descriptor : descriptor[s] \in fdSet})

\* Mutants: the sockets that were removed are never destroyed; the vectors
\* hold descriptors only, and accepted sockets go at the end of a turn.
Destroyed_Never(held) == descriptor
Destroyed_Accepted(held) == Restrict(descriptor, {listenSocket})

\* The last shared pointers to a socket go with the readReady of a turn.
Destroyed(held) == Restrict(descriptor, Range(held))

----------------------------------------------------------------------------
\* The server.

\* The readReady of the last turn is destroyed, and select waits.  The sets
\* for writing and for exceptions are empty.
Select ==
    LET ready == ReadyDescriptors(server.readSet)
    IN  /\ server.phase = "select"
        /\ ready # {}
        /\ server' = [server EXCEPT
               !.phase = "serve",
               !.readReady = FilterSocketVectorFromFdSet(server.readSet, ready)]
        /\ descriptor' = Destroyed(server.readSet)
        /\ UNCHANGED <<backlog, conn>>

\* An error of select ends the loop, and with it the process.
SelectFails ==
    /\ SelectMayFail
    /\ server.phase = "select"
    /\ server' = [server EXCEPT !.phase = "ended"]
    /\ UNCHANGED <<descriptor, backlog, conn>>

\* s is the server after it has served the first socket in readReady.
NextReady(s) ==
    [s EXCEPT !.readReady = Tail(@),
              !.phase = IF Len(s.readReady) = 1 THEN "select" ELSE "serve"]

Serving(s) == server.phase = "serve" /\ Head(server.readReady) = s

\* TCPSocket::Accept takes the lowest of them, and returns no socket when there
\* is none; the connection waits on.
FreeDescriptors == (0 .. MaxDescriptors - 1) \ Range(descriptor)

Accept ==
    LET client == Head(backlog)
    IN  /\ Serving(listenSocket)
        /\ backlog # << >>
        /\ \/ /\ FreeDescriptors # {}
              /\ backlog' = Tail(backlog)
              /\ descriptor' = [s \in DOMAIN descriptor \cup {client} |->
                                   IF s = client THEN Min(FreeDescriptors)
                                                 ELSE descriptor[s]]
              /\ server' = NextReady([server EXCEPT !.readSet = Append(@, client)])
           \/ /\ FreeDescriptors = {}
              /\ server' = NextReady(server)
              /\ UNCHANGED <<backlog, descriptor>>
        /\ UNCHANGED conn

\* What one recv takes: all that is there and the buffer holds.
Received(bytes) == SubSeq(bytes, 1, Min({BufferSize, Len(bytes)}))

Receive(c) ==
    LET bytes == Received(conn[c].toServer)
    IN  /\ Serving(c)
        /\ bytes # << >>
        /\ server' = [server EXCEPT !.phase = "send", !.reply = bytes,
                                    !.started = FALSE]
        /\ conn' = [conn EXCEPT
               ![c].toServer = SubSeq(@, Len(bytes) + 1, Len(@))]
        /\ UNCHANGED <<descriptor, backlog>>

\* recv returns 0 at the end of the stream, or an error.
RemoveSocket(c) ==
    /\ Serving(c)
    /\ conn[c].toServer = << >>
    /\ conn[c].state = "closed"
    /\ server' = NextReady([server EXCEPT !.readSet = Kept(@, Sockets \ {c})])
    /\ UNCHANGED <<descriptor, backlog, conn>>

Sending(c) == server.phase = "send" /\ Head(server.readReady) = c

\* The send is over; nobody looks at its result.
SendReturns == server' = NextReady([server EXCEPT !.reply = << >>])

\* Mutants: what does not fit is dropped, as if the socket did not block; after
\* a part of it everything is sent again.
Unsent_Dropped(reply) == << >>
Unsent_FromStart(reply) == reply

Unsent(reply) == Tail(reply)

\* The connection takes a byte; without room the call waits.
SendByte(c) ==
    /\ Sending(c)
    /\ conn[c].state = "open"
    /\ Len(conn[c].toClient) < ToClient
    /\ conn' = [conn EXCEPT ![c].toClient = Append(@, Head(server.reply))]
    /\ IF Unsent(server.reply) = << >>
       THEN SendReturns
       ELSE server' = [server EXCEPT !.reply = Unsent(@), !.started = TRUE]
    /\ UNCHANGED <<descriptor, backlog>>

\* The bytes go out, and are answered with a reset, which takes its time.
SendToClosed(c) ==
    /\ Sending(c)
    /\ conn[c].state = "closed" /\ conn[c].error = "none"
    /\ \E e \in {"none", "EPIPE"} : conn' = [conn EXCEPT ![c].error = e]
    /\ SendReturns
    /\ UNCHANGED <<descriptor, backlog>>

SendToReset(c) ==
    /\ Sending(c)
    /\ conn[c].error # "none"
    /\ \/ server.started /\ SendReturns /\ UNCHANGED conn
       \/ /\ ~server.started /\ conn[c].error = "ECONNRESET"
          /\ SendReturns
          /\ conn' = [conn EXCEPT ![c].error = "EPIPE"]
       \/ /\ ~server.started /\ conn[c].error = "EPIPE"
          /\ server' = [server EXCEPT !.phase = "ended"]
          /\ UNCHANGED conn
    /\ UNCHANGED <<descriptor, backlog>>

ServerStep ==
    \/ Select \/ Accept
    \/ \E c \in Clients :
           \/ Receive(c) \/ RemoveSocket(c)
           \/ SendByte(c) \/ SendToClosed(c) \/ SendToReset(c)

Next ==
    \/ ServerStep \/ SelectFails
    \/ \E c \in Clients :
           Connect(c) \/ ClientSends(c) \/ ClientReads(c) \/ ClientCloses(c)

Spec == Init /\ [][Next]_vars

\* The thread runs, and no select has to fail; a client that reads goes on
\* reading, and closes in the end.
FairSpec ==
    /\ Spec
    /\ WF_vars(ServerStep)
    /\ \A c \in Clients : WF_vars(ClientReads(c)) /\ WF_vars(ClientCloses(c))

----------------------------------------------------------------------------
TypeOK ==
    /\ server.phase \in {"select", "serve", "send", "ended"}
    /\ server.readSet \in Seq(DOMAIN descriptor)
    /\ server.readReady \in Seq(DOMAIN descriptor)
    /\ server.reply \in ByteSeq
    /\ server.started \in BOOLEAN
    /\ DOMAIN descriptor \subseteq Sockets
    /\ descriptor \in [DOMAIN descriptor -> 0 .. MaxDescriptors - 1]
    /\ backlog \in Seq(Clients)
    /\ conn \in [Clients -> Connection]
    /\ \A c \in Clients :
           /\ conn[c].sent <= MaxSent[c]
           /\ Len(conn[c].toServer) <= ToServer
           /\ Len(conn[c].toClient) <= ToClient

SentBy(c) == [n \in 1 .. conn[c].sent |-> <<c, n>>]

ReplyTo(c) == IF Sending(c) THEN server.reply ELSE << >>

\* No byte is lost, repeated, overtaken or sent to another client, however the
\* stream is cut into receives and sends: what a client has back, what is on
\* its way back, in the server's hands and on its way there is what it sent
\* (echo_server.cpp:66-83).
EchoesAreFaithful ==
    \A c \in Clients :
        IF conn[c].state = "closed"
        THEN IsPrefix(conn[c].received, SentBy(c))
        ELSE conn[c].received \o conn[c].toClient \o ReplyTo(c) \o conn[c].toServer
                 = SentBy(c)

ToServe == IF server.phase = "send" THEN Tail(server.readReady) ELSE server.readReady

\* What select reported is still true when its turn comes, although the thread
\* may have waited in a send meanwhile and the client may have left: neither
\* accept nor recv ever waits (echo_server.cpp:54-67).
NoReadyCallWaits == \A s \in Range(ToServe) : Readable(s)

\* A send under way has bytes left, and only the connection of a client that
\* has closed has an error, so that no reply to a client that may still read is
\* given up.
StreamInvariant ==
    /\ DOMAIN server = {"phase", "readSet", "readReady", "reply", "started"}
    /\ server.reply \in ByteSeq
    /\ conn \in [Clients -> Connection]
    /\ server.phase = "send" => server.reply # << >>
    /\ \A c \in Clients : conn[c].error # "none" => conn[c].state = "closed"
    /\ EchoesAreFaithful

\* No socket is twice in a vector, no descriptor has two sockets and no
\* connection is accepted twice, so that select reports no socket for another,
\* and what is served makes no other socket of the turn wait.
SocketInvariant ==
    /\ TypeOK
    /\ server.phase \in {"serve", "send"} => server.readReady # << >>
    /\ IsInjective(server.readSet) /\ IsInjective(server.readReady)
    /\ IsInjective(descriptor) /\ IsInjective(backlog)
    /\ Range(backlog) \cap DOMAIN descriptor = {}
    /\ \A c \in Clients :
           conn[c].state = "new" => c \notin Range(backlog) \cup DOMAIN descriptor
    /\ NoReadyCallWaits

\* Why the echoes are faithful and no ready call waits, and inductive
\* (echo_server.cpp:53-84).
EchoInvariant == StreamInvariant /\ SocketInvariant

\* A socket that was removed is destroyed before the next one that needs its
\* descriptor is accepted, so that every client is served and gets back all it
\* sent, if nobody stops reading and as long as the server runs: neither a
\* failed select nor SIGPIPE has ended it
\* (echo_server.cpp:7-8 and 70-76).
EveryMessageIsEchoed ==
    \A c \in Clients \ (NeverReads \cup LeavesEarly) : \A n \in 1 .. MaxSent[c] :
        conn[c].sent >= n
            ~> (Len(conn[c].received) >= n \/ server.phase = "ended")

\* The server outlives its clients: one that disconnects is removed from the
\* set, and the others are served on (echo_server.cpp:70-76).
ServerOutlivesClients == server.phase # "ended"
=============================================================================
