------------------------------ MODULE LairServer ------------------------------
(***************************************************************************)
(* The chat server of src/code/server: one process, one thread, one        *)
(* select() loop over the listening socket and a table of client slots.    *)
(*                                                                         *)
(* Every step of the program that touches the network is an action of its  *)
(* own, because between two system calls the peers and the kernel move:    *)
(* a peer connects, sends, stops reading, closes, or is reset.  What the   *)
(* program does between two system calls is part of the action.            *)
(*                                                                         *)
(* The kernel side (descriptors, accept queue, byte streams, resets) is    *)
(* external: it is modelled from the way src/code/posix/net_posix.cpp and  *)
(* the server call it.                                                     *)
(***************************************************************************)
EXTENDS Integers, Sequences, FiniteSets

CONSTANTS
    Conns,       \* TCP connections peers can make; reused once closed
    NoConn,      \* an unused descriptor
    MaxClients,  \* MAX_CLIENTS
    MaxFds,      \* descriptors the process may open besides the listener
    Backlog,     \* the kernel's accept queue: listen( sock, 10 )
    Letters,     \* the printable bytes of names and texts
    Requests,    \* the messages peers write, each as its bytes
    InCap,       \* bound: bytes a peer may have in flight to the server
    Resets       \* whether connections may be reset (RST)

Bytes == {"CONNECT", "CHAT", "DISCONNECT", "NUL"} \cup Letters

ASSUME ServerAssumption ==
    /\ NoConn \notin Conns
    /\ MaxClients \in Nat \ {0}
    /\ MaxFds \in Nat
    /\ Backlog \in Nat \ {0}
    /\ InCap \in Nat
    /\ Requests \subseteq Seq(Bytes)
    /\ Resets \in BOOLEAN

Slots   == 0 .. MaxClients - 1
LISTEN  == 0                    \* sv.socket
INVALID == -1                   \* INVALID_SOCKET_HANDLE
Fds     == 1 .. MaxFds

VARIABLES
    running,     \* main.cpp: cleared by the SIGINT handler
    pc,          \* where the single thread stands
    clients,     \* sv.clients
    numclients,  \* sv.numclients
    readfds,     \* the descriptors select() reported in this frame
    cur,         \* the slot SV_Frame's read loop has reached
    msg,         \* the message being sent
    sendTo,      \* the slots SV_BroadcastMessage has still to serve
    fds,         \* kernel: descriptor -> connection
    backlog,     \* kernel: connections accept() has not returned yet
    peer,        \* kernel: what this host knows of the other end
    inbox,       \* kernel: bytes received and not read
    full,        \* kernel: connections whose send buffer has no room
    named,       \* history: the name a connection last gave
    heard        \* history: the slots a connection was last told are joined

server  == <<running, pc, clients, numclients, readfds, cur, msg, sendTo>>
network == <<fds, backlog, peer, inbox, full>>
history == <<named, heard>>
vars    == <<server, network, history>>

MsgTypes == {"ACCEPTED", "USERJOIN", "USERLEAVE", "CHAT"}
Msgs  == [type : MsgTypes, slot : Slots, name : Seq(Bytes), text : Seq(Bytes)]
NoMsg == [type |-> "INVALID"]

FreeSlot == [active |-> FALSE, socket |-> INVALID, name |-> << >>]
Client(socket, name) == [active |-> TRUE, socket |-> socket, name |-> name]

\* The parts of the program's state, and the states of a connection: it is
\* "up", its peer has closed ("fin") and been sent data since ("late"), a reset
\* has arrived and the next call on it reports the error ("reset"), or that
\* error was reported, or is EPIPE ("broken").
TypeOK ==
    /\ running \in BOOLEAN
    /\ pc \in {"select", "accept", "read", "welcome", "send", "drop",
               "exit", "killed"}
    /\ clients \in [Slots -> [active : BOOLEAN, socket : Fds \cup {INVALID},
                              name : Seq(Bytes)]]
    /\ numclients \in 0 .. MaxClients
    /\ readfds \subseteq Fds \cup {LISTEN}
    /\ cur \in 0 .. MaxClients
    /\ msg \in Msgs \cup {NoMsg}
    /\ sendTo \subseteq Slots
    /\ fds \in [Fds -> Conns \cup {NoConn}]
    /\ backlog \in Seq(Conns)
    /\ peer \in [Conns -> {"off", "up", "fin", "late", "reset", "broken"}]
    /\ inbox \in [Conns -> Seq(Bytes)]
    /\ full \subseteq Conns
    /\ named \in [Conns -> Seq(Bytes)]
    /\ heard \in [Conns -> SUBSET Slots]

Active    == {i \in Slots : clients[i].active}
ConnOf(i) == fds[clients[i].socket]
Seated    == {ConnOf(i) : i \in Active}
Stopped   == pc \in {"exit", "killed"}

-----------------------------------------------------------------------------
(* Peers and kernel. *)

\* The handshake completes in the kernel while the accept queue has room.
PeerConnect(c) ==
    /\ ~Stopped
    /\ peer[c] = "off"
    /\ Len(backlog) < Backlog
    /\ peer' = [peer EXCEPT ![c] = "up"]
    /\ backlog' = Append(backlog, c)
    /\ UNCHANGED <<server, fds, inbox, full, history>>

\* The bytes of a request join the stream: nothing marks where it began.
PeerSend(c, r) ==
    /\ ~Stopped
    /\ peer[c] = "up"
    /\ Len(inbox[c]) + Len(r) <= InCap
    /\ inbox' = [inbox EXCEPT ![c] = @ \o r]
    /\ UNCHANGED <<server, fds, backlog, peer, full, history>>

\* The peer reads what was sent to it: its send buffer has room again.
PeerRecv(c) ==
    /\ ~Stopped
    /\ c \in full
    /\ full' = full \ {c}
    /\ UNCHANGED <<server, fds, backlog, peer, inbox, history>>

\* An orderly close: the peer has read everything it was sent.
PeerClose(c) ==
    /\ ~Stopped
    /\ peer[c] = "up"
    /\ c \notin full
    /\ peer' = [peer EXCEPT ![c] = "fin"]
    /\ UNCHANGED <<server, fds, backlog, inbox, full, history>>

\* A reset: the peer closed with data unread, died, or answered data that
\* sent to it after its close.  Bytes that arrived before it stay readable.
\* After a FIN the pending error is EPIPE, otherwise ECONNRESET.
PeerReset(c) ==
    /\ ~Stopped
    /\ Resets
    /\ peer[c] \in {"up", "late"}
    /\ peer' = [peer EXCEPT ![c] = IF @ = "up" THEN "reset" ELSE "broken"]
    /\ full' = full \ {c}
    /\ UNCHANGED <<server, fds, backlog, inbox, history>>

\* main.cpp: SigHandler.  SA_RESTART: accept, recv and send are resumed.
SigHandler ==
    /\ ~Stopped
    /\ running
    /\ running' = FALSE
    /\ UNCHANGED <<pc, clients, numclients, readfds, cur, msg, sendTo,
                   network, history>>

-----------------------------------------------------------------------------
(* Start: SV_Init has bound and listens; a failure there never gets here. *)

Init ==
    /\ running = TRUE
    /\ pc = "select"
    /\ clients = [i \in Slots |-> FreeSlot]
    /\ numclients = 0
    /\ readfds = {}
    /\ cur = 0
    /\ msg = NoMsg
    /\ sendTo = {}
    /\ fds = [f \in Fds |-> NoConn]
    /\ backlog = << >>
    /\ peer = [c \in Conns |-> "off"]
    /\ inbox = [c \in Conns |-> << >>]
    /\ full = {}
    /\ named = [c \in Conns |-> << >>]
    /\ heard = [c \in Conns |-> {}]

-----------------------------------------------------------------------------
(* SV_Frame: select. *)

\* recv() returns at once: there are bytes, an end of file, or an error.
Readable(c) == inbox[c] # << >> \/ peer[c] # "up"

\* Mutant: the listening socket is left out of the set.
ReadyWithoutListener == {clients[i].socket : i \in {j \in Active : Readable(ConnOf(j))}}

Ready == {clients[i].socket : i \in {j \in Active : Readable(ConnOf(j))}}
            \cup (IF backlog # << >> THEN {LISTEN} ELSE {})

\* Mutant: a `running' that is not volatile is read only once.
NextFrameAlways == "select"

\* main's `while ( running )', evaluated whenever SV_Frame returns.
NextFrame == IF running THEN "select" ELSE "exit"

Select ==
    /\ pc = "select"
    /\ Ready # {}
    /\ readfds' = Ready
    /\ cur' = 0
    /\ pc' = IF LISTEN \in Ready THEN "accept" ELSE "read"
    /\ UNCHANGED <<running, clients, numclients, msg, sendTo, network, history>>

\* The 10 ms timeout, or EINTR: SV_Frame returns.
SelectNothing ==
    /\ pc = "select"
    /\ Ready = {}
    /\ pc' = NextFrame
    /\ UNCHANGED <<running, clients, numclients, readfds, cur, msg, sendTo,
                   network, history>>

-----------------------------------------------------------------------------
(* SV_Frame: accept. *)

Lowest(i, S) == i \in S /\ \A j \in S : i <= j

FreeFds == {f \in Fds : fds[f] = NoConn}

\* SV_FindFreeClientSlot
FreeSlots == Slots \ Active

\* The kernel forgets connection c: what its peer does next is not seen here.
Forget(c) ==
    /\ peer'  = [peer  EXCEPT ![c] = "off"]
    /\ inbox' = [inbox EXCEPT ![c] = << >>]
    /\ full'  = full \ {c}
    /\ named' = [named EXCEPT ![c] = << >>]
    /\ heard' = [heard EXCEPT ![c] = {}]

\* Net_Accept fails (no descriptor): the connection stays in the queue.
AcceptFails ==
    /\ pc = "accept"
    /\ FreeFds = {}
    /\ pc' = "read"
    /\ UNCHANGED <<running, clients, numclients, readfds, cur, msg, sendTo,
                   network, history>>

\* "Server full, rejecting client": accepted and closed, without a message.
Reject ==
    /\ pc = "accept"
    /\ FreeFds # {}
    /\ FreeSlots = {}
    /\ backlog' = Tail(backlog)
    /\ Forget(Head(backlog))
    /\ pc' = "read"
    /\ UNCHANGED <<running, clients, numclients, readfds, cur, msg, sendTo, fds>>

\* The new client takes the lowest free descriptor and the lowest free slot.
\* The slot's name is not written: it is the one the last drop left there.
Seat(i, f) ==
    /\ pc = "accept"
    /\ Lowest(f, FreeFds)
    /\ Lowest(i, FreeSlots)
    /\ backlog' = Tail(backlog)
    /\ fds' = [fds EXCEPT ![f] = Head(backlog)]
    /\ clients' = [clients EXCEPT ![i] = Client(f, @.name)]
    /\ numclients' = numclients + 1
    /\ pc' = "read"
    /\ UNCHANGED <<running, readfds, cur, msg, sendTo, peer, inbox, full, history>>

-----------------------------------------------------------------------------
(* SV_Frame: the read loop. *)

\* Mutant: the FD_ISSET test is missing.
UnreadOrNot == {i \in Active : i >= cur}

\* The slots the loop has still to read: FD_ISSET( sv.clients[i].socket ).
Unread == {i \in Active : i >= cur /\ clients[i].socket \in readfds}

EndFrame ==
    /\ pc = "read"
    /\ Unread = {}
    /\ pc' = NextFrame
    /\ readfds' = {}
    /\ cur' = 0
    /\ UNCHANGED <<running, clients, numclients, msg, sendTo, network, history>>

Message(type, i, name, text) ==
    [type |-> type, slot |-> i, name |-> name, text |-> text]

\* Mutant: the client a message is about is left out.
StartBroadcastToOthers(m) ==
    pc' = "send" /\ msg' = m /\ sendTo' = Active \ {m.slot}

\* SV_BroadcastMessage: every active slot is served, lowest first.
StartBroadcast(m) == pc' = "send" /\ msg' = m /\ sendTo' = Active

\* MSG_ReadString: n bytes up to the first NUL or the end of the chunk.
StringEnds(s, n) ==
    /\ \A k \in 1 .. n : s[k] # "NUL"
    /\ n < Len(s) => s[n + 1] = "NUL"

\* SV_HandleConnect: the name is stored, whether or not one was stored before.
\* The welcome goes out first, then the announcement to everyone.
HandleConnect(i, body) ==
    \E n \in 0 .. Len(body) :
        LET name == SubSeq(body, 1, n) IN
        /\ StringEnds(body, n)
        /\ clients' = [clients EXCEPT ![i] = Client(@.socket, name)]
        /\ named' = [named EXCEPT ![ConnOf(i)] = name]
        /\ pc' = "welcome"
        /\ msg' = Message("ACCEPTED", i, name, << >>)
        /\ UNCHANGED sendTo

\* SV_HandleChat, SV_BroadcastChat: no name is asked for.
HandleChat(i, body) ==
    \E n \in 0 .. Len(body) :
        /\ StringEnds(body, n)
        /\ StartBroadcast(Message("CHAT", i, clients[i].name, SubSeq(body, 1, n)))
        /\ UNCHANGED <<clients, named>>

\* Mutant: the name is cleared before the leave is broadcast.
DropClientQuietly(i) ==
    pc' = "drop" /\ UNCHANGED <<msg, sendTo, clients, named>>

\* SV_DropClient up to its Net_Close: the leave is broadcast, to the departing
\* client too; a client without a name leaves unannounced.
DropClient(i) ==
    /\ IF clients[i].name = << >>
       THEN pc' = "drop" /\ UNCHANGED <<msg, sendTo>>
       ELSE StartBroadcast(Message("USERLEAVE", i, clients[i].name, << >>))
    /\ UNCHANGED <<clients, named>>

\* An unknown type is logged and dropped with the rest of the chunk.
IgnoreMessage(i) ==
    /\ pc' = "read"
    /\ UNCHANGED <<clients, named, msg, sendTo>>

\* SV_ReadClientMessage: one recv(), which returns some prefix of the stream.
\* Its first byte selects a handler; what follows the first message is lost.
ReadChunk(i) ==
    LET c == ConnOf(i) IN
    \E k \in 1 .. Len(inbox[c]) :
        LET type == inbox[c][1]
            body == SubSeq(inbox[c], 2, k)
        IN
        /\ inbox' = [inbox EXCEPT ![c] = SubSeq(@, k + 1, Len(@))]
        /\ \/ type = "CONNECT"    /\ HandleConnect(i, body)
           \/ type = "CHAT"       /\ HandleChat(i, body)
           \/ type = "DISCONNECT" /\ DropClient(i)
           \/ /\ type \notin {"CONNECT", "CHAT", "DISCONNECT"}
              /\ IgnoreMessage(i)
        /\ cur' = IF pc' = "read" THEN i + 1 ELSE i

\* Mutant: `length < 0' for `length <= 0'.
ReadError(i) ==
    LET c == ConnOf(i) IN
    /\ inbox[c] = << >>
    /\ peer[c] # "up"
    /\ peer' = [peer EXCEPT ![c] = IF @ = "reset" THEN "broken" ELSE @]
    /\ IF peer[c] \in {"fin", "late"} THEN IgnoreMessage(i) ELSE DropClient(i)
    /\ cur' = IF peer[c] \in {"fin", "late"} THEN i + 1 ELSE i

\* recv() returned 0 or -1.
ReadEnd(i) ==
    LET c == ConnOf(i) IN
    /\ inbox[c] = << >>
    /\ peer[c] # "up"
    /\ peer' = [peer EXCEPT ![c] = IF @ = "reset" THEN "broken" ELSE @]
    /\ DropClient(i)
    /\ cur' = i

ReadClientMessage(i) ==
    /\ pc = "read"
    /\ Lowest(i, Unread)
    /\ \/ ReadChunk(i) /\ UNCHANGED peer
       \/ ReadEnd(i) /\ UNCHANGED inbox
    /\ UNCHANGED <<running, numclients, readfds, fds, backlog, full, heard>>

-----------------------------------------------------------------------------
(* Net_Send: one message to one client. *)

\* What a roster is after m: m adds a slot, removes one, or says nothing of it.
After(roster, m) ==
    CASE m.type = "USERJOIN"  -> roster \cup {m.slot}
      [] m.type = "USERLEAVE" -> roster \ {m.slot}
      [] OTHER -> roster

\* The bytes are taken by the kernel, which may now be out of room; a peer
\* that has closed will never read them.
SendTaken(c) ==
    /\ peer[c] \in {"up", "fin", "late"}
    /\ c \notin full
    /\ full' \in (IF peer[c] = "up" THEN {full, full \cup {c}} ELSE {full})
    /\ peer' = [peer EXCEPT ![c] = IF @ = "fin" THEN "late" ELSE @]
    /\ heard' = [heard EXCEPT ![c] = After(@, msg)]

\* send() returns -1: logged, and the caller ignores it.
SendError(c) ==
    /\ peer[c] = "reset"
    /\ peer' = [peer EXCEPT ![c] = "broken"]
    /\ UNCHANGED <<full, heard>>

\* EPIPE without MSG_NOSIGNAL: SIGPIPE, which the program does not handle.
SendKills(c) ==
    /\ peer[c] = "broken"
    /\ pc' = "killed"
    /\ UNCHANGED <<running, clients, numclients, readfds, cur, msg, sendTo,
                   network, history>>

\* SV_SendWelcome, then SV_BroadcastUserJoin with the name just stored.
SendWelcome ==
    /\ pc = "welcome"
    /\ LET c == ConnOf(cur) IN
        \/ /\ SendTaken(c) \/ SendError(c)
           /\ StartBroadcast(Message("USERJOIN", cur, clients[cur].name, << >>))
           /\ UNCHANGED <<running, clients, numclients, readfds, cur, fds,
                          backlog, inbox, named>>
        \/ SendKills(c)

\* After the last recipient SV_ReadClientMessage returns to the read loop, or
\* SV_DropClient goes on to close the socket.
AfterSend(i) ==
    /\ sendTo' = sendTo \ {i}
    /\ IF sendTo # {i}
       THEN UNCHANGED <<pc, msg, cur>>
       ELSE IF msg.type = "USERLEAVE"
            THEN pc' = "drop" /\ UNCHANGED <<msg, cur>>
            ELSE pc' = "read" /\ msg' = NoMsg /\ cur' = cur + 1

BroadcastMessage(i) ==
    /\ pc = "send"
    /\ Lowest(i, sendTo)
    /\ \/ /\ SendTaken(ConnOf(i)) \/ SendError(ConnOf(i))
          /\ AfterSend(i)
          /\ UNCHANGED <<running, clients, numclients, readfds, fds, backlog,
                         inbox, named>>
       \/ SendKills(ConnOf(i))

-----------------------------------------------------------------------------
\* Mutant: numclients is not decremented.
CloseClientUncounted ==
    /\ pc = "drop"
    /\ fds' = [fds EXCEPT ![clients[cur].socket] = NoConn]
    /\ Forget(ConnOf(cur))
    /\ clients' = [clients EXCEPT ![cur] = FreeSlot]
    /\ UNCHANGED numclients
    /\ msg' = NoMsg
    /\ cur' = cur + 1
    /\ pc' = "read"
    /\ UNCHANGED <<running, readfds, sendTo, backlog>>

\* Mutant: the socket is not closed.
CloseClientLeaks ==
    /\ pc = "drop"
    /\ Forget(ConnOf(cur))
    /\ clients' = [clients EXCEPT ![cur] = FreeSlot]
    /\ numclients' = numclients - 1
    /\ msg' = NoMsg
    /\ cur' = cur + 1
    /\ pc' = "read"
    /\ UNCHANGED <<running, readfds, sendTo, backlog, fds>>

\* Mutant: the name stays in the slot.
CloseClientKeepsName ==
    /\ pc = "drop"
    /\ fds' = [fds EXCEPT ![clients[cur].socket] = NoConn]
    /\ Forget(ConnOf(cur))
    /\ clients' = [clients EXCEPT ![cur] = [FreeSlot EXCEPT !.name = clients[cur].name]]
    /\ numclients' = numclients - 1
    /\ msg' = NoMsg
    /\ cur' = cur + 1
    /\ pc' = "read"
    /\ UNCHANGED <<running, readfds, sendTo, backlog>>

\* SV_DropClient from its Net_Close on.
CloseClient ==
    /\ pc = "drop"
    /\ fds' = [fds EXCEPT ![clients[cur].socket] = NoConn]
    /\ Forget(ConnOf(cur))
    /\ clients' = [clients EXCEPT ![cur] = FreeSlot]
    /\ numclients' = numclients - 1
    /\ msg' = NoMsg
    /\ cur' = cur + 1
    /\ pc' = "read"
    /\ UNCHANGED <<running, readfds, sendTo, backlog>>

-----------------------------------------------------------------------------
(* The program and its environment. *)

ServerStep ==
    \/ Select \/ SelectNothing
    \/ AcceptFails \/ Reject \/ \E i \in Slots, f \in Fds : Seat(i, f)
    \/ EndFrame \/ \E i \in Slots : ReadClientMessage(i)
    \/ SendWelcome \/ \E i \in Slots : BroadcastMessage(i)
    \/ CloseClient

PeerStep ==
    \E c \in Conns :
        \/ PeerConnect(c) \/ PeerRecv(c) \/ PeerClose(c) \/ PeerReset(c)
        \/ \E r \in Requests : PeerSend(c, r)

\* SV_Shutdown has closed the listener, or the process was killed.
Terminated == Stopped /\ UNCHANGED vars

Next == ServerStep \/ PeerStep \/ SigHandler \/ Terminated

Spec == Init /\ [][Next]_vars

\* The process is scheduled: its thread takes the next step it can take.
ServerFairness == WF_vars(ServerStep)

\* A peer that is alive goes on reading what it is sent.
PeersRead == \A c \in Conns : WF_vars(PeerRecv(c))

FairSpec == Spec /\ ServerFairness /\ PeersRead

-----------------------------------------------------------------------------
(* What the server promises. *)

\* Every slot the read loop is still going to read has something to read, so
\* the blocking recv() of Net_Recv returns: nothing that happened since
\* select() - an accept that reuses a descriptor, a drop earlier in the loop -
\* made a reported descriptor stale.
NoBlockingRecv ==
    pc \in {"accept", "read"} => \A i \in Unread : Readable(ConnOf(i))

\* The open descriptors are exactly the sockets of the active slots, one each,
\* and numclients counts them: over any sequence of accepts, rejections and
\* drops SV_Frame and SV_DropClient neither leak a descriptor, nor close one
\* that another client has been given.
SocketsExact ==
    /\ \A i, j \in Active : clients[i].socket = clients[j].socket => i = j
    /\ {f \in Fds : fds[f] # NoConn} = {clients[i].socket : i \in Active}
    /\ numclients = Cardinality(Active)

\* Whatever is announced or said in the name of a slot carries the name that
\* the connection now in the slot gave, never that of an earlier occupant.
OwnName ==
    pc = "send" => msg.name = named[ConnOf(msg.slot)]

\* When SV_DropClient closes a client that gave a name, every other live
\* client has been told that the slot is empty.
LeaveIsHeard ==
    (pc = "drop" /\ named[ConnOf(cur)] # << >>)
        => \A c \in Seated : peer[c] = "up" => cur \notin heard[c]

\* Between two broadcasts the live clients disagree about who is in the room
\* only by who came later: of two rosters one contains the other.
RostersNested ==
    pc \notin {"send", "killed"} =>
        \A c, d \in {x \in Seated : peer[x] = "up"} :
            heard[c] \subseteq heard[d] \/ heard[d] \subseteq heard[c]

\* The server implements ChatRoom: seats for slots, and one announcement at a
\* time that everyone present hears before anything else happens in the room.
Room == INSTANCE ChatRoom WITH
    Seats    <- Slots,
    Nobody   <- NoConn,
    Strings  <- Seq(Bytes),
    Empty    <- << >>,
    NoPost   <- NoMsg,
    seat     <- [i \in Slots |-> IF clients[i].active THEN ConnOf(i) ELSE NoConn],
    name     <- [i \in Slots |-> clients[i].name],
    post     <- IF msg.type = "ACCEPTED" THEN [msg EXCEPT !.type = "USERJOIN"]
                                         ELSE msg,
    audience <- IF msg.type = "ACCEPTED" THEN Active ELSE sendTo

Refines == Room!Spec

\* A connection in the accept queue is accepted or turned away, or the server
\* has stopped.
PendingIsServed ==
    \A c \in Conns : (\E k \in DOMAIN backlog : backlog[k] = c) ~>
        ((\A k \in DOMAIN backlog : backlog[k] # c) \/ Stopped)

\* The slot of a client that has gone is freed, or the server has stopped.
GoneIsDropped ==
    \A c \in Conns : (c \in Seated /\ peer[c] # "up") ~>
        (c \notin Seated \/ Stopped)

\* Ctrl-C stops the server.
InterruptStops == ~running ~> Stopped

\* README.md:61 "using TCP for reliable text delivery": a chat message leaves
\* the stream only to be said in the room.
Chats(s) == Cardinality({k \in DOMAIN s : s[k] = "CHAT"})
NoChatIsLost ==
    [][\A c \in Conns : peer'[c] # "off" =>
          Chats(inbox[c]) - Chats(inbox'[c]) <=
              (IF msg' # msg /\ msg'.type = "CHAT" THEN 1 ELSE 0)]_vars

\* README.md:36 "supporting multiple concurrent clients": a client whose
\* connection fails is dropped (sv_main.cpp:170); the server goes on.
NeverKilled == pc # "killed"

\* README.md:232 "Non-blocking sockets with select-based multiplexing": a
\* broadcast ends, whatever one of its recipients does.
SendReturns == (pc = "send") ~> (pc # "send")

\* The process is scheduled, but nothing is asked of the peers.
ServerFairSpec == Spec /\ ServerFairness

=============================================================================
