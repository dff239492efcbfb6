------------------------------ MODULE LairSystem ------------------------------
(***************************************************************************)
(* The server beside its clients.  LairServer is the server's side, action *)
(* for action; here the peers are client processes, each with cl.socket    *)
(* and the roster of src/code/client/cl_main.cpp, and what the server      *)
(* sends travels to them message by message.                               *)
(*                                                                         *)
(* A client may disconnect, come back, be killed and be started again; its *)
(* roster outlives its connections but not its process.  Messages that     *)
(* wait together may be returned by one recv(), and then only the first is *)
(* handled.  The screens, torn messages and /connect over a connection     *)
(* that is up are LairClient's: here a user disconnects first.  What the   *)
(* clients send arrives message by message, and a recv() of the server     *)
(* returns all that has arrived; the other chunks are LairServer's.        *)
(***************************************************************************)
EXTENDS LairServer

CONSTANTS
    Clients,   \* the client processes
    SendBuf,   \* bound: messages the kernel keeps for a client
    MaxActs    \* bound: what users do in all, but leave

\* Of what CL_Send* write, only CL_SendDisconnect's one byte begins so.
ASSUME SystemAssumption ==
    /\ SendBuf \in Nat \ {0}
    /\ MaxActs \in Nat
    /\ <<"DISCONNECT">> \in Requests
    /\ \A r \in Requests :
          r # << >> /\ r[1] = "DISCONNECT" => r = <<"DISCONNECT">>

VARIABLES
    sock,   \* the connection cl.socket names, while cl.connected
    wire,   \* kernel: the messages sent on a connection and not read
    list,   \* the active entries of cl.users
    doubt,  \* history: slots the client has had no sure word of since it
            \* connected: listed from before, or their last message was lost
    acts    \* history: what users have done: connected, sent a request

clientVars == <<sock, wire, list, doubt, acts>>
sysVars == <<vars, clientVars>>

Entries == [slot : Slots, name : Seq(Bytes)]
Notes   == [type : MsgTypes, slot : Slots, name : Seq(Bytes)]

SysTypeOK ==
    /\ sock \in [Clients -> Conns \cup {NoConn}]
    /\ wire \in [Conns -> Seq(Notes)]
    /\ list \in [Clients -> SUBSET Entries]
    /\ doubt \in [Clients -> SUBSET Slots]
    /\ acts \in 0 .. MaxActs

Listed(p) == {e.slot : e \in list[p]}
Owned(c)  == \E p \in Clients : sock[p] = c

SysInit ==
    /\ Init
    /\ sock = [p \in Clients |-> NoConn]
    /\ wire = [c \in Conns |-> << >>]
    /\ list = [p \in Clients |-> {}]
    /\ doubt = [p \in Clients |-> {}]
    /\ acts = 0

-----------------------------------------------------------------------------
(* The server's steps: what it sends is on the wire. *)

Recipient ==
    CASE pc = "welcome" -> ConnOf(cur)
      [] pc = "send"    -> ConnOf(CHOOSE i \in sendTo : Lowest(i, sendTo))
      [] OTHER          -> NoConn

\* What goes out: type, slot and name; the text of a chat message is left out.
Note == [type |-> msg.type, slot |-> msg.slot, name |-> msg.name]

ServerRuns ==
    /\ ServerStep
    /\ wire' = [c \in Conns |->
                  IF ~Owned(c) /\ peer'[c] = "off" THEN << >>
                  ELSE IF c = Recipient /\ peer[c] = "up" /\ pc' # "killed"
                  THEN Append(wire[c], Note)
                  ELSE wire[c]]
    /\ \A c \in Conns : c \in full' <=> Len(wire'[c]) = SendBuf
    /\ \A c \in Conns : inbox'[c] \in {inbox[c], << >>}
    /\ UNCHANGED <<sock, list, doubt, acts>>

-----------------------------------------------------------------------------
(* A client. *)

Acts == acts < MaxActs /\ acts' = acts + 1

\* CL_Connect.  The roster is not cleared: it holds what was said on an earlier
\* connection.
CL_Connect(p, c) ==
    /\ sock[p] = NoConn
    /\ ~Owned(c)
    /\ PeerConnect(c)
    /\ sock' = [sock EXCEPT ![p] = c]
    /\ doubt' = [doubt EXCEPT ![p] = Listed(p)]
    /\ Acts
    /\ UNCHANGED <<wire, list>>

\* CL_SendConnect, CL_SendChat
CL_Send(p, r) ==
    /\ sock[p] # NoConn
    /\ PeerSend(sock[p], r)
    /\ Acts
    /\ UNCHANGED <<sock, wire, list, doubt>>

\* CL_SendDisconnect; Net_Close is HangUp.
CL_Disconnect(p) ==
    /\ sock[p] # NoConn
    /\ PeerSend(sock[p], <<"DISCONNECT">>)
    /\ sock' = [sock EXCEPT ![p] = NoConn]
    /\ UNCHANGED <<wire, list, doubt, acts>>

\* The process is killed, and started again without a roster.
Restart(p) ==
    /\ ~Stopped
    /\ sock[p] # NoConn
    /\ sock' = [sock EXCEPT ![p] = NoConn]
    /\ list' = [list EXCEPT ![p] = {}]
    /\ doubt' = [doubt EXCEPT ![p] = {}]
    /\ UNCHANGED <<vars, wire, acts>>

\* A closed socket: a close with messages unread is a reset.
HangUp(c) ==
    /\ ~Owned(c)
    /\ IF wire[c] = << >> THEN PeerClose(c) ELSE peer[c] = "up" /\ PeerReset(c)
    /\ wire' = [wire EXCEPT ![c] = << >>]
    /\ UNCHANGED <<sock, list, doubt, acts>>

\* What was sent to a closed socket is answered with a reset.
AnswerLate(c) ==
    /\ peer[c] = "late"
    /\ PeerReset(c)
    /\ UNCHANGED clientVars

\* Mutant: ids count from one.
EntriesAfterShifted(L, m) ==
    LET others == {e \in L : e.slot # m.slot + 1} IN
    CASE m.type = "USERJOIN" ->
            others \cup {[slot |-> m.slot + 1, name |-> m.name]}
      [] m.type = "USERLEAVE" -> others
      [] OTHER -> L

\* Mutant: the leave is printed, but the entry stays active.
EntriesAfterNoLeave(L, m) ==
    IF m.type = "USERJOIN"
    THEN {e \in L : e.slot # m.slot} \cup {[slot |-> m.slot, name |-> m.name]}
    ELSE L

\* The roster after a message: USERJOIN writes the entry, USERLEAVE clears it.
EntriesAfter(L, m) ==
    LET others == {e \in L : e.slot # m.slot} IN
    CASE m.type = "USERJOIN"  -> others \cup {[slot |-> m.slot, name |-> m.name]}
      [] m.type = "USERLEAVE" -> others
      [] OTHER -> L

\* The slots messages n to k of those that wait are about, CHAT aside.
SlotsOf(msgs, n, k) ==
    {msgs[j].slot : j \in {h \in n .. k : msgs[h].type \in {"USERJOIN", "USERLEAVE"}}}

\* Mutant: recv() waits until the buffer is full (MSG_WAITALL).
CL_ReadServerMessagesWaiting(p) ==
    LET c == sock[p] IN
    /\ c # NoConn
    /\ c \in full
    /\ PeerRecv(c)
    /\ list' = [list EXCEPT ![p] = EntriesAfter(@, Head(wire[c]))]
    /\ doubt' = [doubt EXCEPT ![p] = (@ \ SlotsOf(wire[c], 1, 1))
                                        \cup SlotsOf(wire[c], 2, Len(wire[c]))]
    /\ wire' = [wire EXCEPT ![c] = << >>]
    /\ UNCHANGED <<sock, acts>>

\* CL_ReadServerMessages: one recv(), which makes room for the server's next
\* message.  The first message it returned is handled, the others are lost.
CL_ReadServerMessages(p) ==
    LET c == sock[p] IN
    /\ c # NoConn
    /\ wire[c] # << >>
    /\ IF c \in full THEN PeerRecv(c) ELSE ~Stopped /\ UNCHANGED vars
    /\ \E k \in 1 .. Len(wire[c]) :
        /\ list' = [list EXCEPT ![p] = EntriesAfter(@, Head(wire[c]))]
        /\ doubt' = [doubt EXCEPT ![p] = (@ \ SlotsOf(wire[c], 1, 1))
                                            \cup SlotsOf(wire[c], 2, k)]
        /\ wire' = [wire EXCEPT ![c] = SubSeq(@, k + 1, Len(@))]
    /\ UNCHANGED <<sock, acts>>

\* recv() returned 0 or -1: the server turned the client away, or dropped it.
ServerClosed(p) ==
    LET c == sock[p] IN
    /\ ~Stopped
    /\ c # NoConn
    /\ peer[c] = "off"
    /\ wire[c] = << >>
    /\ sock' = [sock EXCEPT ![p] = NoConn]
    /\ UNCHANGED <<vars, wire, list, doubt, acts>>

-----------------------------------------------------------------------------
ClientReads(p) == CL_ReadServerMessages(p) \/ ServerClosed(p)

ClientStep ==
    \E p \in Clients :
        \/ \E c \in Conns : CL_Connect(p, c)
        \/ \E r \in Requests \ {<<"DISCONNECT">>} : CL_Send(p, r)
        \/ CL_Disconnect(p) \/ Restart(p) \/ ClientReads(p)

KernelStep == \E c \in Conns : HangUp(c) \/ AnswerLate(c)

SysTerminated == Stopped /\ UNCHANGED sysVars

SysNext == ServerRuns \/ ClientStep \/ KernelStep \/ SysTerminated

SysSpec == SysInit /\ [][SysNext]_sysVars

\* The server's thread runs, sockets that are closed get closed, and clients
\* that are connected go on running CL_Frame.
SysFairness ==
    /\ WF_sysVars(ServerRuns)
    /\ \A p \in Clients : WF_sysVars(ClientReads(p))
    /\ \A c \in Conns : WF_sysVars(HangUp(c))

SysFairSpec == SysSpec /\ SysFairness

-----------------------------------------------------------------------------
(* What the users see. *)

\* The server is between two broadcasts and the client has read everything.
UpToDate(p) ==
    /\ pc \in {"select", "accept", "read", "drop"}
    /\ sock[p] # NoConn
    /\ wire[sock[p]] = << >>

\* A roster that is up to date is right about every slot the client had word
\* of on this connection: it lists whom the server announced and who has not
\* left, once, under the name last given.  What it may be wrong about is what
\* an earlier connection left in it, and messages a recv() returned together.
RosterExact ==
    \A p \in Clients : UpToDate(p) =>
        /\ Listed(p) \ doubt[p] = heard[sock[p]] \ doubt[p]
        /\ \A e \in list[p] : e.slot \notin doubt[p] => e.name = clients[e.slot].name

\* Whoever is in the room when a user is announced comes to list that user, or
\* loses the message in a recv() with others, or leaves, or the server stops.
JoinIsListed ==
    \A p \in Clients, i \in Slots :
        (/\ pc = "send" /\ msg.type = "USERJOIN" /\ msg.slot = i
         /\ sock[p] # NoConn /\ \E j \in sendTo : ConnOf(j) = sock[p])
        ~> (i \in Listed(p) \cup doubt[p] \/ sock[p] = NoConn \/ Stopped)

\* README.md:120 "List connected users": when nothing is under way, a user
\* who has joined, and lost no message, lists whoever has joined and not left.
UsersListed ==
    (pc = "select" /\ Ready = {}) =>
        \A p \in Clients :
            (UpToDate(p) /\ doubt[p] = {} /\ named[sock[p]] # << >>) =>
                Listed(p) = {i \in Active : clients[i].name # << >>}
=============================================================================
