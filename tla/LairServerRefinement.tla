-------------------------- MODULE LairServerRefinement --------------------------
(***************************************************************************)
(* LairServer implements ChatRoom, for any number of connections, slots,   *)
(* descriptors and requests: every step of the server is one step of the   *)
(* room, or none.                                                          *)
(***************************************************************************)
EXTENDS LairServerProofs

-----------------------------------------------------------------------------
(* What is being announced, and where the thread stands. *)

\* Nothing is announced but inside SV_ReadClientMessage; what is announced
\* until the socket is closed is the leave of a client that gave a name.
Announcing ==
    /\ pc \in {"select", "accept", "read", "exit"} => msg = NoMsg
    /\ pc = "welcome" => msg.text = << >>
    /\ pc = "send" => msg.type # "ACCEPTED"
    /\ pc = "send" /\ msg.type = "USERLEAVE" => clients[cur].name # << >>
    /\ pc = "drop" => IF clients[cur].name = << >> THEN msg = NoMsg
                      ELSE msg \in Msgs /\ msg.type = "USERLEAVE" /\ msg.slot = cur

Known == Types /\ PcOK /\ Matched /\ Owners /\ Announcing

LEMMA InitAnnouncing == Init => Announcing
  BY DEF Init, Announcing

LEMMA AnnouncingStep ==
  ASSUME Types, PcOK, Matched, Announcing, Next
  PROVE  Announcing'
  <1> USE DEF server, network, history
  <1>1. CASE Select
    BY <1>1, Zenon DEF Select, Announcing
  <1>2. CASE SelectNothing
    BY <1>2 DEF SelectNothing, NextFrame, Announcing
  <1>3. CASE AcceptFails
    BY <1>3 DEF AcceptFails, Announcing
  <1>4. CASE Reject
    BY <1>4 DEF Reject, Announcing
  <1>5. ASSUME NEW i \in Slots, NEW f \in Fds, Seat(i, f) PROVE Announcing'
    BY <1>5 DEF Seat, Announcing
  <1>6. CASE EndFrame
    BY <1>6 DEF EndFrame, NextFrame, Announcing
  <1>7. ASSUME NEW i \in Slots, ReadClientMessage(i) PROVE Announcing'
    <2>1. /\ pc = "read"
          /\ Connected(i) \/ Announced(i) \/ LeftUnnamed(i) \/ Ignored(i)
      BY <1>7, ReadFacts
    <2>2. msg = NoMsg
      BY <2>1 DEF Announcing
    <2>3. CASE Connected(i)
      BY <2>3 DEF Connected, Message, Announcing
    <2>4. CASE Announced(i)
      BY <2>4 DEF Announced, Message, Announcing
    <2>5. CASE LeftUnnamed(i)
      BY <2>2, <2>5 DEF LeftUnnamed, Announcing
    <2>6. CASE Ignored(i)
      BY <2>2, <2>6 DEF Ignored, Announcing
    <2> QED BY <2>1, <2>3, <2>4, <2>5, <2>6
  <1>8. CASE SendWelcome
    BY <1>8, WelcomeFacts DEF Killed, Message, Announcing
  <1>9. ASSUME NEW i \in Slots, BroadcastMessage(i) PROVE Announcing'
    <2>1. pc = "send" /\ ((Sent(ConnOf(i)) /\ AfterSend(i)) \/ Killed)
      BY <1>9, BroadcastFacts
    <2>2. msg \in Msgs /\ msg.slot = cur
      BY <2>1 DEF PcOK
    <2>3. CASE Killed
      BY <2>3 DEF Killed, Announcing
    <2>4. CASE Sent(ConnOf(i)) /\ AfterSend(i)
      BY <2>1, <2>2, <2>4 DEF Sent, AfterSend, Announcing
    <2> QED BY <2>1, <2>3, <2>4
  <1>10. CASE CloseClient
    BY <1>10 DEF CloseClient, Announcing
  <1>11. ASSUME NEW c \in Conns,
                \/ PeerConnect(c) \/ PeerRecv(c) \/ PeerClose(c) \/ PeerReset(c)
                \/ \E r \in Requests : PeerSend(c, r)
         PROVE  Announcing'
    BY <1>11 DEF PeerConnect, PeerRecv, PeerClose, PeerReset, PeerSend, Announcing
  <1>12. CASE SigHandler \/ Terminated
    BY <1>12 DEF SigHandler, Terminated, vars, Announcing
  <1> QED
    BY <1>1, <1>2, <1>3, <1>4, <1>5, <1>6, <1>7, <1>8, <1>9, <1>10, <1>11, <1>12
    DEF Next, ServerStep, PeerStep

-----------------------------------------------------------------------------
(* The room the server's state stands for. *)

SeatOf == [i \in Slots |-> IF clients[i].active THEN ConnOf(i) ELSE NoConn]
NameOf == [i \in Slots |-> clients[i].name]
PostOf == IF msg.type = "ACCEPTED" THEN [msg EXCEPT !.type = "USERJOIN"] ELSE msg
HearOf == IF msg.type = "ACCEPTED" THEN Active ELSE sendTo

SameRoom == UNCHANGED <<SeatOf, NameOf, PostOf, HearOf>>

LEMMA TakenSeats ==
  ASSUME Matched
  PROVE  Room!Taken = Active
  <1>1. \A i \in Slots : SeatOf[i] # NoConn <=> i \in Active
    BY ServerAssumption DEF SeatOf, Matched, Active
  <1> QED BY <1>1 DEF Room!Taken, SeatOf, Active

\* Steps that touch neither slots nor descriptors nor what is announced.
LEMMA QuietStep ==
  ASSUME UNCHANGED <<clients, fds, msg, sendTo>>
  PROVE  SameRoom
  BY DEF SameRoom, SeatOf, NameOf, PostOf, HearOf, ConnOf, Active

LEMMA RoomStutter == SameRoom => UNCHANGED Room!room
  BY DEF SameRoom, SeatOf, NameOf, PostOf, HearOf, Room!room

-----------------------------------------------------------------------------
(* The steps that are steps of the room. *)

\* An accept is an Enter.
LEMMA SeatEnters ==
  ASSUME Known, NEW i \in Slots, NEW f \in Fds, Seat(i, f)
  PROVE  Room!RoomNext
  <1>0. backlog # << >>
    BY DEF Seat, Known, PcOK
  <1>2. 1 \in 1 .. Len(backlog) /\ Head(backlog) = backlog[1]
    BY <1>0, HeadOfBacklog DEF Known
  <1>3. Head(backlog) \in Conns /\ \A j \in Active : ConnOf(j) # Head(backlog)
    <2>1. \A k \in 1 .. Len(backlog) : backlog[k] \in Conns
      BY ElementOfSeq DEF Known, Types
    <2> QED BY <1>2, <2>1 DEF Known, Owners
  <1>12. PICK c \in Conns : c = Head(backlog)
    BY <1>3
  <1>1. /\ i \in Slots /\ i \notin Active /\ fds[f] = NoConn
        /\ fds' = [fds EXCEPT ![f] = c]
        /\ clients' = [clients EXCEPT ![i] = Client(f, clients[i].name)]
        /\ msg = NoMsg /\ sendTo = {}
        /\ UNCHANGED <<msg, sendTo>>
    BY <1>12 DEF Seat, Lowest, FreeSlots, FreeFds, Known, PcOK, Announcing
  <1>4. \A j \in Active : clients[j].socket \in Fds /\ clients[j].socket # f
    BY <1>1, ServerAssumption DEF Known, Matched, ConnOf
  <1>5. /\ clients'[i].active /\ clients'[i].socket = f
        /\ clients'[i].name = clients[i].name
        /\ \A j \in Slots : j # i => clients'[j] = clients[j]
    BY <1>1 DEF Known, Types, Client
  <1>6. fds'[f] = c /\ \A g \in Fds : g # f => fds'[g] = fds[g]
    BY <1>1 DEF Known, Types
  <1>7. SeatOf' = [SeatOf EXCEPT ![i] = c]
    <2>1. SeatOf'[i] = c
      BY <1>1, <1>5, <1>6 DEF SeatOf, ConnOf
    <2>2. ASSUME NEW j \in Slots, j # i PROVE SeatOf'[j] = SeatOf[j]
      BY <1>4, <1>5, <1>6, <2>2 DEF SeatOf, ConnOf, Active
    <2> QED BY <2>1, <2>2 DEF SeatOf
  <1>8. NameOf' = NameOf
    BY <1>5 DEF NameOf
  <1>9. PostOf = NoMsg /\ PostOf' = PostOf /\ HearOf' = HearOf
    BY <1>1 DEF PostOf, HearOf, NoMsg
  <1>10. \A j \in Active : SeatOf[j] # c
    BY <1>3, <1>12 DEF SeatOf, Active
  <1>11. Room!Enter(i, c)
    BY <1>1, <1>7, <1>8, <1>9, <1>10, TakenSeats
    DEF Room!Enter, Room!Quiet, SeatOf, NameOf, PostOf, HearOf, Known
  <1> QED BY <1>11, <1>12 DEF Room!RoomNext

\* What a handler does before its first send is an Identify, Say or Depart.
LEMMA ReadSpeaks ==
  ASSUME Known, NEW i \in Slots, ReadClientMessage(i)
  PROVE  Room!RoomNext \/ SameRoom
  <1>1. /\ pc = "read" /\ i \in Active /\ fds' = fds
        /\ Connected(i) \/ Announced(i) \/ LeftUnnamed(i) \/ Ignored(i)
    BY ReadFacts DEF Known
  <1>2. msg = NoMsg /\ sendTo = {}
    BY <1>1 DEF Known, Announcing, PcOK
  <1>3. PostOf = NoMsg /\ HearOf = {}
    BY <1>2 DEF PostOf, HearOf, NoMsg
  <1>4. CASE Connected(i)
    <2>1. PICK name \in Seq(Bytes) :
             /\ clients' = [clients EXCEPT ![i] = Client(clients[i].socket, name)]
             /\ msg' = Message("ACCEPTED", i, name, << >>)
      BY <1>4 DEF Connected
    <2>2. /\ clients'[i].active /\ clients[i].active
          /\ clients'[i].socket = clients[i].socket /\ clients'[i].name = name
          /\ \A j \in Slots : j # i => clients'[j] = clients[j]
      BY <1>1, <2>1 DEF Known, Types, Client, Active
    <2>3. SeatOf' = SeatOf /\ Active' = Active
      BY <1>1, <2>2 DEF SeatOf, ConnOf, Active
    <2>4. NameOf' = [NameOf EXCEPT ![i] = name] /\ NameOf'[i] = name
      BY <2>2 DEF NameOf
    <2>5. /\ PostOf' = [type |-> "USERJOIN", slot |-> i, name |-> name, text |-> << >>]
          /\ HearOf' = Active
      BY <2>1, <2>3 DEF PostOf, HearOf, Message
    <2>6. Room!Identify(i)
      BY <1>1, <1>3, <2>3, <2>4, <2>5, TakenSeats
      DEF Room!Identify, Room!Post, Room!Quiet, SeatOf, NameOf, PostOf, HearOf, Known
    <2> QED BY <2>6 DEF Room!RoomNext
  <1>5. CASE Announced(i)
    <2>1. PICK type \in {"CHAT", "USERLEAVE"}, text \in Seq(Bytes) :
             /\ msg' = Message(type, i, clients[i].name, text)
             /\ type = "USERLEAVE" => clients[i].name # << >> /\ text = << >>
             /\ sendTo' = Active /\ clients' = clients
      BY <1>5 DEF Announced
    <2>2. SeatOf' = SeatOf /\ NameOf' = NameOf
      BY <1>1, <2>1 DEF SeatOf, NameOf, ConnOf
    <2>3. /\ PostOf' = [type |-> type, slot |-> i, name |-> NameOf[i], text |-> text]
          /\ HearOf' = Active
      BY <2>1 DEF PostOf, HearOf, Message, NameOf
    <2>4. CASE type = "CHAT"
      <3>1. PostOf' # NoMsg /\ PostOf'.text \in Seq(Bytes) /\ PostOf'.text = text
        BY <2>3, <2>4 DEF NoMsg
      <3>2. Room!Say(i)
        BY <1>1, <1>3, <2>2, <2>3, <2>4, <3>1, TakenSeats
        DEF Room!Say, Room!Post, Room!Quiet, SeatOf, NameOf, PostOf, HearOf, Known
      <3> QED BY <3>2 DEF Room!RoomNext
    <2>5. CASE type = "USERLEAVE"
      <3>1. NameOf[i] # << >> /\ text = << >>
        BY <2>1, <2>5 DEF NameOf
      <3>2. Room!Depart(i)
        BY <1>1, <1>3, <2>2, <2>3, <2>5, <3>1, TakenSeats
        DEF Room!Depart, Room!Post, Room!Quiet, SeatOf, NameOf, PostOf, HearOf, Known
      <3> QED BY <3>2 DEF Room!RoomNext
    <2> QED BY <2>4, <2>5
  <1>6. CASE LeftUnnamed(i) \/ Ignored(i)
    BY <1>1, <1>6, QuietStep DEF LeftUnnamed, Ignored
  <1> QED BY <1>1, <1>4, <1>5, <1>6

\* The welcome is not heard in the room.
LEMMA WelcomeIsPrivate ==
  ASSUME Known, SendWelcome
  PROVE  SameRoom
  <1>1. pc = "welcome" /\ cur \in Active
    BY WelcomeFacts DEF Known
  <1>2. msg \in Msgs /\ msg.type = "ACCEPTED" /\ msg.slot = cur /\ msg.name = clients[cur].name
    BY <1>1 DEF Known, PcOK
  <1>3. CASE Killed
    BY <1>3, QuietStep DEF Killed, network
  <1>4. CASE ~Killed
    <2>1. /\ UNCHANGED <<clients, fds>>
          /\ msg' = Message("USERJOIN", cur, clients[cur].name, << >>)
          /\ sendTo' = Active
      BY <1>4, WelcomeFacts DEF Sent, Known
    <2>2. SeatOf' = SeatOf /\ NameOf' = NameOf
      BY <2>1 DEF SeatOf, NameOf, ConnOf
    <2>3. HearOf' = HearOf
      BY <1>2, <2>1 DEF HearOf, Message
    <2>4. msg.text = << >>
      BY <1>1 DEF Known, Announcing
    <2>5. PostOf' = PostOf
      BY <1>2, <2>1, <2>4 DEF PostOf, Message, Msgs
    <2> QED BY <2>2, <2>3, <2>5 DEF SameRoom
  <1> QED BY <1>3, <1>4

\* A send of a broadcast is a Hear.
LEMMA BroadcastIsHeard ==
  ASSUME Known, NEW i \in Slots, BroadcastMessage(i)
  PROVE  Room!RoomNext \/ SameRoom
  <1>1. /\ pc = "send" /\ i \in sendTo
        /\ (Sent(ConnOf(i)) /\ AfterSend(i)) \/ Killed
    BY BroadcastFacts DEF Known
  <1>2. msg \in Msgs /\ msg.type # "ACCEPTED"
    BY <1>1 DEF Known, PcOK, Announcing
  <1>3. CASE Killed
    BY <1>3, QuietStep DEF Killed, network
  <1>4. CASE Sent(ConnOf(i)) /\ AfterSend(i)
    <2>1. SeatOf' = SeatOf /\ NameOf' = NameOf
      BY <1>4 DEF Sent, SeatOf, NameOf, ConnOf
    <2>2. /\ sendTo' = sendTo \ {i}
          /\ msg' = IF sendTo \ {i} = {} /\ msg.type # "USERLEAVE" THEN NoMsg ELSE msg
      BY <1>1, <1>4 DEF AfterSend
    <2>3. PostOf = msg /\ HearOf = sendTo /\ PostOf' = msg' /\ HearOf' = sendTo'
      BY <1>2, <2>2 DEF PostOf, HearOf, NoMsg
    <2>4. Room!Hear(i)
      BY <1>1, <2>1, <2>2, <2>3
      DEF Room!Hear, SeatOf, NameOf, PostOf, HearOf
    <2> QED BY <2>4 DEF Room!RoomNext
  <1> QED BY <1>1, <1>3, <1>4

\* Closing the socket of a client that left is a Vacate.
LEMMA CloseVacates ==
  ASSUME Known, CloseClient
  PROVE  Room!RoomNext
  <1>0. cur \in Active /\ cur \in Slots
    BY DEF CloseClient, Known, PcOK, Busy, Active
  <1>9. PICK s \in Slots : s = cur
    BY <1>0
  <1>1. /\ pc = "drop" /\ s \in Active /\ sendTo = {}
        /\ fds' = [fds EXCEPT ![clients[s].socket] = NoConn]
        /\ clients' = [clients EXCEPT ![s] = FreeSlot]
        /\ msg' = NoMsg /\ sendTo' = {}
    BY <1>0, <1>9 DEF CloseClient, Known, PcOK, Busy
  <1>2. /\ clients'[s] = FreeSlot
        /\ \A j \in Slots : j # s => clients'[j] = clients[j]
    BY <1>1 DEF Known, Types
  <1>3. \A j \in Active : j # s => fds'[clients[j].socket] = fds[clients[j].socket]
    BY <1>1 DEF Known, Types, Matched
  <1>4. SeatOf' = [SeatOf EXCEPT ![s] = NoConn]
    <2>1. SeatOf'[s] = NoConn
      BY <1>1, <1>2 DEF SeatOf, FreeSlot
    <2>2. ASSUME NEW j \in Slots, j # s PROVE SeatOf'[j] = SeatOf[j]
      BY <1>2, <1>3, <2>2 DEF SeatOf, ConnOf, Active
    <2> QED BY <2>1, <2>2 DEF SeatOf
  <1>5. NameOf' = [NameOf EXCEPT ![s] = << >>]
    <2>1. NameOf'[s] = << >>
      BY <1>2 DEF NameOf, FreeSlot
    <2>2. ASSUME NEW j \in Slots, j # s PROVE NameOf'[j] = NameOf[j]
      BY <1>2, <2>2 DEF NameOf
    <2> QED BY <2>1, <2>2 DEF NameOf
  <1>6. /\ PostOf' = NoMsg /\ HearOf' = {}
        /\ PostOf = msg /\ HearOf = {}
        /\ IF NameOf[s] = << >> THEN msg = NoMsg
           ELSE msg # NoMsg /\ msg.type = "USERLEAVE" /\ msg.slot = s
    BY <1>1, <1>9 DEF Known, Announcing, Msgs, NoMsg, PostOf, HearOf, NameOf
  <1>7. Room!Vacate(s)
    BY <1>1, <1>4, <1>5, <1>6, TakenSeats
    DEF Room!Vacate, Room!Quiet, SeatOf, NameOf, PostOf, HearOf, Known
  <1> QED BY <1>7, <1>9 DEF Room!RoomNext

-----------------------------------------------------------------------------
LEMMA RoomStep ==
  ASSUME Known, [Next]_vars
  PROVE  [Room!RoomNext]_(Room!room)
  <1>1. CASE Select \/ SelectNothing \/ AcceptFails \/ Reject \/ EndFrame
             \/ SigHandler \/ Terminated \/ UNCHANGED vars
    <2>1. UNCHANGED <<clients, fds, msg, sendTo>>
      BY <1>1 DEF Select, SelectNothing, AcceptFails, Reject, EndFrame, SigHandler,
                  Terminated, vars, server, network
    <2> QED BY <2>1, QuietStep, RoomStutter
  <1>2. ASSUME NEW c \in Conns,
               \/ PeerConnect(c) \/ PeerRecv(c) \/ PeerClose(c) \/ PeerReset(c)
               \/ \E r \in Requests : PeerSend(c, r)
        PROVE  [Room!RoomNext]_(Room!room)
    <2>1. UNCHANGED <<clients, fds, msg, sendTo>>
      BY <1>2 DEF PeerConnect, PeerRecv, PeerClose, PeerReset, PeerSend, server
    <2> QED BY <2>1, QuietStep, RoomStutter
  <1>3. CASE ServerStep
    BY <1>1, <1>3, SeatEnters, ReadSpeaks, WelcomeIsPrivate, BroadcastIsHeard,
       CloseVacates, RoomStutter
    DEF ServerStep
  <1> QED BY <1>1, <1>2, <1>3 DEF Next, PeerStep

LEMMA RoomStarts == Init => Room!RoomInit
  BY DEF Init, FreeSlot, NoMsg, Room!RoomInit

\* The server implements ChatRoom.
THEOREM ServerRefinesRoom == Spec => Refines
  <1>1. Init => Known
    BY InitInv, InitAnnouncing DEF IInv, Known
  <1>2. IInv /\ Announcing /\ [Next]_vars => Announcing'
    <2>1. IInv /\ Announcing /\ Next => Announcing'
      BY AnnouncingStep DEF IInv
    <2>2. Announcing /\ UNCHANGED vars => Announcing'
      BY DEF Announcing, vars, server
    <2> QED BY <2>1, <2>2
  <1>3. Spec => []Announcing
    BY <1>2, InitAnnouncing, Invariance, PTL DEF Spec
  <1>4. IInv /\ Announcing /\ [Next]_vars => [Room!RoomNext]_(Room!room)
    BY RoomStep DEF IInv, Known
  <1> QED BY <1>3, <1>4, RoomStarts, Invariance, PTL DEF Spec, Refines, Room!Spec
=============================================================================
