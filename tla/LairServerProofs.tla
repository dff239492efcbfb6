--------------------------- MODULE LairServerProofs ---------------------------
(***************************************************************************)
(* Proofs about LairServer, for any number of connections, slots,          *)
(* descriptors and requests.                                               *)
(***************************************************************************)
EXTENDS LairServer, FiniteSetTheorems, SequenceTheorems, TLAPS

-----------------------------------------------------------------------------
(* The inductive invariant. *)

\* The thread is inside SV_ReadClientMessage( cur ).
Busy == pc \in {"welcome", "send", "drop"}

\* What is known where the thread stands.
PcOK ==
    /\ pc = "accept" => backlog # << >>
    /\ Busy => cur \in Active
    /\ pc \notin {"send", "killed"} => sendTo = {}
    /\ pc = "send" => sendTo \subseteq Active
    /\ pc = "welcome" => msg.type = "ACCEPTED"
    /\ pc \in {"welcome", "send"} =>
           /\ msg \in Msgs
           /\ msg.slot = cur
           /\ msg.name = clients[cur].name


\* TypeOK but for numclients, whose bound follows from SocketsExact.
Types ==
    /\ running \in BOOLEAN
    /\ pc \in {"select", "accept", "read", "welcome", "send", "drop",
               "exit", "killed"}
    /\ clients \in [Slots -> [active : BOOLEAN, socket : Fds \cup {INVALID},
                              name : Seq(Bytes)]]
    /\ readfds \subseteq Fds \cup {LISTEN}
    /\ cur \in 0 .. MaxClients
    /\ msg \in Msgs \cup {NoMsg}
    /\ sendTo \subseteq Slots
    /\ fds \in [Fds -> Conns \cup {NoConn}]
    /\ backlog \in Seq(Conns)
    /\ peer \in [Conns -> {"off", "up", "fin", "late", "reset", "broken"}]
    /\ inbox \in [Conns -> Seq(Bytes)]
    /\ full \subseteq Conns
    /\ named \in [Conns -> Seq(Bytes)]
    /\ heard \in [Conns -> SUBSET Slots]

\* Slots and descriptors match: a free slot is clean, an active slot has an
\* open socket of its own, and every open descriptor is some slot's socket.
Matched ==
    /\ \A i \in Slots \ Active : clients[i] = FreeSlot
    /\ \A i \in Active : clients[i].socket \in Fds /\ ConnOf(i) \in Conns
    /\ \A i, j \in Active : clients[i].socket = clients[j].socket => i = j
    /\ \A f \in Fds : fds[f] # NoConn => \E i \in Active : clients[i].socket = f

LEMMA InitTypes == Init => Types /\ PcOK /\ Matched
  <1> SUFFICES ASSUME Init PROVE Types /\ PcOK /\ Matched
    OBVIOUS
  <1> USE ServerAssumption DEF Init, FreeSlot, INVALID
  <1>1. Active = {}
    BY DEF Active
  <1>2. Types
    BY EmptySeq DEF Types, Slots, NoMsg
  <1>3. PcOK
    BY <1>1 DEF PcOK, Busy, Stopped
  <1>4. Matched
    BY <1>1 DEF Matched
  <1> QED BY <1>2, <1>3, <1>4


(* What one read of the loop, and one send, do to the state: the facts the  *)
(* proofs below use, with the byte-level detail left behind.                *)

SameUp(p, q) == \A c \in Conns : (p[c] = "up" <=> q[c] = "up") /\ (p[c] = "off" <=> q[c] = "off")

Connected(i) ==
    \E name \in Seq(Bytes) :
        /\ clients' = [clients EXCEPT ![i] = Client(clients[i].socket, name)]
        /\ named' = [named EXCEPT ![ConnOf(i)] = name]
        /\ pc' = "welcome"
        /\ msg' = Message("ACCEPTED", i, name, << >>)
        /\ UNCHANGED <<sendTo, peer>>
        /\ cur' = i

Announced(i) ==
    \E type \in {"CHAT", "USERLEAVE"}, text \in Seq(Bytes) :
        /\ pc' = "send"
        /\ msg' = Message(type, i, clients[i].name, text)
        /\ type = "USERLEAVE" => clients[i].name # << >> /\ text = << >>
        /\ sendTo' = Active
        /\ cur' = i
        /\ UNCHANGED <<clients, named>>

LeftUnnamed(i) ==
    /\ clients[i].name = << >>
    /\ pc' = "drop"
    /\ cur' = i
    /\ UNCHANGED <<clients, named, msg, sendTo>>

Ignored(i) ==
    /\ pc' = "read"
    /\ cur' = i + 1
    /\ UNCHANGED <<clients, named, msg, sendTo>>

LEMMA ReadFacts ==
  ASSUME Types, Matched, NEW i \in Slots, ReadClientMessage(i)
  PROVE  /\ pc = "read" /\ i \in Unread /\ i \in Active /\ ConnOf(i) \in Conns
         /\ \A j \in Unread : i <= j
         /\ UNCHANGED <<running, numclients, readfds, fds, backlog, full, heard>>
         /\ inbox' \in [Conns -> Seq(Bytes)]
         /\ \A d \in Conns : d # ConnOf(i) => inbox'[d] = inbox[d]
         /\ peer' \in [Conns -> {"off", "up", "fin", "late", "reset", "broken"}]
         /\ SameUp(peer, peer')
         /\ Connected(i) \/ Announced(i) \/ LeftUnnamed(i) \/ Ignored(i)
  <1> DEFINE c == ConnOf(i)
         Outcome == Connected(i) \/ Announced(i) \/ LeftUnnamed(i) \/ Ignored(i)
  <1>1. /\ pc = "read" /\ i \in Unread /\ i \in Active /\ c \in Conns
        /\ \A j \in Unread : i <= j
        /\ UNCHANGED <<running, numclients, readfds, fds, backlog, full, heard>>
    BY DEF ReadClientMessage, Lowest, Unread, Matched
  <1>2. ASSUME DropClient(i), cur' = i PROVE Announced(i) \/ LeftUnnamed(i)
    <2>1. CASE clients[i].name = << >>
      BY <1>2, <2>1 DEF DropClient, LeftUnnamed
    <2>2. CASE clients[i].name # << >>
      BY <1>2, <2>2, EmptySeq DEF DropClient, StartBroadcast, Announced
    <2> QED BY <2>1, <2>2
  <1>3. CASE ReadEnd(i) /\ UNCHANGED inbox
    <2>1. peer' \in [Conns -> {"off", "up", "fin", "late", "reset", "broken"}]
      BY <1>3 DEF ReadEnd, Types
    <2>2. SameUp(peer, peer')
      BY <1>1, <1>3 DEF ReadEnd, Types, SameUp
    <2>3. Announced(i) \/ LeftUnnamed(i)
      BY <1>2, <1>3 DEF ReadEnd
    <2> QED BY <1>1, <1>3, <2>1, <2>2, <2>3 DEF Types
  <1>4. ASSUME NEW k \in 1 .. Len(inbox[c]), UNCHANGED peer,
               inbox' = [inbox EXCEPT ![c] = SubSeq(@, k + 1, Len(@))],
               NEW body, body = SubSeq(inbox[c], 2, k),
               \/ HandleConnect(i, body) \/ HandleChat(i, body)
               \/ DropClient(i) \/ IgnoreMessage(i),
               cur' = IF pc' = "read" THEN i + 1 ELSE i
        PROVE  /\ inbox' \in [Conns -> Seq(Bytes)]
               /\ \A d \in Conns : d # c => inbox'[d] = inbox[d]
               /\ Connected(i) \/ Announced(i) \/ LeftUnnamed(i) \/ Ignored(i)
    <2>1. inbox[c] \in Seq(Bytes) /\ Len(inbox[c]) \in Nat
      BY <1>1, LenProperties DEF Types
    <2>2. \A m \in 1 .. Len(inbox[c]) : inbox[c][m] \in Bytes
      BY <2>1, ElementOfSeq
    <2>3. SubSeq(inbox[c], k + 1, Len(inbox[c])) \in Seq(Bytes)
      BY <2>1, <2>2, SubSeqProperties
    <2>4. body \in Seq(Bytes)
      BY <1>4, <2>1, <2>2, SubSeqProperties
    <2>5. \A n \in 0 .. Len(body) : SubSeq(body, 1, n) \in Seq(Bytes)
      BY <2>4, LenProperties, ElementOfSeq, SubSeqProperties
    <2>6. ASSUME HandleConnect(i, body) PROVE Outcome
      BY <1>4, <2>5, <2>6 DEF HandleConnect, Connected
    <2>7. ASSUME HandleChat(i, body) PROVE Outcome
      BY <1>4, <2>5, <2>7 DEF HandleChat, StartBroadcast, Announced
    <2>8. ASSUME DropClient(i) PROVE Outcome
      <3>1. pc' # "read"
        BY <2>8 DEF DropClient, StartBroadcast
      <3> QED BY <1>2, <1>4, <2>8, <3>1
    <2>9. ASSUME IgnoreMessage(i) PROVE Outcome
      BY <1>4, <2>9 DEF IgnoreMessage, Ignored
    <2>10. /\ inbox' \in [Conns -> Seq(Bytes)]
           /\ \A d \in Conns : d # c => inbox'[d] = inbox[d]
      BY <1>1, <1>4, <2>3 DEF Types
    <2> QED BY <1>4, <2>6, <2>7, <2>8, <2>9, <2>10
  <1>5. CASE ReadChunk(i) /\ UNCHANGED peer
    <2>1. PICK k \in 1 .. Len(inbox[c]) :
             /\ inbox' = [inbox EXCEPT ![c] = SubSeq(@, k + 1, Len(@))]
             /\ \/ HandleConnect(i, SubSeq(inbox[c], 2, k))
                \/ HandleChat(i, SubSeq(inbox[c], 2, k))
                \/ DropClient(i) \/ IgnoreMessage(i)
             /\ cur' = IF pc' = "read" THEN i + 1 ELSE i
      BY <1>5 DEF ReadChunk
    <2>2. /\ inbox' \in [Conns -> Seq(Bytes)]
          /\ \A d \in Conns : d # c => inbox'[d] = inbox[d]
          /\ Connected(i) \/ Announced(i) \/ LeftUnnamed(i) \/ Ignored(i)
      BY <1>4, <1>5, <2>1
    <2> QED BY <1>1, <1>5, <2>2 DEF Types, SameUp
  <1> QED BY <1>3, <1>5 DEF ReadClientMessage

\* A send that does not kill the process changes what the peers and their
\* buffers are known to be, and what the recipient has heard.
HeardBy(c) ==
    /\ heard' \in [Conns -> SUBSET Slots]
    /\ \A d \in Conns : d # c => heard'[d] = heard[d]
    /\ peer[c] = "up" => heard'[c] = After(heard[c], msg)

Sent(c) ==
    /\ peer' \in [Conns -> {"off", "up", "fin", "late", "reset", "broken"}]
    /\ SameUp(peer, peer')
    /\ full' \subseteq Conns
    /\ HeardBy(c)
    /\ UNCHANGED <<running, clients, numclients, readfds, fds, backlog, inbox,
                   named>>

Killed == pc' = "killed" /\ UNCHANGED <<running, clients, numclients, readfds,
                                        cur, msg, sendTo, network, history>>

LEMMA TakenOrError ==
  ASSUME Types, NEW c \in Conns, SendTaken(c) \/ SendError(c),
         msg.slot \in Slots,
         UNCHANGED <<running, clients, numclients, readfds, fds, backlog,
                     inbox, named>>
  PROVE  Sent(c)
  <1>1. CASE SendTaken(c)
    <2>1. /\ peer' \in [Conns -> {"off", "up", "fin", "late", "reset", "broken"}]
          /\ SameUp(peer, peer')
      BY <1>1 DEF SendTaken, Types, SameUp
    <2>2. full' \subseteq Conns
      BY <1>1 DEF SendTaken, Types
    <2>3. HeardBy(c)
      BY <1>1 DEF SendTaken, After, Types, HeardBy
    <2> QED BY <2>1, <2>2, <2>3 DEF Sent
  <1>2. CASE SendError(c)
    BY <1>2 DEF SendError, Types, SameUp, HeardBy, Sent
  <1> QED BY <1>1, <1>2

LEMMA WelcomeFacts ==
  ASSUME Types, Matched, PcOK, SendWelcome
  PROVE  /\ pc = "welcome" /\ cur \in Active
         /\ \/ /\ Sent(ConnOf(cur))
               /\ pc' = "send"
               /\ msg' = Message("USERJOIN", cur, clients[cur].name, << >>)
               /\ sendTo' = Active
               /\ cur' = cur
            \/ Killed
  <1>1. pc = "welcome" /\ cur \in Active /\ ConnOf(cur) \in Conns
    BY DEF SendWelcome, PcOK, Busy, Matched
  <1>2. msg.slot \in Slots
    BY <1>1 DEF PcOK, Msgs
  <1>3. CASE SendKills(ConnOf(cur))
    BY <1>1, <1>3 DEF SendKills, Killed
  <1>4. CASE ~SendKills(ConnOf(cur))
    BY <1>1, <1>2, <1>4, TakenOrError DEF SendWelcome, StartBroadcast
  <1> QED BY <1>3, <1>4

LEMMA BroadcastFacts ==
  ASSUME Types, Matched, PcOK, NEW i \in Slots, BroadcastMessage(i)
  PROVE  /\ pc = "send" /\ i \in sendTo /\ i \in Active /\ cur \in Active
         /\ \/ Sent(ConnOf(i)) /\ AfterSend(i)
            \/ Killed
  <1>1. /\ pc = "send" /\ i \in sendTo /\ i \in Active /\ cur \in Active
        /\ ConnOf(i) \in Conns /\ msg \in Msgs
    BY DEF BroadcastMessage, Lowest, PcOK, Busy, Matched
  <1>2. msg.slot \in Slots
    BY <1>1 DEF Msgs
  <1>3. CASE SendKills(ConnOf(i))
    BY <1>1, <1>3 DEF SendKills, Killed
  <1>4. CASE ~SendKills(ConnOf(i))
    <2>1. SendTaken(ConnOf(i)) \/ SendError(ConnOf(i))
      BY <1>4, Zenon DEF BroadcastMessage
    <2>2. /\ AfterSend(i)
          /\ UNCHANGED <<running, clients, numclients, readfds, fds, backlog,
                         inbox, named>>
      BY <1>4, Zenon DEF BroadcastMessage
    <2> QED BY <1>1, <1>2, <2>1, <2>2, TakenOrError
  <1> QED BY <1>3, <1>4

LEMMA TypesStep ==
  ASSUME Types, PcOK, Matched, Next
  PROVE  Types'
  <1> USE ServerAssumption DEF server, network, history
  <1>1. CASE Select
    <2>1. \A i \in Active : clients[i].socket \in Fds
      BY DEF Matched
    <2>2. Ready \subseteq Fds \cup {LISTEN}
      BY <2>1 DEF Ready
    <2>3. readfds' \subseteq Fds \cup {LISTEN}
      BY <1>1, <2>2, Zenon DEF Select
    <2>4. cur' \in 0 .. MaxClients
      BY <1>1 DEF Select
    <2>5. pc' = "accept" \/ pc' = "read"
      BY <1>1, Zenon DEF Select
    <2>6. UNCHANGED <<running, clients, numclients, msg, sendTo, network, history>>
      BY <1>1, Zenon DEF Select
    <2> QED BY <2>3, <2>4, <2>5, <2>6 DEF Types
  <1>2. CASE SelectNothing
    BY <1>2 DEF SelectNothing, NextFrame, Types
  <1>3. CASE AcceptFails
    BY <1>3 DEF AcceptFails, Types
  <1>4. CASE Reject
    BY <1>4, EmptySeq, HeadTailProperties DEF Reject, Forget, PcOK, Types
  <1>5. ASSUME NEW i \in Slots, NEW f \in Fds, Seat(i, f) PROVE Types'
    BY <1>5, HeadTailProperties DEF Seat, Client, PcOK, Types
  <1>6. CASE EndFrame
    BY <1>6 DEF EndFrame, NextFrame, Types
  <1>7. ASSUME NEW i \in Slots, ReadClientMessage(i) PROVE Types'
    <2>0. /\ pc = "read" /\ i \in Active /\ ConnOf(i) \in Conns
          /\ UNCHANGED <<running, numclients, readfds, fds, backlog, full, heard>>
          /\ inbox' \in [Conns -> Seq(Bytes)]
          /\ peer' \in [Conns -> {"off", "up", "fin", "late", "reset", "broken"}]
          /\ Connected(i) \/ Announced(i) \/ LeftUnnamed(i) \/ Ignored(i)
      BY <1>7, ReadFacts
    <2> USE <2>0
    <2>1. CASE Connected(i)
      <3>1. PICK name \in Seq(Bytes) :
               /\ clients' = [clients EXCEPT ![i] = Client(clients[i].socket, name)]
               /\ named' = [named EXCEPT ![ConnOf(i)] = name]
               /\ msg' = Message("ACCEPTED", i, name, << >>)
        BY <2>1 DEF Connected
      <3>2. clients' \in [Slots -> [active : BOOLEAN, socket : Fds \cup {INVALID},
                                   name : Seq(Bytes)]]
        BY <3>1 DEF Client, Types
      <3>3. named' \in [Conns -> Seq(Bytes)] /\ msg' \in Msgs
        BY <3>1, EmptySeq DEF Message, Msgs, MsgTypes, Types
      <3>4. pc' = "welcome" /\ cur' = i /\ sendTo' = sendTo
        BY <2>1 DEF Connected
      <3>5. cur' \in 0 .. MaxClients
        BY <3>4 DEF Slots
      <3> QED BY ONLY Types, <2>0, <3>2, <3>3, <3>4, <3>5 DEF Types
    <2>2. CASE Announced(i)
      <3>1. msg' \in Msgs
        BY <2>2 DEF Announced, Message, Msgs, MsgTypes, Types
      <3>2. pc' = "send" /\ cur' = i /\ sendTo' = Active /\ UNCHANGED <<clients, named>>
        BY <2>2 DEF Announced
      <3>3. cur' \in 0 .. MaxClients /\ sendTo' \subseteq Slots
        BY <3>2 DEF Slots, Active
      <3> QED BY ONLY Types, <2>0, <3>1, <3>2, <3>3 DEF Types
    <2>3. i \in 0 .. MaxClients /\ i + 1 \in 0 .. MaxClients
      BY DEF Slots
    <2>4. CASE LeftUnnamed(i)
      BY <2>3, <2>4 DEF LeftUnnamed, Types
    <2>5. CASE Ignored(i)
      BY <2>3, <2>5 DEF Ignored, Types
    <2> QED BY <2>1, <2>2, <2>4, <2>5
  <1>8. CASE SendWelcome
    <2>1. CASE Killed
      BY <2>1 DEF Killed, Types
    <2>2. CASE ~Killed
      <3>1. /\ cur \in Active /\ Sent(ConnOf(cur)) /\ pc' = "send" /\ sendTo' = Active
            /\ cur' = cur /\ msg' = Message("USERJOIN", cur, clients[cur].name, << >>)
        BY <1>8, <2>2, WelcomeFacts
      <3>2. msg' \in Msgs
        BY <3>1, EmptySeq DEF Message, Msgs, MsgTypes, Active, Types
      <3> QED BY <3>1, <3>2 DEF Sent, HeardBy, Active, Types
    <2> QED BY <2>1, <2>2
  <1>9. ASSUME NEW i \in Slots, BroadcastMessage(i) PROVE Types'
    <2>1. CASE Killed
      BY <2>1 DEF Killed, Types
    <2>2. CASE ~Killed
      <3>1. cur \in Active /\ Sent(ConnOf(i)) /\ AfterSend(i) /\ pc = "send"
        BY <1>9, <2>2, BroadcastFacts
      <3>2. cur \in 0 .. MaxClients /\ cur + 1 \in 0 .. MaxClients
        BY <3>1 DEF Active, Slots
      <3> QED BY <3>1, <3>2 DEF Sent, HeardBy, AfterSend, Types
    <2> QED BY <2>1, <2>2
  <1>10. CASE CloseClient
    <2>1. FreeSlot \in [active : BOOLEAN, socket : Fds \cup {INVALID}, name : Seq(Bytes)]
      BY EmptySeq DEF FreeSlot
    <2>2. cur \in Slots /\ cur + 1 \in 0 .. MaxClients
      BY <1>10 DEF CloseClient, PcOK, Busy, Active, Slots
    <2>3. << >> \in Seq(Bytes)
      BY EmptySeq
    <2> QED BY <1>10, <2>1, <2>2, <2>3 DEF CloseClient, Forget, Types
  <1>11. ASSUME NEW c \in Conns, PeerConnect(c) PROVE Types'
    BY <1>11 DEF PeerConnect, Types
  <1>12. ASSUME NEW c \in Conns, NEW r \in Requests, PeerSend(c, r) PROVE Types'
    BY <1>12, ConcatProperties DEF PeerSend, Types
  <1>13. ASSUME NEW c \in Conns, PeerRecv(c) PROVE Types'
    BY <1>13 DEF PeerRecv, Types
  <1>14. ASSUME NEW c \in Conns, PeerClose(c) PROVE Types'
    BY <1>14 DEF PeerClose, Types
  <1>15. ASSUME NEW c \in Conns, PeerReset(c) PROVE Types'
    BY <1>15 DEF PeerReset, Types
  <1>16. CASE SigHandler
    BY <1>16 DEF SigHandler, Types
  <1>17. CASE Terminated
    BY <1>17 DEF Terminated, vars, Types
  <1> QED
    BY <1>1, <1>2, <1>3, <1>4, <1>5, <1>6, <1>7, <1>8, <1>9, <1>10, <1>11,
       <1>12, <1>13, <1>14, <1>15, <1>16, <1>17
    DEF Next, ServerStep, PeerStep

LEMMA PcStep ==
  ASSUME Types, PcOK, Matched, Next
  PROVE  PcOK'
  <1> USE ServerAssumption DEF server, network, history
  <1>1. CASE Select
    BY <1>1 DEF Select, Ready, Matched, Fds, LISTEN, PcOK, Busy, Stopped, Active
  <1>2. CASE SelectNothing
    BY <1>2 DEF SelectNothing, NextFrame, PcOK, Busy, Stopped, Active
  <1>3. CASE AcceptFails
    BY <1>3 DEF AcceptFails, PcOK, Busy, Stopped, Active
  <1>4. CASE Reject
    BY <1>4 DEF Reject, PcOK, Busy, Stopped, Active
  <1>5. ASSUME NEW i \in Slots, NEW f \in Fds, Seat(i, f) PROVE PcOK'
    BY <1>5 DEF Seat, PcOK, Busy, Stopped, Active
  <1>6. CASE EndFrame
    BY <1>6 DEF EndFrame, NextFrame, PcOK, Busy, Stopped, Active
  <1>7. ASSUME NEW i \in Slots, ReadClientMessage(i) PROVE PcOK'
    <2>0. /\ pc = "read" /\ i \in Active /\ ConnOf(i) \in Conns
          /\ UNCHANGED <<running, numclients, readfds, fds, backlog, full, heard>>
          /\ inbox' \in [Conns -> Seq(Bytes)]
          /\ peer' \in [Conns -> {"off", "up", "fin", "late", "reset", "broken"}]
          /\ Connected(i) \/ Announced(i) \/ LeftUnnamed(i) \/ Ignored(i)
      BY <1>7, ReadFacts
    <2> USE <2>0
    <2>1. CASE Connected(i)
      <3>1. PICK name \in Seq(Bytes) :
               /\ clients' = [clients EXCEPT ![i] = Client(clients[i].socket, name)]
               /\ msg' = Message("ACCEPTED", i, name, << >>)
        BY <2>1 DEF Connected
      <3>2. /\ msg' \in Msgs /\ msg'.slot = i /\ msg'.name = name
            /\ msg'.type = "ACCEPTED"
        BY <3>1, EmptySeq DEF Message, Msgs, MsgTypes
      <3>3. clients'[i].name = name /\ i \in Active'
        BY <3>1 DEF Client, Active, Types
      <3> QED BY <2>1, <3>2, <3>3 DEF Connected, PcOK, Busy, Stopped
    <2>2. CASE Announced(i)
      <3>1. msg' \in Msgs /\ msg'.slot = i /\ msg'.name = clients[i].name
        BY <2>2 DEF Announced, Message, Msgs, MsgTypes, Types
      <3> QED BY <2>2, <3>1 DEF Announced, PcOK, Busy, Stopped, Active
    <2>3. CASE LeftUnnamed(i) \/ Ignored(i)
      BY <2>3 DEF LeftUnnamed, Ignored, PcOK, Busy, Stopped, Active
    <2> QED BY <2>1, <2>2, <2>3
  <1>8. CASE SendWelcome
    <2>1. CASE Killed
      BY <1>8, <2>1, WelcomeFacts DEF Killed, PcOK, Busy, Stopped, Active
    <2>2. CASE ~Killed
      <3>1. /\ cur \in Active /\ Sent(ConnOf(cur)) /\ pc' = "send" /\ sendTo' = Active
            /\ cur' = cur /\ msg' = Message("USERJOIN", cur, clients[cur].name, << >>)
        BY <1>8, <2>2, WelcomeFacts
      <3>2. msg' \in Msgs /\ msg'.slot = cur /\ msg'.name = clients[cur].name
        BY <3>1, EmptySeq DEF Message, Msgs, MsgTypes, Active, Types
      <3> QED BY <3>1, <3>2 DEF Sent, PcOK, Busy, Stopped, Active
    <2> QED BY <2>1, <2>2
  <1>9. ASSUME NEW i \in Slots, BroadcastMessage(i) PROVE PcOK'
    <2>1. CASE Killed
      BY <1>9, <2>1, BroadcastFacts DEF Killed, PcOK, Busy, Stopped, Active
    <2>2. CASE ~Killed
      <3>1. cur \in Active /\ Sent(ConnOf(i)) /\ AfterSend(i) /\ pc = "send"
        BY <1>9, <2>2, BroadcastFacts
      <3> QED BY <3>1 DEF Sent, AfterSend, PcOK, Busy, Stopped, Active
    <2> QED BY <2>1, <2>2
  <1>10. CASE CloseClient
    BY <1>10 DEF CloseClient, PcOK, Busy, Stopped, Active
  <1>11. ASSUME NEW c \in Conns, PeerConnect(c) PROVE PcOK'
    <2>1. backlog' # << >>
      BY <1>11, AppendProperties DEF PeerConnect, Types
    <2> QED BY <1>11, <2>1 DEF PeerConnect, PcOK, Busy, Stopped, Active
  <1>12. ASSUME NEW c \in Conns, NEW r \in Requests, PeerSend(c, r) PROVE PcOK'
    BY <1>12 DEF PeerSend, PcOK, Busy, Stopped, Active
  <1>13. ASSUME NEW c \in Conns, PeerRecv(c) PROVE PcOK'
    BY <1>13 DEF PeerRecv, PcOK, Busy, Stopped, Active
  <1>14. ASSUME NEW c \in Conns, PeerClose(c) PROVE PcOK'
    BY <1>14 DEF PeerClose, PcOK, Busy, Stopped, Active
  <1>15. ASSUME NEW c \in Conns, PeerReset(c) PROVE PcOK'
    BY <1>15 DEF PeerReset, PcOK, Busy, Stopped, Active
  <1>16. CASE SigHandler
    BY <1>16 DEF SigHandler, PcOK, Busy, Stopped, Active
  <1>17. CASE Terminated
    BY <1>17 DEF Terminated, vars, PcOK, Busy, Stopped, Active
  <1> QED
    BY <1>1, <1>2, <1>3, <1>4, <1>5, <1>6, <1>7, <1>8, <1>9, <1>10, <1>11,
       <1>12, <1>13, <1>14, <1>15, <1>16, <1>17
    DEF Next, ServerStep, PeerStep

(* Who sits where: most steps leave the slots, the descriptors, the accept  *)
(* queue and the names alone.                                               *)

Undisturbed ==
    /\ UNCHANGED <<clients, numclients, fds, backlog, named>>
    /\ \A c \in Conns : peer'[c] = "off" <=> peer[c] = "off"

Renamed(i) ==
    /\ i \in Active
    /\ Connected(i)
    /\ UNCHANGED <<numclients, fds, backlog, peer>>

LEMMA SeatCases ==
  ASSUME Types, PcOK, Matched, Next
  PROVE  \/ Undisturbed
         \/ \E i \in Slots : Renamed(i)
         \/ \E i \in Slots, f \in Fds : Seat(i, f)
         \/ \E c \in Conns : PeerConnect(c)
         \/ Reject
         \/ CloseClient
  <1> USE DEF server, network, history
  <1>1. CASE Select \/ SelectNothing \/ AcceptFails \/ EndFrame \/ SigHandler
             \/ Terminated
    BY <1>1 DEF Select, SelectNothing, AcceptFails, EndFrame, SigHandler,
                Terminated, vars, Undisturbed, SameUp
  <1>2. ASSUME NEW i \in Slots, ReadClientMessage(i)
        PROVE  Undisturbed \/ Renamed(i)
    <2>1. /\ i \in Active
          /\ UNCHANGED <<numclients, fds, backlog>>
          /\ SameUp(peer, peer')
          /\ Connected(i) \/ Announced(i) \/ LeftUnnamed(i) \/ Ignored(i)
      BY <1>2, ReadFacts
    <2>2. CASE Connected(i)
      BY <2>1, <2>2 DEF Renamed, Connected
    <2>3. CASE ~Connected(i)
      BY <2>1, <2>3 DEF Announced, LeftUnnamed, Ignored, Undisturbed, SameUp
    <2> QED BY <2>2, <2>3
  <1>3. CASE SendWelcome
    <2>1. Sent(ConnOf(cur)) \/ Killed
      BY <1>3, WelcomeFacts
    <2> QED BY <2>1 DEF Sent, Killed, Undisturbed, SameUp
  <1>4. ASSUME NEW i \in Slots, BroadcastMessage(i) PROVE Undisturbed
    <2>1. Sent(ConnOf(i)) \/ Killed
      BY <1>4, BroadcastFacts
    <2> QED BY <2>1 DEF Sent, Killed, Undisturbed, SameUp
  <1>5. ASSUME NEW c \in Conns,
               \/ PeerRecv(c) \/ PeerClose(c) \/ PeerReset(c)
               \/ \E r \in Requests : PeerSend(c, r)
        PROVE  UNCHANGED <<clients, numclients, fds, backlog, named>>
    BY <1>5 DEF PeerRecv, PeerClose, PeerReset, PeerSend
  <1>6. ASSUME NEW c \in Conns,
               \/ PeerRecv(c) \/ PeerClose(c) \/ PeerReset(c)
               \/ \E r \in Requests : PeerSend(c, r)
        PROVE  \A d \in Conns : peer'[d] = "off" <=> peer[d] = "off"
    BY <1>6 DEF PeerRecv, PeerClose, PeerReset, PeerSend, Types
  <1> QED
    BY <1>1, <1>2, <1>3, <1>4, <1>5, <1>6
    DEF Next, ServerStep, PeerStep, Undisturbed

LEMMA MatchedStep ==
  ASSUME Types, PcOK, Matched, Next
  PROVE  Matched'
  <1>1. CASE Undisturbed
    BY <1>1 DEF Undisturbed, Matched, Active, ConnOf
  <1>2. ASSUME NEW i \in Slots, Renamed(i) PROVE Matched'
    <2>1. PICK name \in Seq(Bytes) :
             clients' = [clients EXCEPT ![i] = Client(clients[i].socket, name)]
      BY <1>2 DEF Renamed, Connected
    <2>2. /\ clients'[i].active /\ clients'[i].socket = clients[i].socket
          /\ \A j \in Slots : j # i => clients'[j] = clients[j]
          /\ i \in Active
          /\ UNCHANGED fds
      BY <1>2, <2>1 DEF Client, Types, Renamed
    <2>3. Active' = Active
      BY <2>2 DEF Active
    <2> QED BY <2>2, <2>3 DEF Matched, Active, ConnOf
  <1>3. ASSUME NEW i \in Slots, NEW f \in Fds, Seat(i, f) PROVE Matched'
    <2>1. /\ i \in Slots \ Active
          /\ fds[f] = NoConn
          /\ Head(backlog) \in Conns
          /\ fds' = [fds EXCEPT ![f] = Head(backlog)]
      BY <1>3, HeadTailProperties
      DEF Seat, Lowest, FreeSlots, FreeFds, PcOK, Types
    <2>2. /\ clients'[i].active /\ clients'[i].socket = f
          /\ \A j \in Slots : j # i => clients'[j] = clients[j]
      BY <1>3 DEF Seat, Client, Types
    <2>3. Active' = Active \cup {i}
      BY <2>1, <2>2 DEF Active
    <2>4. /\ fds'[f] = Head(backlog)
          /\ \A g \in Fds : g # f => fds'[g] = fds[g]
      BY <2>1 DEF Types
    <2>5. \A j \in Active : clients[j].socket # f
      BY <2>1, ServerAssumption DEF Matched, ConnOf
    <2>6. \A j \in Slots \ Active' : clients'[j] = FreeSlot
      BY <2>2, <2>3 DEF Matched
    <2>7. \A j \in Active' : clients'[j].socket \in Fds /\ ConnOf(j)' \in Conns
      BY <2>1, <2>2, <2>3, <2>4, <2>5 DEF Matched, ConnOf, Active
    <2>8. \A j, k \in Active' : clients'[j].socket = clients'[k].socket => j = k
      BY <2>2, <2>3, <2>5 DEF Matched, Active
    <2>9. \A g \in Fds : fds'[g] # NoConn =>
             \E j \in Active' : clients'[j].socket = g
      BY <2>1, <2>2, <2>3, <2>4 DEF Matched, Active
    <2> QED BY <2>6, <2>7, <2>8, <2>9 DEF Matched
  <1>4. CASE \E c \in Conns : PeerConnect(c)
    BY <1>4 DEF PeerConnect, server, Matched, Active, ConnOf
  <1>5. CASE Reject
    BY <1>5 DEF Reject, Matched, Active, ConnOf
  <1>6. CASE CloseClient
    <2> DEFINE f == clients[cur].socket
    <2>1. cur \in Active /\ cur \in Slots /\ f \in Fds
      BY <1>6 DEF CloseClient, PcOK, Busy, Matched, Active
    <2>2. /\ clients'[cur] = FreeSlot
          /\ \A j \in Slots : j # cur => clients'[j] = clients[j]
      BY <1>6, <2>1 DEF CloseClient, Types
    <2>3. Active' = Active \ {cur}
      BY <2>1, <2>2 DEF Active, FreeSlot
    <2>4. /\ fds'[f] = NoConn
          /\ \A g \in Fds : g # f => fds'[g] = fds[g]
      BY <1>6, <2>1 DEF CloseClient, Types
    <2>5. \A j \in Active' : clients'[j].socket # f
      BY <2>1, <2>2, <2>3 DEF Matched, Active
    <2>6. \A j \in Slots \ Active' : clients'[j] = FreeSlot
      BY <2>2, <2>3 DEF Matched
    <2>7. \A j \in Active' : clients'[j].socket \in Fds /\ ConnOf(j)' \in Conns
      BY <2>2, <2>3, <2>4, <2>5 DEF Matched, ConnOf, Active
    <2>8. \A j, k \in Active' : clients'[j].socket = clients'[k].socket => j = k
      BY <2>2, <2>3 DEF Matched, Active
    <2>9. \A g \in Fds : fds'[g] # NoConn =>
             \E j \in Active' : clients'[j].socket = g
      BY <2>1, <2>2, <2>3, <2>4 DEF Matched, Active
    <2> QED BY <2>6, <2>7, <2>8, <2>9 DEF Matched
  <1> QED BY <1>1, <1>2, <1>3, <1>4, <1>5, <1>6, SeatCases

Counted == numclients = Cardinality(Active)

LEMMA ActiveFinite ==
  /\ IsFiniteSet(Active)
  /\ Cardinality(Active) \in 0 .. MaxClients
  <1>1. IsFiniteSet(Slots) /\ Cardinality(Slots) = MaxClients
    BY FS_Interval, ServerAssumption DEF Slots
  <1>2. Active \in SUBSET Slots
    BY DEF Active
  <1>3. IsFiniteSet(Active) /\ Cardinality(Active) <= MaxClients
    BY <1>1, <1>2, FS_Subset
  <1> QED BY <1>3, FS_CardinalityType, ServerAssumption

LEMMA CountedStep ==
  ASSUME Types, PcOK, Matched, Counted, Next
  PROVE  Counted'
  <1>1. CASE Undisturbed
    BY <1>1 DEF Undisturbed, Counted, Active
  <1>2. ASSUME NEW i \in Slots, Renamed(i) PROVE Counted'
    <2>1. Active' = Active
      BY <1>2 DEF Renamed, Connected, Client, Active, Types
    <2> QED BY <1>2, <2>1 DEF Renamed, Counted
  <1>3. ASSUME NEW i \in Slots, NEW f \in Fds, Seat(i, f) PROVE Counted'
    <2>1. i \notin Active
      BY <1>3 DEF Seat, Lowest, FreeSlots
    <2>2. Active' = Active \cup {i}
      BY <1>3 DEF Seat, Client, Active, Types
    <2>3. Cardinality(Active') = Cardinality(Active) + 1
      BY <2>1, <2>2, ActiveFinite, FS_AddElement
    <2> QED BY <1>3, <2>3 DEF Seat, Counted
  <1>4. CASE \E c \in Conns : PeerConnect(c)
    BY <1>4 DEF PeerConnect, server, Counted, Active
  <1>5. CASE Reject
    BY <1>5 DEF Reject, Counted, Active
  <1>6. CASE CloseClient
    <2>1. cur \in Active
      BY <1>6 DEF CloseClient, PcOK, Busy
    <2>2. Active' = Active \ {cur}
      BY <1>6, <2>1 DEF CloseClient, FreeSlot, Active, Types
    <2>3. Cardinality(Active') = Cardinality(Active) - 1
      BY <2>1, <2>2, ActiveFinite, FS_RemoveElement
    <2> QED BY <1>6, <2>3 DEF CloseClient, Counted
  <1> QED BY <1>1, <1>2, <1>3, <1>4, <1>5, <1>6, SeatCases

\* No connection is in two places, none in any place is "off", and a slot's
\* name is the one its connection gave: none yet, if it is still queued.
Owners ==
    /\ \A i, j \in Active : ConnOf(i) = ConnOf(j) => i = j
    /\ \A i \in Active, k \in 1 .. Len(backlog) : ConnOf(i) # backlog[k]
    /\ \A k, m \in 1 .. Len(backlog) : backlog[k] = backlog[m] => k = m
    /\ \A i \in Active : peer[ConnOf(i)] # "off"
    /\ \A k \in 1 .. Len(backlog) : peer[backlog[k]] # "off"
    /\ \A i \in Active : clients[i].name = named[ConnOf(i)]
    /\ \A k \in 1 .. Len(backlog) : named[backlog[k]] = << >>
    /\ \A c \in Conns : peer[c] = "off" => named[c] = << >>

\* Taking the head off the accept queue.
LEMMA BacklogTail ==
  ASSUME Types, backlog # << >>, backlog' = Tail(backlog)
  PROVE  /\ Len(backlog) \in Nat \ {0}
         /\ 1 \in 1 .. Len(backlog)
         /\ Head(backlog) = backlog[1]
         /\ \A k \in 1 .. Len(backlog') :
               k + 1 \in 1 .. Len(backlog) /\ backlog'[k] = backlog[k + 1]
  <1>1. backlog \in Seq(Conns)
    BY DEF Types
  <1>2. Len(backlog) \in Nat \ {0}
    BY <1>1, EmptySeq
  <1>3. /\ Len(Tail(backlog)) = Len(backlog) - 1
        /\ \A k \in 1 .. Len(Tail(backlog)) : Tail(backlog)[k] = backlog[k + 1]
    BY <1>1, HeadTailProperties
  <1>4. Head(backlog) = backlog[1]
    BY <1>1
  <1> QED BY <1>2, <1>3, <1>4

LEMMA HeadOfBacklog ==
  ASSUME Types, backlog # << >>
  PROVE  1 \in 1 .. Len(backlog) /\ Head(backlog) = backlog[1]
  <1>1. backlog \in Seq(Conns)
    BY DEF Types
  <1>2. Len(backlog) \in Nat \ {0}
    BY <1>1, EmptySeq
  <1> QED BY <1>1, <1>2

LEMMA OwnersStep ==
  ASSUME Types, PcOK, Matched, Owners, Next
  PROVE  Owners'
  <1>t. \A k \in 1 .. Len(backlog) : backlog[k] \in Conns
    BY ElementOfSeq DEF Types
  <1>s. \A i \in Active : i \in Slots /\ clients[i].socket \in Fds /\ ConnOf(i) \in Conns
    BY DEF Matched, Active
  <1>1. CASE Undisturbed
    <2>1. Active' = Active /\ \A i \in Active : ConnOf(i)' = ConnOf(i)
      BY <1>1 DEF Undisturbed, Active, ConnOf
    <2> QED BY <1>1, <1>t, <1>s, <2>1 DEF Undisturbed, Owners
  <1>2. ASSUME NEW i \in Slots, Renamed(i) PROVE Owners'
    <2>1. PICK name \in Seq(Bytes) :
             /\ clients' = [clients EXCEPT ![i] = Client(clients[i].socket, name)]
             /\ named' = [named EXCEPT ![ConnOf(i)] = name]
      BY <1>2 DEF Renamed, Connected
    <2>2. /\ i \in Active /\ UNCHANGED <<fds, backlog, peer>>
          /\ clients'[i].active /\ clients'[i].name = name
          /\ clients'[i].socket = clients[i].socket
          /\ \A j \in Slots : j # i => clients'[j] = clients[j]
      BY <1>2, <2>1 DEF Client, Types, Renamed
    <2>3. Active' = Active /\ \A j \in Active : ConnOf(j)' = ConnOf(j)
      BY <2>2 DEF Active, ConnOf
    <2>4. /\ named'[ConnOf(i)] = name
          /\ \A c \in Conns : c # ConnOf(i) => named'[c] = named[c]
      BY <1>s, <2>1, <2>2 DEF Types
    <2> QED BY <1>t, <1>s, <2>2, <2>3, <2>4 DEF Owners
  <1>3. ASSUME NEW i \in Slots, NEW f \in Fds, Seat(i, f) PROVE Owners'
    <2> DEFINE c == Head(backlog)
    <2>1. /\ i \in Slots \ Active /\ fds[f] = NoConn
          /\ fds' = [fds EXCEPT ![f] = c]
          /\ clients' = [clients EXCEPT ![i] = Client(f, clients[i].name)]
          /\ backlog # << >> /\ backlog' = Tail(backlog)
          /\ UNCHANGED <<peer, named>>
      BY <1>3 DEF Seat, Lowest, FreeSlots, FreeFds, PcOK, history
    <2>2. /\ clients'[i].active /\ clients'[i].socket = f
          /\ clients'[i].name = << >>
          /\ \A j \in Slots : j # i => clients'[j] = clients[j]
      BY <2>1 DEF Client, Types, Matched, FreeSlot
    <2>3. Active' = Active \cup {i}
      BY <2>1, <2>2 DEF Active
    <2>4. fds'[f] = c /\ \A g \in Fds : g # f => fds'[g] = fds[g]
      BY <2>1 DEF Types
    <2>5. ConnOf(i)' = c /\ \A j \in Active : ConnOf(j)' = ConnOf(j) /\ j # i
      BY <1>s, <2>1, <2>2, <2>4, ServerAssumption DEF ConnOf
    <2>6. /\ 1 \in 1 .. Len(backlog)
          /\ c = backlog[1]
          /\ \A k \in 1 .. Len(backlog') :
                /\ k \in Nat \ {0} /\ k + 1 # 1
                /\ k + 1 \in 1 .. Len(backlog)
                /\ backlog'[k] = backlog[k + 1]
      BY <2>1, BacklogTail
    <2>7. \A j \in Active : clients'[j].name = clients[j].name
      BY <1>s, <2>2, <2>5
    <2>8. \A k, m \in 1 .. Len(backlog') : backlog'[k] = backlog'[m] => k = m
      BY <2>6 DEF Owners
    <2>9. \A j \in Active', k \in 1 .. Len(backlog') : ConnOf(j)' # backlog'[k]
      BY <2>3, <2>5, <2>6 DEF Owners
    <2>10. \A j, k \in Active' : ConnOf(j)' = ConnOf(k)' => j = k
      BY <2>3, <2>5, <2>6 DEF Owners
    <2>11. \A j \in Active' : /\ peer'[ConnOf(j)'] # "off"
                              /\ clients'[j].name = named'[ConnOf(j)']
      BY <2>1, <2>2, <2>3, <2>5, <2>6, <2>7 DEF Owners
    <2>12. \A k \in 1 .. Len(backlog') : /\ peer'[backlog'[k]] # "off"
                                         /\ named'[backlog'[k]] = << >>
      BY <2>1, <2>6 DEF Owners
    <2> QED BY <2>1, <2>8, <2>9, <2>10, <2>11, <2>12 DEF Owners
  <1>4. ASSUME NEW c \in Conns, PeerConnect(c) PROVE Owners'
    <2>1. /\ peer[c] = "off" /\ peer' = [peer EXCEPT ![c] = "up"]
          /\ backlog' = Append(backlog, c)
          /\ UNCHANGED <<clients, fds, named>>
      BY <1>4 DEF PeerConnect, server, history
    <2>2. Active' = Active /\ \A i \in Active : ConnOf(i)' = ConnOf(i)
      BY <2>1 DEF Active, ConnOf
    <2>3. peer'[c] = "up" /\ \A d \in Conns : d # c => peer'[d] = peer[d]
      BY <2>1 DEF Types
    <2>4. Len(backlog) \in Nat /\ Len(backlog') = Len(backlog) + 1
      BY <2>1, AppendProperties, LenProperties DEF Types
    <2>5. /\ \A k \in 1 .. Len(backlog) : backlog'[k] = backlog[k]
          /\ backlog'[Len(backlog) + 1] = c
      BY <2>1, AppendProperties DEF Types
    <2>6. \A k \in 1 .. Len(backlog') :
             k \in 1 .. Len(backlog) \/ k = Len(backlog) + 1
      BY <2>4
    <2>7. \A i \in Active : ConnOf(i) # c
      BY <2>1 DEF Owners
    <2>8. \A k \in 1 .. Len(backlog) : backlog[k] # c
      BY <2>1 DEF Owners
    <2>9. \A k, m \in 1 .. Len(backlog') : backlog'[k] = backlog'[m] => k = m
      BY <2>5, <2>6, <2>8 DEF Owners
    <2>10. \A i \in Active, k \in 1 .. Len(backlog') : ConnOf(i) # backlog'[k]
      BY <2>5, <2>6, <2>7 DEF Owners
    <2>11. \A k \in 1 .. Len(backlog') : /\ peer'[backlog'[k]] # "off"
                                         /\ named[backlog'[k]] = << >>
      BY <1>t, <2>1, <2>3, <2>5, <2>6, <2>8 DEF Owners
    <2>12. \A i \in Active : peer'[ConnOf(i)] # "off"
      BY <1>s, <2>3 DEF Owners
    <2> QED
      BY <1>s, <2>1, <2>2, <2>3, <2>9, <2>10, <2>11, <2>12 DEF Owners
  <1>5. CASE Reject
    <2> DEFINE c == Head(backlog)
    <2>1. /\ backlog # << >> /\ backlog' = Tail(backlog)
          /\ peer' = [peer EXCEPT ![c] = "off"]
          /\ named' = [named EXCEPT ![c] = << >>]
          /\ UNCHANGED <<clients, fds>>
      BY <1>5 DEF Reject, Forget, PcOK
    <2>2. Active' = Active /\ \A i \in Active : ConnOf(i)' = ConnOf(i)
      BY <2>1 DEF Active, ConnOf
    <2>3. /\ 1 \in 1 .. Len(backlog)
          /\ c = backlog[1]
          /\ \A k \in 1 .. Len(backlog') :
                /\ k \in Nat \ {0} /\ k + 1 # 1
                /\ k + 1 \in 1 .. Len(backlog)
                /\ backlog'[k] = backlog[k + 1]
      BY <2>1, BacklogTail
    <2>4. /\ peer'[c] = "off" /\ named'[c] = << >>
          /\ \A d \in Conns : d # c => peer'[d] = peer[d] /\ named'[d] = named[d]
      BY <1>t, <2>1, <2>3 DEF Types
    <2>5. \A k \in 1 .. Len(backlog') : backlog'[k] # c
      BY <2>3 DEF Owners
    <2>6. \A i \in Active : ConnOf(i) # c
      BY <2>3 DEF Owners
    <2>7. \A k, m \in 1 .. Len(backlog') : backlog'[k] = backlog'[m] => k = m
      BY <2>3 DEF Owners
    <2>8. \A i \in Active, k \in 1 .. Len(backlog') : ConnOf(i) # backlog'[k]
      BY <2>3 DEF Owners
    <2>9. \A k \in 1 .. Len(backlog') : /\ peer'[backlog'[k]] # "off"
                                        /\ named'[backlog'[k]] = << >>
      BY <1>t, <2>3, <2>4, <2>5 DEF Owners
    <2>10. \A i \in Active : /\ peer'[ConnOf(i)] # "off"
                             /\ clients'[i].name = named'[ConnOf(i)]
      BY <1>s, <2>1, <2>4, <2>6 DEF Owners
    <2> QED BY <2>2, <2>4, <2>7, <2>8, <2>9, <2>10 DEF Owners
  <1>6. CASE CloseClient
    <2> DEFINE c == ConnOf(cur)
               f == clients[cur].socket
    <2>1. /\ cur \in Active /\ cur \in Slots /\ f \in Fds /\ c \in Conns
          /\ fds' = [fds EXCEPT ![f] = NoConn]
          /\ clients' = [clients EXCEPT ![cur] = FreeSlot]
          /\ peer' = [peer EXCEPT ![c] = "off"]
          /\ named' = [named EXCEPT ![c] = << >>]
          /\ UNCHANGED backlog
      BY <1>6, <1>s DEF CloseClient, Forget, PcOK, Busy
    <2>2. /\ clients'[cur] = FreeSlot
          /\ \A j \in Slots : j # cur => clients'[j] = clients[j]
      BY <2>1 DEF Types
    <2>3. Active' = Active \ {cur}
      BY <2>1, <2>2 DEF Active, FreeSlot
    <2>4. \A g \in Fds : g # f => fds'[g] = fds[g]
      BY <2>1 DEF Types
    <2>5. \A j \in Active' : ConnOf(j)' = ConnOf(j) /\ ConnOf(j) # c
      BY <1>s, <2>1, <2>2, <2>3, <2>4 DEF ConnOf, Matched, Owners
    <2>6. /\ peer'[c] = "off" /\ named'[c] = << >>
          /\ \A d \in Conns : d # c => peer'[d] = peer[d] /\ named'[d] = named[d]
      BY <2>1 DEF Types
    <2>7. \A k \in 1 .. Len(backlog) : backlog[k] # c
      BY <2>1 DEF Owners
    <2>8. \A i \in Active' : /\ peer'[ConnOf(i)] # "off"
                             /\ clients'[i].name = named'[ConnOf(i)]
      BY <1>s, <2>2, <2>3, <2>5, <2>6 DEF Owners
    <2>9. \A k \in 1 .. Len(backlog) : /\ peer'[backlog[k]] # "off"
                                       /\ named'[backlog[k]] = << >>
      BY <1>t, <2>6, <2>7 DEF Owners
    <2> QED BY <2>1, <2>3, <2>5, <2>6, <2>8, <2>9 DEF Owners
  <1> QED BY <1>1, <1>2, <1>3, <1>4, <1>5, <1>6, SeatCases

\* What select() reported is still true of every slot the loop has not read:
\* a reported descriptor was open then, so accept() cannot have returned it
\* since, and only the slot being read loses bytes.
Fresh ==
    /\ pc = "accept" => \A f \in Fds : f \in readfds => fds[f] # NoConn
    /\ pc \in {"accept", "read"} => \A i \in Unread : Readable(ConnOf(i))
    /\ Busy => \A i \in Unread : i > cur => Readable(ConnOf(i))

LEMMA FreshStep ==
  ASSUME Types, PcOK, Matched, Owners, Fresh, Next
  PROVE  Fresh'
  <1> USE ServerAssumption DEF server, network, history
  <1>s. \A i \in Active : /\ i \in Slots /\ clients[i].socket \in Fds
                         /\ ConnOf(i) \in Conns
    BY DEF Matched, Active
  <1>1. CASE Select
    <2>1. \A f \in Fds : f \in readfds' => \E j \in Active : f = clients[j].socket /\ Readable(ConnOf(j))
      BY <1>1 DEF Select, Ready, LISTEN, Fds
    <2>2. pc' \in {"accept", "read"} /\ cur' = 0 /\ UNCHANGED <<clients, fds, inbox, peer>>
      BY <1>1 DEF Select
    <2>3. \A j \in Active : clients[j].socket \in readfds' => Readable(ConnOf(j))
      BY <1>s, <2>1 DEF Matched
    <2>4. \A f \in Fds : f \in readfds' => fds[f] # NoConn
      BY <1>s, <2>1 DEF ConnOf
    <2> QED BY <2>2, <2>3, <2>4 DEF Fresh, Busy, Unread, Active, ConnOf,
       Readable
  <1>2. CASE SelectNothing
    BY <1>2 DEF SelectNothing, NextFrame, Fresh, Busy, Unread, Active, ConnOf,
       Readable
  <1>3. CASE AcceptFails
    BY <1>3 DEF AcceptFails, Fresh, Busy, Unread, Active, ConnOf, Readable
  <1>4. CASE Reject
    <2>1. \A i \in Active : ConnOf(i) # Head(backlog)
      BY <1>4, HeadOfBacklog DEF Owners, Reject, PcOK
    <2>2. \A d \in Conns : d # Head(backlog) => inbox'[d] = inbox[d] /\ peer'[d] = peer[d]
      BY <1>4 DEF Reject, Forget, Types
    <2> QED BY <1>4, <1>s, <2>1, <2>2 DEF Reject, Fresh, Busy, Unread, Active,
       ConnOf, Readable
  <1>5. ASSUME NEW i \in Slots, NEW f \in Fds, Seat(i, f) PROVE Fresh'
    <2>1. /\ pc = "accept" /\ pc' = "read" /\ fds[f] = NoConn /\ i \notin Active
          /\ UNCHANGED <<readfds, cur, peer, inbox>>
      BY <1>5 DEF Seat, Lowest, FreeFds, FreeSlots
    <2>2. f \notin readfds
      BY <2>1 DEF Fresh
    <2>3. clients'[i].socket = f /\ \A j \in Slots : j # i => clients'[j] = clients[j]
      BY <1>5 DEF Seat, Client, Types
    <2>4. \A g \in Fds : g # f => fds'[g] = fds[g]
      BY <1>5 DEF Seat, Types
    <2>5. \A j \in Unread' : j \in Unread /\ j # i
      BY <2>1, <2>2, <2>3 DEF Unread, Active
    <2>6. \A j \in Unread' : ConnOf(j)' = ConnOf(j)
      BY <1>s, <2>1, <2>2, <2>3, <2>4, <2>5 DEF Unread, ConnOf
    <2> QED BY <2>1, <2>5, <2>6 DEF Fresh, Busy, Readable
  <1>6. CASE EndFrame
    BY <1>6 DEF EndFrame, NextFrame, Fresh, Busy, Unread, Active, ConnOf,
       Readable
  <1>7. ASSUME NEW i \in Slots, ReadClientMessage(i) PROVE Fresh'
    <2>1. /\ pc = "read" /\ i \in Active /\ ConnOf(i) \in Conns
          /\ i \in Unread /\ \A j \in Unread : i <= j
          /\ UNCHANGED <<readfds, fds>>
          /\ \A d \in Conns : d # ConnOf(i) => inbox'[d] = inbox[d]
          /\ SameUp(peer, peer')
          /\ Connected(i) \/ Announced(i) \/ LeftUnnamed(i) \/ Ignored(i)
      BY <1>7, ReadFacts
    <2>2. \/ pc' \in {"welcome", "send", "drop"} /\ cur' = i
          \/ pc' = "read" /\ cur' = i + 1
      BY <2>1 DEF Connected, Announced, LeftUnnamed, Ignored
    <2>3. \A j \in Slots : /\ clients'[j].active = clients[j].active
                            /\ clients'[j].socket = clients[j].socket
      <3>1. CASE Connected(i)
        <4>1. PICK name \in Seq(Bytes) :
                 clients' = [clients EXCEPT ![i] = Client(clients[i].socket, name)]
          BY <3>1 DEF Connected
        <4> QED BY <2>1, <4>1 DEF Client, Types, Active
      <3>2. CASE ~Connected(i)
        BY <2>1, <3>2 DEF Announced, LeftUnnamed, Ignored
      <3> QED BY <3>1, <3>2
    <2>4. \A j \in Active : j # i /\ Readable(ConnOf(j)) => Readable(ConnOf(j))'
      <3> SUFFICES ASSUME NEW j \in Active, j # i, Readable(ConnOf(j))
                   PROVE  Readable(ConnOf(j))'
        OBVIOUS
      <3>1. ConnOf(j) # ConnOf(i) /\ ConnOf(j) \in Conns
        BY <1>s, <2>1 DEF Owners
      <3>2. ConnOf(j)' = ConnOf(j)
        BY <1>s, <2>1, <2>3 DEF ConnOf
      <3> QED BY <2>1, <3>1, <3>2 DEF Readable, SameUp
    <2>5. Active' = Active
      BY <2>3 DEF Active
    <2>6. i \in Int /\ \A j \in Slots : j \in Int
      BY DEF Slots
    <2>7. \A j \in Active : j \in Slots /\ j >= i /\ clients[j].socket \in readfds => j \in Unread
      BY <2>1, <2>6 DEF Unread, Types
    <2>8. \A j \in Unread' : j > i => j \in Unread /\ j # i /\ j \in Active
      <3> SUFFICES ASSUME NEW j \in Unread', j > i
                   PROVE  j \in Unread /\ j # i /\ j \in Active
        OBVIOUS
      <3>1. j \in Active' /\ clients'[j].socket \in readfds'
        BY DEF Unread
      <3>2. j \in Active /\ j \in Slots /\ clients[j].socket \in readfds
        BY <1>s, <2>1, <2>3, <2>5, <3>1
      <3> QED BY <2>6, <2>7, <3>2
    <2>9. \A j \in Unread' : j > i => Readable(ConnOf(j))'
      BY <2>1, <2>4, <2>8 DEF Fresh
    <2>10. \A j \in Unread' : j \in Int /\ j >= cur'
      BY <2>6 DEF Unread, Active
    <2>11. CASE pc' \in {"welcome", "send", "drop"} /\ cur' = i
      BY <2>9, <2>11 DEF Fresh, Busy
    <2>12. CASE pc' = "read" /\ cur' = i + 1
      <3>1. \A j \in Unread' : j > i
        BY <2>6, <2>10, <2>12
      <3> QED BY <2>9, <2>12, <3>1 DEF Fresh, Busy
    <2> QED BY <2>2, <2>11, <2>12
  <1>8. CASE SendWelcome
    <2>1. CASE Killed
      BY <2>1 DEF Killed, Fresh, Busy
    <2>2. CASE ~Killed
      <3>1. /\ pc = "welcome" /\ Sent(ConnOf(cur)) /\ pc' = "send" /\ cur' = cur
        BY <1>8, <2>2, WelcomeFacts
      <3>2. \A j \in Active : Readable(ConnOf(j)) => Readable(ConnOf(j))'
        BY <1>s, <3>1 DEF Sent, SameUp, Readable, ConnOf
      <3> QED BY <3>1, <3>2 DEF Sent, Fresh, Busy, Unread, Active
    <2> QED BY <2>1, <2>2
  <1>9. ASSUME NEW i \in Slots, BroadcastMessage(i) PROVE Fresh'
    <2>1. CASE Killed
      BY <2>1 DEF Killed, Fresh, Busy
    <2>2. CASE ~Killed
      <3>1. pc = "send" /\ Sent(ConnOf(i)) /\ AfterSend(i) /\ cur \in Active
        BY <1>9, <2>2, BroadcastFacts
      <3>2. \A j \in Active : Readable(ConnOf(j)) => Readable(ConnOf(j))'
        BY <1>s, <3>1 DEF Sent, SameUp, Readable, ConnOf
      <3>3. CASE pc' \in {"send", "drop"} /\ cur' = cur
        BY <3>1, <3>2, <3>3 DEF Sent, Fresh, Busy, Unread, Active
      <3>4. CASE pc' = "read" /\ cur' = cur + 1
        <4>1. \A j \in Unread' : j \in Unread /\ j > cur
          BY <3>1, <3>4 DEF Sent, Unread, Active, Slots
        <4> QED BY <3>1, <3>2, <3>4, <4>1 DEF Sent, Fresh, Busy, Unread, Active
      <3> QED BY <3>1, <3>3, <3>4 DEF AfterSend
    <2> QED BY <2>1, <2>2
  <1>10. CASE CloseClient
    <2>1. /\ pc = "drop" /\ pc' = "read" /\ cur' = cur + 1 /\ cur \in Active
          /\ UNCHANGED readfds
      BY <1>10 DEF CloseClient, PcOK, Busy
    <2>2. /\ clients'[cur] = FreeSlot
          /\ \A j \in Slots : j # cur => clients'[j] = clients[j]
      BY <1>10, <2>1, <1>s DEF CloseClient, Types
    <2>3. \A g \in Fds : g # clients[cur].socket => fds'[g] = fds[g]
      BY <1>10, <2>1, <1>s DEF CloseClient, Types
    <2>4. \A d \in Conns : d # ConnOf(cur) => inbox'[d] = inbox[d] /\ peer'[d] = peer[d]
      BY <1>10 DEF CloseClient, Forget, Types
    <2>5. \A j \in Unread' : j \in Unread /\ j > cur /\ j \in Active
      BY <2>1, <2>2, <1>s DEF Unread, Active, Slots, FreeSlot
    <2>6. \A j \in Active : j # cur => ConnOf(j) # ConnOf(cur) /\ ConnOf(j)' = ConnOf(j)
      BY <1>s, <2>1, <2>2, <2>3 DEF Owners, Matched, ConnOf
    <2>7. \A j \in Unread' : Readable(ConnOf(j))'
      <3> SUFFICES ASSUME NEW j \in Unread' PROVE Readable(ConnOf(j))'
        OBVIOUS
      <3>1. Readable(ConnOf(j)) /\ j # cur /\ j \in Active
        BY <2>1, <2>5 DEF Fresh, Busy, Active, Slots
      <3> QED BY <1>s, <2>4, <2>6, <3>1 DEF Readable
    <2> QED BY <2>1, <2>7 DEF Fresh, Busy
  <1>11. ASSUME NEW c \in Conns, PeerConnect(c) PROVE Fresh'
    <2>1. \A d \in Conns : d # c => peer'[d] = peer[d]
      BY <1>11 DEF PeerConnect, Types
    <2>2. \A j \in Active : ConnOf(j) # c
      BY <1>11 DEF PeerConnect, Owners
    <2>3. \A j \in Active : Readable(ConnOf(j)) => Readable(ConnOf(j))'
      BY <1>11, <1>s, <2>1, <2>2 DEF PeerConnect, Readable, ConnOf
    <2> QED BY <1>11, <2>3 DEF PeerConnect, Fresh, Busy, Unread, Active
  <1>12. ASSUME NEW c \in Conns, NEW r \in Requests, PeerSend(c, r) PROVE Fresh'
    <2>1. inbox[c] # << >> => inbox'[c] # << >>
      <3>1. inbox[c] \in Seq(Bytes) /\ r \in Seq(Bytes)
        BY DEF Types
      <3>2. inbox'[c] = inbox[c] \o r
        BY <1>12 DEF PeerSend, Types
      <3> QED BY <3>1, <3>2, ConcatEqualIffEmpty
    <2>2. \A d \in Conns : d # c => inbox'[d] = inbox[d]
      BY <1>12 DEF PeerSend, Types
    <2>3. \A j \in Active : Readable(ConnOf(j)) => Readable(ConnOf(j))'
      BY <1>12, <1>s, <2>1, <2>2 DEF PeerSend, Readable, ConnOf
    <2> QED BY <1>12, <2>3 DEF PeerSend, Fresh, Busy, Unread, Active
  <1>13. ASSUME NEW c \in Conns, PeerRecv(c) PROVE Fresh'
    BY <1>13 DEF PeerRecv, Fresh, Busy, Unread, Active, ConnOf, Readable
  <1>14. ASSUME NEW c \in Conns, PeerClose(c) PROVE Fresh'
    <2>1. \A j \in Active : Readable(ConnOf(j)) => Readable(ConnOf(j))'
      BY <1>14, <1>s DEF PeerClose, Readable, ConnOf, Types
    <2> QED BY <1>14, <2>1 DEF PeerClose, Fresh, Busy, Unread, Active
  <1>15. ASSUME NEW c \in Conns, PeerReset(c) PROVE Fresh'
    <2>1. \A j \in Active : Readable(ConnOf(j)) => Readable(ConnOf(j))'
      BY <1>15, <1>s DEF PeerReset, Readable, ConnOf, Types
    <2> QED BY <1>15, <2>1 DEF PeerReset, Fresh, Busy, Unread, Active
  <1>16. CASE SigHandler
    BY <1>16 DEF SigHandler, Fresh, Busy, Unread, Active, ConnOf, Readable
  <1>17. CASE Terminated
    BY <1>17 DEF Terminated, vars, Fresh, Busy, Unread, Active, ConnOf, Readable
  <1> QED
    BY <1>1, <1>2, <1>3, <1>4, <1>5, <1>6, <1>7, <1>8, <1>9, <1>10, <1>11,
       <1>12, <1>13, <1>14, <1>15, <1>16, <1>17
    DEF Next, ServerStep, PeerStep

(* Rosters.  Told( i ) is what the client in slot i will have heard when    *)
(* the broadcast under way is over.                                         *)

Up == {i \in Active : peer[ConnOf(i)] = "up"}

Told(i) == IF i \in sendTo THEN After(heard[ConnOf(i)], msg)
                           ELSE heard[ConnOf(i)]

\* A connection without a slot has heard nothing.
Unheard ==
    /\ \A k \in 1 .. Len(backlog) : heard[backlog[k]] = {}
    /\ \A c \in Conns : peer[c] = "off" => heard[c] = {}

Nested == \A i, j \in Up : Told(i) \subseteq Told(j) \/ Told(j) \subseteq Told(i)

LeaveTold ==
    /\ pc = "send" /\ msg.type = "USERLEAVE" => \A i \in Up : cur \notin Told(i)
    /\ pc = "drop" /\ clients[cur].name # << >> =>
           \A i \in Up : cur \notin heard[ConnOf(i)]

\* Nothing anyone has been told changes, or everyone is told the same m ...
Kept    == \A i \in Up' : i \in Up /\ Told(i)' = Told(i)
Told2(m) == \A i \in Up' : i \in Up /\ Told(i)' = After(Told(i), m)
\* ... or slot i is new and has been told nothing.
Newcomer(i) == Told(i)' = {} /\ \A j \in Up' : j = i \/ (j \in Up /\ Told(j)' = Told(j))

RosterStep == Kept \/ (\E m : Told2(m)) \/ (\E i \in Slots : Newcomer(i))

LEMMA AcceptedSaysNothing ==
  ASSUME Types, PcOK, pc = "welcome", NEW roster
  PROVE  After(roster, msg) = roster
  BY DEF PcOK, After

LEMMA RosterCases ==
  ASSUME Types, PcOK, Matched, Owners, Unheard, Next
  PROVE  RosterStep
  <1> USE ServerAssumption DEF server, network, history
  <1>s. \A i \in Active : i \in Slots /\ clients[i].socket \in Fds /\ ConnOf(i) \in Conns
    BY DEF Matched, Active
  <1>1. CASE Select
    BY <1>1 DEF Select, RosterStep, Kept, Up, Told, Active, ConnOf
  <1>2. CASE SelectNothing
    BY <1>2 DEF SelectNothing, RosterStep, Kept, Up, Told, Active, ConnOf
  <1>3. CASE AcceptFails
    BY <1>3 DEF AcceptFails, RosterStep, Kept, Up, Told, Active, ConnOf
  <1>4. CASE Reject
    <2>1. \A i \in Active : ConnOf(i) # Head(backlog)
      BY <1>4, HeadOfBacklog DEF Owners, Reject, PcOK
    <2>2. \A d \in Conns : d # Head(backlog) => heard'[d] = heard[d] /\ peer'[d] = peer[d]
      BY <1>4 DEF Reject, Forget, Types
    <2>3. UNCHANGED <<clients, fds, sendTo, msg>>
      BY <1>4 DEF Reject
    <2>4. Kept
      BY <1>s, <2>1, <2>2, <2>3 DEF Kept, Up, Told, Active, ConnOf
    <2> QED BY <2>4 DEF RosterStep
  <1>5. ASSUME NEW i \in Slots, NEW f \in Fds, Seat(i, f) PROVE RosterStep
    <2>1. /\ fds[f] = NoConn /\ i \notin Active /\ sendTo = {} /\ backlog # << >>
          /\ UNCHANGED <<sendTo, msg, peer, heard>>
      BY <1>5 DEF Seat, Lowest, FreeFds, FreeSlots, PcOK, Stopped
    <2>2. clients'[i].socket = f /\ \A j \in Slots : j # i => clients'[j] = clients[j]
      BY <1>5 DEF Seat, Client, Types
    <2>3. fds'[f] = Head(backlog) /\ \A g \in Fds : g # f => fds'[g] = fds[g]
      BY <1>5 DEF Seat, Types
    <2>4. Told(i)' = {}
      BY <2>1, <2>2, <2>3, HeadOfBacklog DEF Told, ConnOf, Unheard
    <2>5. \A j \in Active : j # i /\ ConnOf(j)' = ConnOf(j)
      BY <1>s, <2>1, <2>2, <2>3 DEF ConnOf
    <2>6. \A j \in Active' : j = i \/ j \in Active
      BY <2>2 DEF Active
    <2>7. \A j \in Up' : j = i \/ (j \in Up /\ Told(j)' = Told(j))
      BY <2>1, <2>5, <2>6 DEF Up, Told
    <2> QED BY <2>4, <2>7 DEF RosterStep, Newcomer
  <1>6. CASE EndFrame
    BY <1>6 DEF EndFrame, RosterStep, Kept, Up, Told, Active, ConnOf
  <1>7. ASSUME NEW i \in Slots, ReadClientMessage(i) PROVE RosterStep
    <2>1. /\ pc = "read" /\ i \in Active /\ sendTo = {}
          /\ UNCHANGED <<fds, heard>>
          /\ SameUp(peer, peer')
          /\ Connected(i) \/ Announced(i) \/ LeftUnnamed(i) \/ Ignored(i)
      BY <1>7, ReadFacts DEF PcOK, Stopped
    <2>2. CASE Connected(i)
      <3>1. PICK name \in Seq(Bytes) :
               clients' = [clients EXCEPT ![i] = Client(clients[i].socket, name)]
        BY <2>2 DEF Connected
      <3>2. \A j \in Slots : /\ clients'[j].active = clients[j].active
                            /\ clients'[j].socket = clients[j].socket
        BY <2>1, <3>1 DEF Client, Types, Active
      <3>3. sendTo' = {} /\ UNCHANGED peer
        BY <2>1, <2>2 DEF Connected
      <3>4. Kept
        BY <1>s, <2>1, <3>2, <3>3 DEF Kept, Up, Told, Active, ConnOf
      <3> QED BY <3>4 DEF RosterStep
    <2>3. CASE Announced(i)
      <3>1. sendTo' = Active /\ UNCHANGED clients
        BY <2>3 DEF Announced
      <3>2. Told2(msg')
        BY <1>s, <2>1, <3>1 DEF Told2, SameUp, Up, Told, Active, ConnOf
      <3> QED BY <3>2 DEF RosterStep
    <2>4. CASE LeftUnnamed(i) \/ Ignored(i)
      <3>1. UNCHANGED <<clients, msg, sendTo>>
        BY <2>4 DEF LeftUnnamed, Ignored
      <3>2. Kept
        BY <1>s, <2>1, <3>1 DEF SameUp, Kept, Up, Told, Active, ConnOf
      <3> QED BY <3>2 DEF RosterStep
    <2> QED BY <2>1, <2>2, <2>3, <2>4
  <1>8. CASE SendWelcome
    <2>1. CASE Killed
      BY <2>1 DEF Killed, RosterStep, Kept, Up, Told, Active, ConnOf
    <2>2. CASE ~Killed
      <3>1. /\ pc = "welcome" /\ cur \in Active /\ Sent(ConnOf(cur))
            /\ sendTo = {} /\ sendTo' = Active
        BY <1>8, <2>2, WelcomeFacts DEF PcOK, Stopped
      <3>2. \A i \in Up : heard'[ConnOf(i)] = heard[ConnOf(i)]
        BY <1>s, <3>1, AcceptedSaysNothing DEF Sent, HeardBy, Up
      <3>3. \A i \in Up' : i \in Up /\ ConnOf(i)' = ConnOf(i) /\ i \in Active
        BY <1>s, <3>1 DEF Sent, SameUp, Up, ConnOf, Active
      <3>4. Told2(msg')
        BY <3>1, <3>2, <3>3 DEF Told2, Told
      <3> QED BY <3>4 DEF RosterStep
    <2> QED BY <2>1, <2>2
  <1>9. ASSUME NEW i \in Slots, BroadcastMessage(i) PROVE RosterStep
    <2>1. CASE Killed
      BY <2>1 DEF Killed, RosterStep, Kept, Up, Told, Active, ConnOf
    <2>2. CASE ~Killed
      <3>1. /\ pc = "send" /\ i \in sendTo /\ i \in Active /\ Sent(ConnOf(i))
            /\ sendTo' = sendTo \ {i}
            /\ sendTo' # {} => msg' = msg
        BY <1>9, <2>2, BroadcastFacts DEF AfterSend
      <3>2. \A j \in Up' : j \in Up /\ ConnOf(j)' = ConnOf(j) /\ j \in Active
        BY <1>s, <3>1 DEF Sent, SameUp, Up, ConnOf, Active
      <3>3. \A j \in Up : j # i => heard'[ConnOf(j)] = heard[ConnOf(j)]
        BY <1>s, <3>1 DEF Sent, HeardBy, Up, Owners
      <3>4. i \in Up => heard'[ConnOf(i)] = After(heard[ConnOf(i)], msg)
        BY <3>1 DEF Sent, HeardBy, Up
      <3>5. Kept
        BY <3>1, <3>2, <3>3, <3>4 DEF Kept, Told
      <3> QED BY <3>5 DEF RosterStep
    <2> QED BY <2>1, <2>2
  <1>10. CASE CloseClient
    <2>1. /\ cur \in Active /\ sendTo = {} /\ sendTo' = {}
      BY <1>10 DEF CloseClient, PcOK, Busy, Stopped
    <2>2. /\ clients'[cur] = FreeSlot
          /\ \A j \in Slots : j # cur => clients'[j] = clients[j]
      BY <1>10, <2>1, <1>s DEF CloseClient, Types
    <2>3. \A g \in Fds : g # clients[cur].socket => fds'[g] = fds[g]
      BY <1>10, <2>1, <1>s DEF CloseClient, Types
    <2>4. \A d \in Conns : d # ConnOf(cur) => heard'[d] = heard[d] /\ peer'[d] = peer[d]
      BY <1>10 DEF CloseClient, Forget, Types
    <2>5. \A j \in Active' : j \in Active /\ j # cur
      BY <2>2 DEF Active, FreeSlot
    <2>6. \A j \in Active : j # cur => ConnOf(j) # ConnOf(cur) /\ ConnOf(j)' = ConnOf(j)
      BY <1>s, <2>1, <2>2, <2>3 DEF Owners, Matched, ConnOf
    <2>7. Kept
      BY <1>s, <2>1, <2>4, <2>5, <2>6 DEF Kept, Up, Told
    <2> QED BY <2>7 DEF RosterStep
  <1>11. ASSUME NEW c \in Conns, PeerConnect(c) PROVE RosterStep
    <2>1. \A d \in Conns : d # c => peer'[d] = peer[d]
      BY <1>11 DEF PeerConnect, Types
    <2>2. \A j \in Active : ConnOf(j) # c
      BY <1>11 DEF PeerConnect, Owners
    <2>3. Kept
      BY <1>11, <1>s, <2>1, <2>2 DEF PeerConnect, Kept, Up, Told, Active, ConnOf
    <2> QED BY <2>3 DEF RosterStep
  <1>12. ASSUME NEW c \in Conns, NEW r \in Requests, PeerSend(c, r) PROVE
     RosterStep
    BY <1>12 DEF PeerSend, RosterStep, Kept, Up, Told, Active, ConnOf
  <1>13. ASSUME NEW c \in Conns, PeerRecv(c) PROVE RosterStep
    BY <1>13 DEF PeerRecv, RosterStep, Kept, Up, Told, Active, ConnOf
  <1>14. ASSUME NEW c \in Conns, PeerClose(c) PROVE RosterStep
    BY <1>14, <1>s DEF PeerClose, RosterStep, Types, Kept, Up, Told, Active,
       ConnOf
  <1>15. ASSUME NEW c \in Conns, PeerReset(c) PROVE RosterStep
    BY <1>15, <1>s DEF PeerReset, RosterStep, Types, Kept, Up, Told, Active,
       ConnOf
  <1>16. CASE SigHandler
    BY <1>16 DEF SigHandler, RosterStep, Kept, Up, Told, Active, ConnOf
  <1>17. CASE Terminated
    BY <1>17 DEF Terminated, vars, RosterStep, Kept, Up, Told, Active, ConnOf
  <1> QED
    BY <1>1, <1>2, <1>3, <1>4, <1>5, <1>6, <1>7, <1>8, <1>9, <1>10, <1>11,
       <1>12, <1>13, <1>14, <1>15, <1>16, <1>17
    DEF Next, ServerStep, PeerStep

LEMMA NestedStep ==
  ASSUME Types, PcOK, Matched, Owners, Unheard, Nested, Next
  PROVE  Nested'
  <1>1. CASE Kept
    BY <1>1 DEF Kept, Nested
  <1>2. ASSUME NEW m, Told2(m) PROVE Nested'
    <2>1. \A A, B : A \subseteq B => After(A, m) \subseteq After(B, m)
      BY DEF After
    <2> QED BY <1>2, <2>1 DEF Told2, Nested
  <1>3. ASSUME NEW i \in Slots, Newcomer(i) PROVE Nested'
    BY <1>3 DEF Newcomer, Nested
  <1> QED BY <1>1, <1>2, <1>3, RosterCases DEF RosterStep

LEMMA HeardCases ==
  ASSUME Types, PcOK, Matched, Next
  PROVE  \/ UNCHANGED heard
         \/ \E i \in Active : Sent(ConnOf(i))
         \/ Reject
         \/ CloseClient
  <1> USE DEF server, network, history
  <1>1. CASE Select \/ SelectNothing \/ AcceptFails \/ EndFrame \/ SigHandler
             \/ Terminated \/ \E i \in Slots, f \in Fds : Seat(i, f)
    BY <1>1 DEF Select, SelectNothing, AcceptFails, EndFrame, SigHandler, Seat,
                Terminated, vars
  <1>2. CASE \E i \in Slots : ReadClientMessage(i)
    BY <1>2, ReadFacts
  <1>3. CASE SendWelcome
    BY <1>3, WelcomeFacts DEF Killed
  <1>4. CASE \E i \in Slots : BroadcastMessage(i)
    BY <1>4, BroadcastFacts DEF Killed
  <1>5. CASE PeerStep
    BY <1>5 DEF PeerStep, PeerRecv, PeerClose, PeerReset, PeerSend, PeerConnect
  <1> QED BY <1>1, <1>2, <1>3, <1>4, <1>5 DEF Next, ServerStep

LEMMA UnheardStep ==
  ASSUME Types, PcOK, Matched, Owners, Unheard, Next
  PROVE  Unheard'
  <1>s. \A i \in Active : /\ i \in Slots /\ clients[i].socket \in Fds
                         /\ ConnOf(i) \in Conns
    BY DEF Matched, Active
  <1>t. \A k \in 1 .. Len(backlog) : backlog[k] \in Conns
    BY ElementOfSeq DEF Types
  <1>1. CASE Reject
    <2> DEFINE c == Head(backlog)
    <2>1. /\ backlog # << >> /\ backlog' = Tail(backlog)
          /\ peer' = [peer EXCEPT ![c] = "off"]
          /\ heard' = [heard EXCEPT ![c] = {}]
      BY <1>1 DEF Reject, Forget, PcOK
    <2>2. \A d \in Conns : heard'[d] = (IF d = c THEN {} ELSE heard[d])
      BY <2>1 DEF Types
    <2>3. \A d \in Conns : d # c => peer'[d] = peer[d]
      BY <2>1 DEF Types
    <2>4. \A k \in 1 .. Len(backlog') :
             k + 1 \in 1 .. Len(backlog) /\ backlog'[k] = backlog[k + 1]
      BY <2>1, BacklogTail
    <2>5. \A k \in 1 .. Len(backlog') : heard'[backlog'[k]] = {}
      <3> SUFFICES ASSUME NEW k \in 1 .. Len(backlog')
                   PROVE  heard'[backlog'[k]] = {}
        OBVIOUS
      <3>1. PICK m \in 1 .. Len(backlog) : backlog'[k] = backlog[m]
        BY <2>4
      <3>2. backlog[m] \in Conns /\ heard[backlog[m]] = {}
        BY <1>t DEF Unheard
      <3> QED BY <2>2, <3>1, <3>2
    <2>6. \A d \in Conns : peer'[d] = "off" => heard'[d] = {}
      BY <2>2, <2>3 DEF Unheard
    <2> QED BY <2>5, <2>6 DEF Unheard
  <1>2. CASE CloseClient
    <2> DEFINE c == ConnOf(cur)
    <2>1. /\ UNCHANGED backlog
          /\ peer' = [peer EXCEPT ![c] = "off"]
          /\ heard' = [heard EXCEPT ![c] = {}]
      BY <1>2 DEF CloseClient, Forget
    <2>2. \A d \in Conns : heard'[d] = (IF d = c THEN {} ELSE heard[d])
      BY <2>1 DEF Types
    <2>3. \A d \in Conns : d # c => peer'[d] = peer[d]
      BY <2>1 DEF Types
    <2> QED BY <1>t, <2>1, <2>2, <2>3 DEF Unheard
  <1>3. ASSUME NEW i \in Active, Sent(ConnOf(i)) PROVE Unheard'
    <2>1. /\ UNCHANGED backlog
          /\ \A d \in Conns : peer'[d] = "off" <=> peer[d] = "off"
          /\ \A d \in Conns : d # ConnOf(i) => heard'[d] = heard[d]
      BY <1>3 DEF Sent, SameUp, HeardBy
    <2>2. peer[ConnOf(i)] # "off" /\ \A k \in 1 .. Len(backlog) : ConnOf(i) # backlog[k]
      BY DEF Owners
    <2> QED BY <1>t, <2>1, <2>2 DEF Unheard
  <1>4. CASE UNCHANGED heard
    <2>1. CASE Undisturbed
      BY <1>4, <2>1, <1>t DEF Undisturbed, Unheard
    <2>2. CASE \E i \in Slots : Renamed(i)
      BY <1>4, <2>2, <1>t DEF Renamed, Unheard
    <2>3. ASSUME NEW i \in Slots, NEW f \in Fds, Seat(i, f) PROVE Unheard'
      <3>1. backlog # << >> /\ backlog' = Tail(backlog) /\ UNCHANGED peer
        BY <2>3 DEF Seat, PcOK
      <3>2. \A k \in 1 .. Len(backlog') :
               k + 1 \in 1 .. Len(backlog) /\ backlog'[k] = backlog[k + 1]
        BY <3>1, BacklogTail
      <3> QED BY <1>4, <1>t, <3>1, <3>2 DEF Unheard
    <2>4. ASSUME NEW c \in Conns, PeerConnect(c) PROVE Unheard'
      <3>1. /\ peer[c] = "off" /\ backlog' = Append(backlog, c)
            /\ \A d \in Conns : d # c => peer'[d] = peer[d]
            /\ peer'[c] = "up"
        BY <2>4 DEF PeerConnect, Types
      <3>2. /\ Len(backlog) \in Nat /\ Len(backlog') = Len(backlog) + 1
            /\ \A k \in 1 .. Len(backlog) : backlog'[k] = backlog[k]
            /\ backlog'[Len(backlog) + 1] = c
        BY <3>1, AppendProperties, LenProperties DEF Types
      <3>3. \A k \in 1 .. Len(backlog') :
               k \in 1 .. Len(backlog) \/ k = Len(backlog) + 1
        BY <3>2
      <3> QED BY <1>4, <1>t, <3>1, <3>2, <3>3 DEF Unheard
    <2>5. CASE Reject \/ CloseClient
      BY <1>1, <1>2, <2>5
    <2> QED BY <2>1, <2>2, <2>3, <2>4, <2>5, SeatCases
  <1> QED BY <1>1, <1>2, <1>3, <1>4, HeardCases

LEMMA LeaveToldStep ==
  ASSUME Types, PcOK, Matched, Owners, LeaveTold, Next
  PROVE  LeaveTold'
  <1> USE ServerAssumption DEF server, network, history
  <1>s. \A i \in Active : i \in Slots /\ clients[i].socket \in Fds /\ ConnOf(i) \in Conns
    BY DEF Matched, Active
  <1>1. CASE Select
    BY <1>1 DEF Select, LeaveTold
  <1>2. CASE SelectNothing
    BY <1>2 DEF SelectNothing, NextFrame, LeaveTold
  <1>3. CASE AcceptFails
    BY <1>3 DEF AcceptFails, LeaveTold
  <1>4. CASE Reject
    BY <1>4 DEF Reject, LeaveTold
  <1>5. ASSUME NEW i \in Slots, NEW f \in Fds, Seat(i, f) PROVE LeaveTold'
    BY <1>5 DEF Seat, LeaveTold
  <1>6. CASE EndFrame
    BY <1>6 DEF EndFrame, NextFrame, LeaveTold
  <1>7. ASSUME NEW i \in Slots, ReadClientMessage(i) PROVE LeaveTold'
    <2>1. /\ i \in Active
          /\ UNCHANGED <<fds, heard>>
          /\ SameUp(peer, peer')
          /\ Connected(i) \/ Announced(i) \/ LeftUnnamed(i) \/ Ignored(i)
      BY <1>7, ReadFacts
    <2>2. CASE Announced(i)
      <3>1. PICK type \in {"CHAT", "USERLEAVE"}, text \in Seq(Bytes) :
               msg' = Message(type, i, clients[i].name, text)
        BY <2>2 DEF Announced
      <3>2. /\ pc' = "send" /\ cur' = i /\ sendTo' = Active /\ UNCHANGED clients
            /\ msg'.slot = i /\ msg'.type = type
        BY <2>2, <3>1 DEF Announced, Message
      <3>3. ASSUME type = "USERLEAVE", NEW j \in Up' PROVE i \notin Told(j)'
        <4>1. j \in sendTo' /\ ConnOf(j)' = ConnOf(j)
          BY <2>1, <3>2 DEF Up, Active, ConnOf
        <4>2. Told(j)' = After(heard[ConnOf(j)], msg')
          BY <2>1, <4>1 DEF Told
        <4> QED BY <3>2, <3>3, <4>2 DEF After
      <3> QED BY <3>2, <3>3 DEF LeaveTold
    <2>3. CASE LeftUnnamed(i)
      BY <2>3 DEF LeftUnnamed, LeaveTold
    <2>4. CASE Connected(i) \/ Ignored(i)
      BY <2>4 DEF Connected, Ignored, LeaveTold
    <2> QED BY <2>1, <2>2, <2>3, <2>4
  <1>8. CASE SendWelcome
    <2>1. CASE Killed
      BY <2>1 DEF Killed, LeaveTold
    <2>2. CASE ~Killed
      <3>1. msg' = Message("USERJOIN", cur, clients[cur].name, << >>) /\ pc' = "send"
        BY <1>8, <2>2, WelcomeFacts
      <3> QED BY <3>1 DEF Message, LeaveTold
    <2> QED BY <2>1, <2>2
  <1>9. ASSUME NEW i \in Slots, BroadcastMessage(i) PROVE LeaveTold'
    <2>1. CASE Killed
      BY <2>1 DEF Killed, LeaveTold
    <2>2. CASE ~Killed
      <3>1. /\ pc = "send" /\ i \in sendTo /\ i \in Active /\ Sent(ConnOf(i))
            /\ AfterSend(i)
            /\ msg.slot = cur
        BY <1>9, <2>2, BroadcastFacts DEF PcOK
      <3>2. \A j \in Up' : j \in Up /\ ConnOf(j)' = ConnOf(j) /\ j \in Active
        BY <1>s, <3>1 DEF Sent, SameUp, Up, ConnOf, Active
      <3>3. \A j \in Up : j # i => heard'[ConnOf(j)] = heard[ConnOf(j)]
        BY <1>s, <3>1 DEF Sent, HeardBy, Up, Owners
      <3>4. i \in Up => heard'[ConnOf(i)] = After(heard[ConnOf(i)], msg)
        BY <3>1 DEF Sent, HeardBy, Up
      <3>5. UNCHANGED clients /\ sendTo' = sendTo \ {i}
        BY <3>1 DEF Sent, AfterSend
      <3>6. CASE UNCHANGED <<pc, msg, cur>>
        <4>1. \A j \in Up' : Told(j)' = Told(j)
          BY <3>1, <3>2, <3>3, <3>4, <3>5, <3>6 DEF Told
        <4> QED BY <3>1, <3>2, <3>6, <4>1 DEF LeaveTold
      <3>7. CASE sendTo = {i} /\ msg.type = "USERLEAVE" /\ pc' = "drop" /\ UNCHANGED cur
        <4>1. \A j \in Up' : heard'[ConnOf(j)'] = Told(j)
          BY <3>1, <3>2, <3>3, <3>4, <3>5, <3>7 DEF Told
        <4> QED BY <3>1, <3>2, <3>7, <4>1 DEF LeaveTold
      <3>8. CASE pc' = "read"
        BY <3>8 DEF LeaveTold
      <3> QED BY <3>1, <3>6, <3>7, <3>8 DEF AfterSend
    <2> QED BY <2>1, <2>2
  <1>10. CASE CloseClient
    BY <1>10 DEF CloseClient, LeaveTold
  <1>11. ASSUME NEW c \in Conns, PeerConnect(c) PROVE LeaveTold'
    <2>1. \A d \in Conns : d # c => peer'[d] = peer[d]
      BY <1>11 DEF PeerConnect, Types
    <2>2. \A j \in Active : ConnOf(j) # c
      BY <1>11 DEF PeerConnect, Owners
    <2>3. \A j \in Up' : j \in Up
      BY <1>11, <1>s, <2>1, <2>2 DEF PeerConnect, Up, Active, ConnOf
    <2> QED BY <1>11, <2>3 DEF PeerConnect, LeaveTold, Told, ConnOf
  <1>12. ASSUME NEW c \in Conns, NEW r \in Requests, PeerSend(c, r) PROVE
     LeaveTold'
    <2>1. UNCHANGED <<server, fds, peer, heard>>
      BY <1>12 DEF PeerSend
    <2> QED BY <2>1 DEF LeaveTold, Up, Told, Active, ConnOf
  <1>13. ASSUME NEW c \in Conns, PeerRecv(c) PROVE LeaveTold'
    <2>1. UNCHANGED <<server, fds, peer, heard>>
      BY <1>13 DEF PeerRecv
    <2> QED BY <2>1 DEF LeaveTold, Up, Told, Active, ConnOf
  <1>14. ASSUME NEW c \in Conns, PeerClose(c) PROVE LeaveTold'
    <2>1. \A j \in Up' : j \in Up
      BY <1>14, <1>s DEF PeerClose, Up, Active, ConnOf, Types
    <2> QED BY <1>14, <2>1 DEF PeerClose, LeaveTold, Told, ConnOf
  <1>15. ASSUME NEW c \in Conns, PeerReset(c) PROVE LeaveTold'
    <2>1. \A j \in Up' : j \in Up
      BY <1>15, <1>s DEF PeerReset, Up, Active, ConnOf, Types
    <2> QED BY <1>15, <2>1 DEF PeerReset, LeaveTold, Told, ConnOf
  <1>16. CASE SigHandler
    BY <1>16 DEF SigHandler, Up, Told, Active, ConnOf, LeaveTold
  <1>17. CASE Terminated
    BY <1>17 DEF Terminated, vars, Up, Told, Active, ConnOf, LeaveTold
  <1> QED
    BY <1>1, <1>2, <1>3, <1>4, <1>5, <1>6, <1>7, <1>8, <1>9, <1>10, <1>11,
       <1>12, <1>13, <1>14, <1>15, <1>16, <1>17
    DEF Next, ServerStep, PeerStep

-----------------------------------------------------------------------------
(* The theorems. *)

IInv ==
    /\ Types /\ PcOK /\ Matched /\ Counted /\ Owners /\ Fresh
    /\ Unheard /\ Nested /\ LeaveTold

LEMMA InitInv == Init => IInv
  <1> SUFFICES ASSUME Init PROVE IInv
    OBVIOUS
  <1>1. Types /\ PcOK /\ Matched
    BY InitTypes
  <1>2. Active = {} /\ Up = {} /\ Unread = {}
    BY DEF Init, Active, Up, Unread, FreeSlot
  <1>3. Counted
    BY <1>2, FS_EmptySet DEF Counted, Init
  <1>4. Len(backlog) = 0
    BY DEF Init
  <1>5. Owners /\ Unheard
    BY <1>2, <1>4 DEF Owners, Unheard, Init
  <1>6. Fresh /\ Nested /\ LeaveTold
    BY <1>2 DEF Fresh, Busy, Nested, LeaveTold, Init
  <1> QED BY <1>1, <1>3, <1>5, <1>6 DEF IInv

LEMMA StutterInv == IInv /\ UNCHANGED vars => IInv'
  <1> SUFFICES ASSUME IInv, UNCHANGED vars PROVE IInv'
    OBVIOUS
  <1> USE DEF vars, server, network, history, IInv
  <1>1. Types'
    BY DEF Types
  <1>2. PcOK' /\ Matched' /\ Counted'
    BY DEF PcOK, Busy, Matched, Counted, Active, ConnOf
  <1>3. Owners' /\ Unheard'
    BY DEF Owners, Unheard, Active, ConnOf
  <1>4. Fresh'
    BY DEF Fresh, Busy, Unread, Readable, Active, ConnOf
  <1>5. Nested' /\ LeaveTold'
    BY DEF Nested, LeaveTold, Up, Told, Active, ConnOf
  <1> QED BY <1>1, <1>2, <1>3, <1>4, <1>5

LEMMA InvStep == IInv /\ [Next]_vars => IInv'
  <1> SUFFICES ASSUME IInv, [Next]_vars PROVE IInv'
    OBVIOUS
  <1>1. CASE Next
    <2> USE <1>1 DEF IInv
    <2>1. Types' /\ PcOK' /\ Matched'
      BY TypesStep, PcStep, MatchedStep
    <2>2. Counted' /\ Owners' /\ Fresh'
      BY CountedStep, OwnersStep, FreshStep
    <2>3. Unheard' /\ Nested' /\ LeaveTold'
      BY UnheardStep, NestedStep, LeaveToldStep
    <2> QED BY <2>1, <2>2, <2>3
  <1>2. CASE UNCHANGED vars
    BY <1>2, StutterInv
  <1> QED BY <1>1, <1>2

\* The inductive invariant of the server holds throughout.
THEOREM Invariance == Spec => []IInv
  <1> QED BY InitInv, InvStep, PTL DEF Spec

\* Type correctness, the bound on numclients included.
THEOREM TypeCorrect == Spec => []TypeOK
  <1>1. IInv => TypeOK
    BY ActiveFinite DEF IInv, Types, Counted, TypeOK
  <1> QED BY <1>1, Invariance, PTL

\* No recv() of the read loop blocks: what select() reported stays true of
\* every slot still to be read, whatever accepts and drops came in between.
THEOREM RecvNeverBlocks == Spec => []NoBlockingRecv
  <1>1. IInv => NoBlockingRecv
    BY DEF IInv, Fresh, NoBlockingRecv
  <1> QED BY <1>1, Invariance, PTL

\* No descriptor is leaked, shared or closed twice, and numclients is exact.
THEOREM NoLeak == Spec => []SocketsExact
  <1>1. IInv => SocketsExact
    BY ServerAssumption DEF IInv, Matched, Counted, SocketsExact, ConnOf
  <1> QED BY <1>1, Invariance, PTL

\* Announcements and chat carry the name the slot's occupant gave.
THEOREM NamesAreOwn == Spec => []OwnName
  <1>1. IInv => OwnName
    BY DEF IInv, PcOK, Owners, Busy, OwnName
  <1> QED BY <1>1, Invariance, PTL

\* A named client's slot is freed only after every live client was told.
THEOREM LeavesAreHeard == Spec => []LeaveIsHeard
  <1>1. IInv => LeaveIsHeard
    BY DEF IInv, PcOK, Owners, Busy, LeaveTold, Up, Seated, LeaveIsHeard
  <1> QED BY <1>1, Invariance, PTL

\* Live clients' rosters are nested whenever no broadcast is under way.
THEOREM RostersAgree == Spec => []RostersNested
  <1>1. IInv => RostersNested
    <2> SUFFICES ASSUME IInv, pc \notin {"send", "killed"} PROVE RostersNested
      BY DEF RostersNested
    <2>1. sendTo = {}
      BY DEF IInv, PcOK
    <2> QED BY <2>1 DEF IInv, Nested, Up, Told, Seated, RostersNested
  <1> QED BY <1>1, Invariance, PTL
=============================================================================
