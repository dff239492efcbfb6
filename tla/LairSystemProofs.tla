--------------------------- MODULE LairSystemProofs ---------------------------
(***************************************************************************)
(* The server among its clients is the server of LairServer: whatever      *)
(* holds of LairServer under any peers holds under these. With it, the     *)
(* types of what is on the wire and in the clients, and that the rosters   *)
(* are right about what the clients were told.                             *)
(***************************************************************************)
EXTENDS LairSystem, LairServerProofs

\* Every step of the system is a step of the server's specification.
LEMMA StepIsServerStep ==
  ASSUME SysTypeOK, [SysNext]_sysVars
  PROVE  [Next]_vars
  <1>0. \A p \in Clients : sock[p] # NoConn => sock[p] \in Conns
    BY DEF SysTypeOK
  <1>1. CASE ServerRuns
    BY <1>1 DEF ServerRuns, Next
  <1>2. ASSUME NEW p \in Clients, NEW c \in Conns, CL_Connect(p, c) PROVE Next
    BY <1>2 DEF CL_Connect, Next, PeerStep
  <1>3. ASSUME NEW p \in Clients, NEW r \in Requests, CL_Send(p, r) PROVE Next
    <2>1. sock[p] \in Conns
      BY <1>0, <1>3 DEF CL_Send
    <2>2. PICK c \in Conns : c = sock[p]
      BY <2>1
    <2>3. PeerSend(c, r)
      BY <1>3, <2>2 DEF CL_Send, PeerSend
    <2> QED BY <2>3 DEF Next, PeerStep
  <1>4. ASSUME NEW p \in Clients, CL_Disconnect(p) PROVE Next
    <2>1. sock[p] \in Conns
      BY <1>0, <1>4 DEF CL_Disconnect
    <2>2. PICK c \in Conns : c = sock[p]
      BY <2>1
    <2>3. PeerSend(c, <<"DISCONNECT">>)
      BY <1>4, <2>2 DEF CL_Disconnect, PeerSend
    <2> QED BY <2>3, SystemAssumption DEF Next, PeerStep
  <1>5. ASSUME NEW p \in Clients, Restart(p) \/ ServerClosed(p) PROVE UNCHANGED vars
    BY <1>5 DEF Restart, ServerClosed
  <1>6. ASSUME NEW p \in Clients, CL_ReadServerMessages(p) PROVE Next \/ UNCHANGED vars
    <2>1. sock[p] \in Conns
      BY <1>0, <1>6 DEF CL_ReadServerMessages
    <2>2. PICK c \in Conns : c = sock[p]
      BY <2>1
    <2>3. PeerRecv(c) \/ UNCHANGED vars
      BY <1>6, <2>2 DEF CL_ReadServerMessages, PeerRecv
    <2> QED BY <2>3 DEF Next, PeerStep
  <1>7. ASSUME NEW c \in Conns, HangUp(c) \/ AnswerLate(c) PROVE Next
    BY <1>7 DEF HangUp, AnswerLate, Next, PeerStep
  <1>8. CASE SysTerminated \/ UNCHANGED sysVars
    BY <1>8 DEF SysTerminated, sysVars
  <1> QED
    BY <1>1, <1>2, <1>3, <1>4, <1>5, <1>6, <1>7, <1>8
    DEF SysNext, ClientStep, ClientReads, KernelStep

-----------------------------------------------------------------------------
(* The types. *)

LEMMA ServerRunsTypes ==
  ASSUME SysTypeOK, Types, PcOK, ServerRuns
  PROVE  SysTypeOK'
  <1>1. UNCHANGED <<sock, list, doubt, acts>>
    BY DEF ServerRuns
  <1>2. ASSUME NEW c \in Conns, c = Recipient PROVE Note \in Notes
    <2>1. c # NoConn
      BY ServerAssumption
    <2>2. pc = "welcome" \/ pc = "send"
      BY <1>2, <2>1 DEF Recipient
    <2>3. msg \in Msgs
      BY <2>2 DEF PcOK
    <2> QED BY <2>3 DEF Msgs, Notes, Note
  <1>3. ASSUME NEW c \in Conns PROVE wire'[c] \in Seq(Notes)
    <2>1. wire[c] \in Seq(Notes)
      BY DEF SysTypeOK
    <2>2. \/ wire'[c] = << >> \/ wire'[c] = wire[c]
          \/ c = Recipient /\ wire'[c] = Append(wire[c], Note)
      BY Zenon DEF ServerRuns
    <2>3. CASE wire'[c] = << >>
      BY <2>3, EmptySeq
    <2>4. CASE wire'[c] = wire[c]
      BY <2>1, <2>4
    <2>5. CASE c = Recipient /\ wire'[c] = Append(wire[c], Note)
      <3>1. Note \in Notes
        BY <1>2, <2>5
      <3>2. Append(wire[c], Note) \in Seq(Notes)
        BY <2>1, <3>1, AppendProperties
      <3> QED BY <2>5, <3>2
    <2> QED BY <2>2, <2>3, <2>4, <2>5
  <1>4. wire' \in [Conns -> Seq(Notes)]
    <2>1. wire' = [c \in Conns |-> wire'[c]]
      BY Zenon DEF ServerRuns
    <2> QED BY <1>3, <2>1
  <1> QED BY <1>1, <1>4 DEF SysTypeOK

LEMMA ReadTypes ==
  ASSUME SysTypeOK, NEW p \in Clients, CL_ReadServerMessages(p)
  PROVE  SysTypeOK'
  <1>1. sock[p] \in Conns /\ wire[sock[p]] # << >> /\ UNCHANGED <<sock, acts>>
    BY DEF SysTypeOK, CL_ReadServerMessages
  <1>2. PICK msgs \in Seq(Notes) : msgs = wire[sock[p]]
    BY <1>1 DEF SysTypeOK
  <1>3. PICK k \in 1 .. Len(msgs) :
           /\ list' = [list EXCEPT ![p] = EntriesAfter(list[p], Head(msgs))]
           /\ doubt' = [doubt EXCEPT ![p] = (doubt[p] \ SlotsOf(msgs, 1, 1))
                                               \cup SlotsOf(msgs, 2, k)]
           /\ wire' = [wire EXCEPT ![sock[p]] = SubSeq(msgs, k + 1, Len(msgs))]
    BY <1>2 DEF CL_ReadServerMessages
  <1>4. Len(msgs) \in Nat /\ \A j \in 1 .. Len(msgs) : msgs[j] \in Notes
    BY LenProperties, ElementOfSeq
  <1>5. SubSeq(msgs, k + 1, Len(msgs)) \in Seq(Notes)
    BY <1>4, SubSeqProperties
  <1>6. Head(msgs) \in Notes
    BY <1>1, <1>2, HeadTailProperties
  <1>7. EntriesAfter(list[p], Head(msgs)) \subseteq Entries
    <2>1. PICK m \in Notes : m = Head(msgs)
      BY <1>6
    <2>2. m.slot \in Slots /\ m.name \in Seq(Bytes) /\ list[p] \subseteq Entries
      BY DEF SysTypeOK, Notes
    <2>3. [slot |-> m.slot, name |-> m.name] \in Entries
      BY <2>2 DEF Entries
    <2>4. EntriesAfter(list[p], m) \subseteq Entries
      BY <2>2, <2>3 DEF EntriesAfter
    <2> QED BY <2>1, <2>4
  <1>8. SlotsOf(msgs, 2, k) \subseteq Slots
    <2>1. \A j \in 2 .. k : msgs[j].slot \in Slots
      BY <1>4 DEF Notes
    <2> QED BY ONLY <2>1 DEF SlotsOf
  <1>9. list' \in [Clients -> SUBSET Entries]
    <2>1. list \in [Clients -> SUBSET Entries]
      BY DEF SysTypeOK
    <2> QED BY ONLY <1>3, <1>7, <2>1
  <1>10. doubt' \in [Clients -> SUBSET Slots]
    BY <1>3, <1>8 DEF SysTypeOK
  <1>11. wire' \in [Conns -> Seq(Notes)]
    BY <1>3, <1>5 DEF SysTypeOK
  <1> QED BY <1>1, <1>9, <1>10, <1>11 DEF SysTypeOK

LEMMA SysTypesStep ==
  ASSUME SysTypeOK, Types, PcOK, [SysNext]_sysVars
  PROVE  SysTypeOK'
  <1>1. CASE ServerRuns
    BY <1>1, ServerRunsTypes
  <1>2. ASSUME NEW p \in Clients, NEW c \in Conns, CL_Connect(p, c) PROVE SysTypeOK'
    <2>1. Listed(p) \subseteq Slots
      BY DEF SysTypeOK, Listed, Entries
    <2> QED BY <1>2, <2>1, SystemAssumption DEF CL_Connect, Acts, SysTypeOK
  <1>3. ASSUME NEW p \in Clients, NEW r \in Requests, CL_Send(p, r) PROVE SysTypeOK'
    BY <1>3, SystemAssumption DEF CL_Send, Acts, SysTypeOK
  <1>4. ASSUME NEW p \in Clients, CL_Disconnect(p) \/ Restart(p) \/ ServerClosed(p)
        PROVE  SysTypeOK'
    <2>1. CASE CL_Disconnect(p)
      BY <2>1 DEF CL_Disconnect, SysTypeOK
    <2>2. CASE ServerClosed(p)
      BY <2>2 DEF ServerClosed, SysTypeOK
    <2>3. CASE Restart(p)
      <3>1. /\ sock' = [sock EXCEPT ![p] = NoConn]
            /\ list' = [list EXCEPT ![p] = {}]
            /\ doubt' = [doubt EXCEPT ![p] = {}]
            /\ UNCHANGED <<wire, acts>>
        BY <2>3 DEF Restart
      <3>2. list' \in [Clients -> SUBSET Entries]
        BY <3>1 DEF SysTypeOK
      <3>3. doubt' \in [Clients -> SUBSET Slots] /\ sock' \in [Clients -> Conns \cup {NoConn}]
        BY <3>1 DEF SysTypeOK
      <3> QED BY <3>1, <3>2, <3>3 DEF SysTypeOK
    <2> QED BY <1>4, <2>1, <2>2, <2>3
  <1>5. ASSUME NEW p \in Clients, CL_ReadServerMessages(p) PROVE SysTypeOK'
    BY <1>5, ReadTypes
  <1>6. ASSUME NEW c \in Conns, HangUp(c) PROVE SysTypeOK'
    BY <1>6, EmptySeq DEF HangUp, SysTypeOK
  <1>7. ASSUME NEW c \in Conns, AnswerLate(c) PROVE SysTypeOK'
    BY <1>7 DEF AnswerLate, clientVars, SysTypeOK
  <1>8. CASE SysTerminated \/ UNCHANGED sysVars
    BY <1>8 DEF SysTerminated, sysVars, clientVars, SysTypeOK
  <1> QED
    BY <1>1, <1>2, <1>3, <1>4, <1>5, <1>6, <1>7, <1>8
    DEF SysNext, ClientStep, ClientReads, KernelStep

-----------------------------------------------------------------------------
LEMMA SysInitTypes == SysInit => SysTypeOK
  BY SystemAssumption, EmptySeq DEF SysInit, SysTypeOK

\* The types of the clients and of the wire, and the server's invariant beside
\* them.
THEOREM SystemInvariance == SysSpec => [](SysTypeOK /\ IInv)
  <1>1. SysInit => SysTypeOK /\ IInv
    BY SysInitTypes, InitInv DEF SysInit
  <1>2. SysTypeOK /\ IInv /\ [SysNext]_sysVars => (SysTypeOK /\ IInv)'
    <2> SUFFICES ASSUME SysTypeOK, IInv, [SysNext]_sysVars PROVE SysTypeOK' /\ IInv'
      OBVIOUS
    <2>1. SysTypeOK'
      BY SysTypesStep DEF IInv
    <2>2. IInv'
      BY StepIsServerStep, InvStep
    <2> QED BY <2>1, <2>2
  <1> QED BY <1>1, <1>2, PTL DEF SysSpec

\* What is on the wire and in the rosters is well formed.
THEOREM SystemTypes == SysSpec => []SysTypeOK
  <1> QED BY SystemInvariance, PTL

\* The server among its clients behaves as LairServer says.
THEOREM SystemRunsServer == SysSpec => Spec
  <1>1. SysInit => Init
    BY DEF SysInit
  <1>2. SysTypeOK /\ [SysNext]_sysVars => [Next]_vars
    BY StepIsServerStep
  <1> QED BY <1>1, <1>2, SystemTypes, PTL DEF SysSpec, Spec

-----------------------------------------------------------------------------
(* The rosters.  What a client lists is what the server told it, but for    *)
(* the words still on the wire: of those about a slot the last one counts,  *)
(* and when there is none the entry itself is the last word.                *)

About(m, i) == m.type \in {"USERJOIN", "USERLEAVE"} /\ m.slot = i

LastWord(w, h, i) ==
    About(w[h], i) /\ \A g \in h + 1 .. Len(w) : ~About(w[g], i)

\* Slot i has been given a name that connection c has not been told.
BeingTold(c, i) ==
    /\ i = cur
    /\ \/ pc = "welcome"
       \/ /\ pc = "send" /\ msg.type = "USERJOIN"
          /\ \E j \in sendTo : ConnOf(j) = c

\* The name that connection c was last given for slot i is still its name.
NameStands(c, i) == pc # "killed" /\ ~BeingTold(c, i)

OnTheWay(c, i) ==
    \A h \in 1 .. Len(wire[c]) : LastWord(wire[c], h, i) =>
        /\ wire[c][h].type = "USERJOIN" <=> i \in heard[c]
        /\ wire[c][h].type = "USERJOIN" /\ NameStands(c, i) =>
               wire[c][h].name = clients[i].name

Arrived(p, c, i) ==
    (i \notin doubt[p] /\ \A h \in 1 .. Len(wire[c]) : ~About(wire[c][h], i)) =>
        /\ i \in Listed(p) <=> i \in heard[c]
        /\ NameStands(c, i) =>
               \A e \in list[p] : e.slot = i => e.name = clients[i].name

Rosters ==
    \A p \in Clients, i \in Slots : sock[p] # NoConn =>
        OnTheWay(sock[p], i) /\ Arrived(p, sock[p], i)

\* A connection is one client's.  The server ends no connection that a client
\* owns: nothing on it begins with DISCONNECT, and no error is pending on it.
Apart ==
    \A p, q \in Clients : sock[p] # NoConn /\ sock[p] = sock[q] => p = q

Alive ==
    \A p \in Clients : sock[p] # NoConn =>
        /\ peer[sock[p]] \in {"off", "up"}
        /\ inbox[sock[p]] # << >> => inbox[sock[p]][1] # "DISCONNECT"

Leaving == pc = "drop" \/ (pc = "send" /\ msg.type = "USERLEAVE")

LeaverUnowned == Leaving => ~Owned(ConnOf(cur))

\* What has no seat has been told nothing, and what is closed is empty.
Unseated ==
    /\ \A c \in Conns \ Seated : wire[c] = << >> /\ heard[c] = {}
    /\ \A c \in Conns : peer[c] = "off" => inbox[c] = << >>

SysInv == SysTypeOK /\ IInv

Ownership == Apart /\ Alive /\ LeaverUnowned /\ Unseated

\* What a step of the server does to the connections.
LEMMA ServerPeers ==
  ASSUME Types, PcOK, Matched, Owners, ServerStep, NEW c \in Conns
  PROVE  /\ peer[c] \in {"off", "up"} => peer'[c] \in {"off", peer[c]}
         /\ peer'[c] = "off" =>
               peer[c] = "off" \/ (inbox'[c] = << >> /\ heard'[c] = {})
  <1> USE DEF server, network, history
  <1>1. CASE Select \/ SelectNothing \/ AcceptFails \/ EndFrame
             \/ \E i \in Slots, f \in Fds : Seat(i, f)
    BY <1>1 DEF Select, SelectNothing, AcceptFails, EndFrame, Seat
  <1>2. CASE SameUp(peer, peer')
    BY <1>2 DEF SameUp, Types
  <1>3. CASE \E i \in Slots : ReadClientMessage(i)
    BY <1>2, <1>3, ReadFacts
  <1>4. CASE SendWelcome
    BY <1>2, <1>4, WelcomeFacts DEF Killed, Sent, SameUp
  <1>5. CASE \E i \in Slots : BroadcastMessage(i)
    BY <1>2, <1>5, BroadcastFacts DEF Killed, Sent, SameUp
  <1>6. ASSUME NEW d \in Conns, Forget(d) PROVE
           /\ peer[c] \in {"off", "up"} => peer'[c] \in {"off", peer[c]}
           /\ peer'[c] = "off" =>
                 peer[c] = "off" \/ (inbox'[c] = << >> /\ heard'[c] = {})
    BY <1>6 DEF Forget, Types
  <1>7. CASE Reject
    <2>1. Head(backlog) \in Conns
      BY <1>7, HeadTailProperties DEF Reject, PcOK, Types
    <2> QED BY <1>6, <1>7, <2>1 DEF Reject
  <1>8. CASE CloseClient
    <2>1. ConnOf(cur) \in Conns
      BY <1>8 DEF CloseClient, PcOK, Busy, Matched
    <2> QED BY <1>6, <1>8, <2>1 DEF CloseClient
  <1> QED BY <1>1, <1>3, <1>4, <1>5, <1>7, <1>8 DEF ServerStep

\* Reading from a connection that is up and does not begin with DISCONNECT
\* does not end it.
LEMMA ReadOfLiving ==
  ASSUME Types, Matched, NEW i \in Slots, ReadClientMessage(i),
         peer[ConnOf(i)] = "up",
         inbox[ConnOf(i)] # << >> => inbox[ConnOf(i)][1] # "DISCONNECT"
  PROVE  pc' # "drop" /\ (pc' = "send" => msg'.type = "CHAT")
  <1> DEFINE c == ConnOf(i)
  <1>1. c \in Conns
    BY ReadFacts
  <1>2. ReadChunk(i)
    BY DEF ReadClientMessage, ReadEnd
  <1>3. PICK k \in 1 .. Len(inbox[c]) :
           \/ HandleConnect(i, SubSeq(inbox[c], 2, k))
           \/ HandleChat(i, SubSeq(inbox[c], 2, k))
           \/ inbox[c][1] = "DISCONNECT"
           \/ IgnoreMessage(i)
    BY <1>2 DEF ReadChunk
  <1>4. inbox[c] # << >>
    <2>1. Len(inbox[c]) >= 1
      BY <1>1, <1>3, LenProperties DEF Types
    <2> QED BY <2>1
  <1> QED
    BY <1>3, <1>4
    DEF HandleConnect, HandleChat, StartBroadcast, Message, IgnoreMessage

\* What clients and kernel do leaves the server, its table and its rosters be.
Aside ==
    /\ UNCHANGED <<server, fds, heard>>
    /\ Active' = Active /\ Seated' = Seated
    /\ \A i \in Slots : ConnOf(i)' = ConnOf(i)

LEMMA ClientsAside ==
  ASSUME SysTypeOK, ClientStep \/ KernelStep
  PROVE  Aside
  <1>1. UNCHANGED <<server, fds, heard>>
    <2> USE DEF history, vars, network
    <2>1. ASSUME NEW p \in Clients, NEW c \in Conns, CL_Connect(p, c)
          PROVE  UNCHANGED <<server, fds, heard>>
      BY <2>1 DEF CL_Connect, PeerConnect
    <2>2. ASSUME NEW p \in Clients, NEW r \in Requests, CL_Send(p, r)
          PROVE  UNCHANGED <<server, fds, heard>>
      BY <2>2 DEF CL_Send, PeerSend
    <2>3. ASSUME NEW p \in Clients,
                 CL_Disconnect(p) \/ Restart(p) \/ ClientReads(p)
          PROVE  UNCHANGED <<server, fds, heard>>
      BY <2>3 DEF CL_Disconnect, Restart, ClientReads, CL_ReadServerMessages,
                  ServerClosed, PeerSend, PeerRecv
    <2>4. ASSUME NEW c \in Conns, HangUp(c) \/ AnswerLate(c)
          PROVE  UNCHANGED <<server, fds, heard>>
      BY <2>4 DEF HangUp, AnswerLate, PeerClose, PeerReset
    <2> QED BY <2>1, <2>2, <2>3, <2>4 DEF ClientStep, KernelStep
  <1>2. Active' = Active /\ \A i \in Slots : ConnOf(i)' = ConnOf(i)
    BY <1>1 DEF server, Active, ConnOf
  <1>3. Seated' = Seated
    BY <1>2 DEF Seated, Active
  <1> QED BY <1>1, <1>2, <1>3 DEF Aside

LEMMA ApartStep ==
  ASSUME SysTypeOK, Apart, SysNext
  PROVE  Apart'
  <1>1. CASE ServerRuns \/ KernelStep \/ SysTerminated
    BY <1>1 DEF ServerRuns, KernelStep, HangUp, AnswerLate, SysTerminated,
                sysVars, clientVars, Apart
  <1>2. ASSUME NEW p \in Clients, NEW c \in Conns, CL_Connect(p, c) PROVE Apart'
    BY <1>2 DEF CL_Connect, Owned, Apart, SysTypeOK
  <1>3. ASSUME NEW p \in Clients, NEW r \in Requests, CL_Send(p, r) PROVE Apart'
    BY <1>3 DEF CL_Send, Apart
  <1>4. ASSUME NEW p \in Clients,
               CL_Disconnect(p) \/ Restart(p) \/ ClientReads(p)
        PROVE  Apart'
    BY <1>4, ServerAssumption
    DEF CL_Disconnect, Restart, ClientReads, CL_ReadServerMessages,
        ServerClosed, Apart, SysTypeOK
  <1> QED BY <1>1, <1>2, <1>3, <1>4 DEF SysNext, ClientStep

\* The first byte of a stream is the first byte of the first request.
LEMMA FirstByte ==
  ASSUME NEW s \in Seq(Bytes), NEW r \in Seq(Bytes),
         s # << >> => s[1] # "DISCONNECT", r # << >> => r[1] # "DISCONNECT",
         s \o r # << >>
  PROVE  (s \o r)[1] # "DISCONNECT"
  <1>1. Len(s) \in Nat /\ Len(r) \in Nat
    BY LenProperties
  <1>2. CASE Len(s) = 0
    <2>1. s \o r = r
      BY <1>2, EmptySeq, ConcatEmptySeq
    <2> QED BY <2>1
  <1>3. CASE Len(s) # 0
    <2>1. s # << >> /\ (s \o r)[1] = s[1]
      BY <1>1, <1>3, ConcatProperties
    <2> QED BY <2>1
  <1> QED BY <1>2, <1>3

LEMMA AliveStep ==
  ASSUME SysInv, Apart, Alive, Unseated, SysNext
  PROVE  Alive'
  <1> USE DEF SysInv
  <1>s. \A p \in Clients : sock[p] # NoConn => sock[p] \in Conns
    BY DEF SysTypeOK
  <1>1. CASE ServerRuns
    <2>1. \A c \in Conns : peer[c] \in {"off", "up"} => peer'[c] \in {"off", peer[c]}
      BY <1>1, ServerPeers DEF ServerRuns, IInv
    <2>2. UNCHANGED sock /\ \A c \in Conns : inbox'[c] \in {inbox[c], << >>}
      BY <1>1 DEF ServerRuns
    <2> QED BY <1>s, <2>1, <2>2 DEF Alive
  <1>2. ASSUME NEW p \in Clients, NEW c \in Conns, CL_Connect(p, c) PROVE Alive'
    <2>1. /\ sock' = [sock EXCEPT ![p] = c] /\ ~Owned(c)
          /\ peer[c] = "off" /\ peer' = [peer EXCEPT ![c] = "up"]
          /\ UNCHANGED inbox /\ inbox[c] = << >>
      BY <1>2 DEF CL_Connect, PeerConnect, Unseated
    <2>2. peer'[c] = "up" /\ \A d \in Conns : d # c => peer'[d] = peer[d]
      BY <2>1 DEF IInv, Types
    <2>3. sock'[p] = c /\ \A q \in Clients : q # p => sock'[q] = sock[q] /\ sock[q] # c
      BY <2>1 DEF SysTypeOK, Owned
    <2> QED BY <1>s, <2>1, <2>2, <2>3 DEF Alive
  <1>3. ASSUME NEW p \in Clients, NEW r \in Requests \ {<<"DISCONNECT">>}, CL_Send(p, r)
        PROVE  Alive'
    <2>1. PICK c \in Conns : c = sock[p]
      BY <1>s, <1>3 DEF CL_Send
    <2>2. /\ UNCHANGED <<sock, peer>>
          /\ inbox' = [inbox EXCEPT ![c] = inbox[c] \o r]
      BY <1>3, <2>1 DEF CL_Send, PeerSend
    <2>3. inbox[c] \in Seq(Bytes) /\ r \in Seq(Bytes)
      BY ServerAssumption DEF IInv, Types
    <2>4. r # << >> => r[1] # "DISCONNECT"
      BY SystemAssumption
    <2>5. inbox[c] # << >> => inbox[c][1] # "DISCONNECT"
      BY <1>3, <2>1 DEF Alive, CL_Send
    <2>6. inbox[c] \o r # << >> => (inbox[c] \o r)[1] # "DISCONNECT"
      BY <2>3, <2>4, <2>5, FirstByte
    <2>7. /\ inbox'[c] = inbox[c] \o r
          /\ \A d \in Conns : d # c => inbox'[d] = inbox[d]
      BY <2>2 DEF IInv, Types
    <2> QED BY <1>s, <2>2, <2>6, <2>7 DEF Alive
  <1>4. ASSUME NEW p \in Clients, CL_Disconnect(p) PROVE Alive'
    <2>1. PICK c \in Conns : c = sock[p]
      BY <1>s, <1>4 DEF CL_Disconnect
    <2>2. /\ sock' = [sock EXCEPT ![p] = NoConn] /\ UNCHANGED peer
          /\ \A d \in Conns : d # c => inbox'[d] = inbox[d]
      BY <1>4, <2>1 DEF CL_Disconnect, PeerSend, IInv, Types
    <2>3. sock'[p] = NoConn /\ \A q \in Clients : q # p => sock'[q] = sock[q]
      BY <2>2 DEF SysTypeOK
    <2>4. \A q \in Clients : q # p /\ sock[q] # NoConn => sock[q] # c
      BY <2>1 DEF Apart
    <2> QED BY <1>s, <2>2, <2>3, <2>4 DEF Alive
  <1>5. ASSUME NEW p \in Clients, Restart(p) \/ ClientReads(p) PROVE Alive'
    <2>1. UNCHANGED <<peer, inbox>> /\ (UNCHANGED sock \/ sock' = [sock EXCEPT ![p] = NoConn])
      BY <1>5 DEF Restart, ClientReads, CL_ReadServerMessages, ServerClosed,
                  PeerRecv, vars, network
    <2> QED BY <2>1 DEF Alive, SysTypeOK
  <1>6. ASSUME NEW c \in Conns, HangUp(c) \/ AnswerLate(c) PROVE Alive'
    <2>1. UNCHANGED <<sock, inbox>> /\ \A d \in Conns : d # c => peer'[d] = peer[d]
      BY <1>6 DEF HangUp, AnswerLate, PeerClose, PeerReset, clientVars, IInv, Types
    <2>2. CASE HangUp(c)
      BY <1>s, <2>1, <2>2 DEF HangUp, Alive, Owned
    <2>3. CASE AnswerLate(c)
      <3>1. peer[c] = "late"
        BY <2>3 DEF AnswerLate
      <3> QED BY <1>s, <2>1, <3>1 DEF Alive
    <2> QED BY <1>6, <2>2, <2>3
  <1>7. CASE SysTerminated
    BY <1>7 DEF SysTerminated, sysVars, clientVars, vars, network, Alive
  <1> QED
    BY <1>1, <1>2, <1>3, <1>4, <1>5, <1>6, <1>7
    DEF SysNext, ClientStep, KernelStep

LEMMA LeaverStep ==
  ASSUME SysInv, Alive, LeaverUnowned, SysNext
  PROVE  LeaverUnowned'
  <1> USE DEF SysInv
  <1>b. Busy => cur \in Active /\ ConnOf(cur) \in Conns /\ peer[ConnOf(cur)] # "off"
    BY DEF IInv, PcOK, Matched, Owners
  <1>1. CASE ServerRuns
    <2> SUFFICES ASSUME Leaving' PROVE ~Owned(ConnOf(cur))'
      BY DEF LeaverUnowned
    <2>1. \A c \in Conns : Owned(c)' = Owned(c)
      BY <1>1 DEF ServerRuns, Owned
    <2>2. CASE \E i \in Slots : ReadClientMessage(i)
      <3>1. PICK i \in Slots : ReadClientMessage(i)
        BY <2>2
      <3>2. /\ ConnOf(i) \in Conns /\ UNCHANGED fds
            /\ Connected(i) \/ Announced(i) \/ LeftUnnamed(i) \/ Ignored(i)
        BY <3>1, ReadFacts DEF IInv
      <3>3. cur' = i /\ UNCHANGED clients
        BY <3>2 DEF Connected, Announced, LeftUnnamed, Ignored, Leaving
      <3>4. ConnOf(cur)' = ConnOf(i)
        BY <3>2, <3>3 DEF ConnOf
      <3>5. ASSUME Owned(ConnOf(i)) PROVE FALSE
        <4>1. /\ peer[ConnOf(i)] \in {"off", "up"}
              /\ inbox[ConnOf(i)] # << >> => inbox[ConnOf(i)][1] # "DISCONNECT"
          BY <3>2, <3>5, ServerAssumption DEF Alive, Owned
        <4>2. peer[ConnOf(i)] = "up"
          BY <3>1, <4>1, ReadFacts DEF IInv, Owners
        <4> QED BY <3>1, <4>1, <4>2, ReadOfLiving DEF IInv, Leaving
      <3> QED BY <2>1, <3>2, <3>4, <3>5
    <2>3. CASE \E i \in Slots : BroadcastMessage(i)
      <3>1. PICK i \in Slots : BroadcastMessage(i)
        BY <2>3
      <3>2. pc = "send" /\ ((Sent(ConnOf(i)) /\ AfterSend(i)) \/ Killed)
        BY <3>1, BroadcastFacts DEF IInv
      <3>3. UNCHANGED <<clients, fds>>
        BY <3>2 DEF Sent, Killed, network
      <3>4. Leaving /\ cur' = cur
        BY <3>2 DEF AfterSend, Killed, Leaving
      <3>5. ConnOf(cur)' = ConnOf(cur)
        BY <3>3, <3>4 DEF ConnOf
      <3> QED BY <1>b, <2>1, <3>2, <3>4, <3>5 DEF Busy, LeaverUnowned
    <2>4. CASE SendWelcome
      <3>1. FALSE
        BY <2>4, WelcomeFacts DEF IInv, Killed, Message, Leaving
      <3> QED BY <3>1
    <2>5. CASE Select \/ SelectNothing \/ AcceptFails \/ Reject \/ EndFrame
               \/ CloseClient \/ \E i \in Slots, f \in Fds : Seat(i, f)
      BY <2>5 DEF Select, SelectNothing, NextFrame, AcceptFails, Reject, EndFrame,
                  CloseClient, Seat, Leaving
    <2> QED BY <1>1, <2>2, <2>3, <2>4, <2>5 DEF ServerRuns, ServerStep
  <1>2. CASE ClientStep \/ KernelStep
    <2> SUFFICES ASSUME Leaving', Owned(ConnOf(cur))' PROVE FALSE
      BY DEF LeaverUnowned
    <2>1. Leaving /\ cur' = cur /\ UNCHANGED <<clients, fds>>
      BY <1>2, ClientsAside DEF Aside, server, Leaving
    <2>2. ConnOf(cur)' = ConnOf(cur) /\ Busy
      BY <2>1 DEF ConnOf, Leaving, Busy
    <2>3. PICK p \in Clients : sock'[p] = ConnOf(cur)
      BY <2>2 DEF Owned
    <2>4. sock[p] # ConnOf(cur)
      BY <2>1 DEF LeaverUnowned, Owned
    <2>5. ConnOf(cur) # NoConn
      BY <1>b, <2>2, ServerAssumption
    <2>6. ASSUME NEW q \in Clients, NEW c \in Conns, CL_Connect(q, c) PROVE FALSE
      BY <1>b, <2>2, <2>3, <2>4, <2>6 DEF CL_Connect, PeerConnect, SysTypeOK
    <2>7. ASSUME NEW q \in Clients,
                 \/ \E r \in Requests : CL_Send(q, r)
                 \/ CL_Disconnect(q) \/ Restart(q) \/ ClientReads(q)
          PROVE  FALSE
      BY <2>3, <2>4, <2>5, <2>7
      DEF CL_Send, CL_Disconnect, Restart, ClientReads, CL_ReadServerMessages,
          ServerClosed, SysTypeOK
    <2>8. CASE KernelStep
      BY <2>3, <2>4, <2>8 DEF KernelStep, HangUp, AnswerLate, clientVars
    <2> QED BY <1>2, <2>6, <2>7, <2>8 DEF ClientStep
  <1>3. CASE SysTerminated
    BY <1>3 DEF SysTerminated, sysVars, clientVars, vars, server, network, Leaving,
                Owned, ConnOf, LeaverUnowned
  <1> QED BY <1>1, <1>2, <1>3 DEF SysNext

\* Whom a step of the server tells something.
LEMMA RecipientIs ==
  ASSUME Types, PcOK, Matched
  PROVE  /\ pc = "welcome" => Recipient = ConnOf(cur)
         /\ \A i \in Slots : BroadcastMessage(i) => Recipient = ConnOf(i)
         /\ pc \notin {"welcome", "send"} => Recipient = NoConn
  <1>1. ASSUME NEW i \in Slots, BroadcastMessage(i) PROVE Recipient = ConnOf(i)
    <2>1. pc = "send" /\ Lowest(i, sendTo) /\ sendTo \subseteq Slots
      BY <1>1 DEF BroadcastMessage, Types
    <2>2. i \in sendTo
      BY <2>1 DEF Lowest
    <2>3. \A j \in sendTo : Lowest(j, sendTo) => j = i
      BY <2>1, ServerAssumption DEF Lowest, Slots
    <2>4. (CHOOSE j \in sendTo : Lowest(j, sendTo)) = i
      BY <2>1, <2>2, <2>3
    <2> QED BY <2>1, <2>4 DEF Recipient
  <1> QED BY <1>1 DEF Recipient

LEMMA UnseatedStep ==
  ASSUME SysInv, Ownership, SysNext
  PROVE  Unseated'
  <1> USE DEF SysInv, Ownership
  <1>b. \A i \in Active : i \in Slots /\ ConnOf(i) \in Conns /\ peer[ConnOf(i)] # "off"
    BY DEF IInv, Matched, Owners, Active
  <1>1. CASE ServerRuns
    <2>1. Recipient # NoConn => Recipient \in Seated
      <3>1. pc = "welcome" => cur \in Active
        BY DEF IInv, PcOK, Busy
      <3>2. \A i \in Slots : BroadcastMessage(i) => i \in Active
        BY BroadcastFacts DEF IInv
      <3>3. pc = "send" => \E i \in Slots : BroadcastMessage(i)
        BY <1>1 DEF ServerRuns, ServerStep, Select, SelectNothing, AcceptFails,
                    Reject, EndFrame, CloseClient, Seat, SendWelcome, ReadClientMessage
      <3> QED BY <3>1, <3>2, <3>3, RecipientIs DEF IInv, Seated
    <2>2. ASSUME NEW c \in Conns, c \notin Seated' PROVE wire'[c] = << >> /\ heard'[c] = {}
      <3>1. CASE c \notin Seated
        <4>1. wire'[c] = << >>
          <5>1. c # Recipient
            BY <2>1, <3>1, ServerAssumption
          <5>2. wire'[c] = << >> \/ wire'[c] = wire[c]
            BY <1>1, <5>1, Zenon DEF ServerRuns
          <5> QED BY <3>1, <5>2 DEF Unseated
        <4>2. heard[c] = {}
          BY <3>1 DEF Unseated
        <4>3. \A i \in Active : Sent(ConnOf(i)) => heard'[c] = heard[c]
          BY <3>1 DEF Seated, Sent, HeardBy
        <4>4. Reject \/ CloseClient => heard'[c] = heard[c] \/ heard'[c] = {}
          BY DEF Reject, CloseClient, Forget, IInv, Types
        <4>5. Next
          BY <1>1 DEF ServerRuns, Next
        <4> QED BY <4>1, <4>2, <4>3, <4>4, <4>5, HeardCases DEF IInv
      <3>2. CASE c \in Seated
        <4>1. PICK i \in Active : c = ConnOf(i)
          BY <3>2 DEF Seated
        <4>2. i \in Slots /\ (i \notin Active' \/ ConnOf(i)' # c)
          BY <1>b, <2>2, <4>1 DEF Seated
        <4>3. CASE CloseClient
          <5>1. i = cur
            <6>1. /\ cur \in Active
                  /\ \A k \in Slots : k # cur => clients'[k] = clients[k]
                  /\ \A f \in Fds : f # clients[cur].socket => fds'[f] = fds[f]
              BY <4>3 DEF CloseClient, IInv, Types, PcOK, Busy
            <6>2. /\ clients[i].socket \in Fds
                  /\ i # cur => clients[i].socket # clients[cur].socket
              BY <4>1, <6>1 DEF IInv, Matched
            <6> QED BY <4>1, <4>2, <6>1, <6>2 DEF Active, ConnOf
          <5>2. ~Owned(c)
            BY <4>1, <4>3, <5>1 DEF CloseClient, LeaverUnowned, Leaving
          <5>3. peer'[c] = "off" /\ heard'[c] = {}
            BY <4>1, <4>3, <5>1 DEF CloseClient, Forget, IInv, Types
          <5>4. wire'[c] = << >>
            BY <1>1, <5>2, <5>3, Zenon DEF ServerRuns
          <5> QED BY <5>3, <5>4
        <4>4. CASE ~CloseClient
          <5>1. Next
            BY <1>1 DEF ServerRuns, Next
          <5>2. CASE Undisturbed \/ Reject \/ \E d \in Conns : PeerConnect(d)
            BY <4>1, <4>2, <5>2 DEF Undisturbed, Reject, PeerConnect, server, Active, ConnOf
          <5>3. ASSUME NEW j \in Slots, Renamed(j) PROVE FALSE
            <6>1. \A k \in Slots : /\ clients'[k].active = clients[k].active
                                   /\ clients'[k].socket = clients[k].socket
              <7>1. PICK name \in Seq(Bytes) :
                       clients' = [clients EXCEPT ![j] = Client(clients[j].socket, name)]
                BY <5>3 DEF Renamed, Connected
              <7>2. clients[j].active
                BY <5>3 DEF Renamed, Active
              <7> QED BY <7>1, <7>2 DEF Client, IInv, Types
            <6> QED BY <4>1, <4>2, <5>3, <6>1 DEF Renamed, Active, ConnOf
          <5>4. ASSUME NEW j \in Slots, NEW f \in Fds, Seat(j, f) PROVE FALSE
            <6>1. /\ j \notin Active /\ fds[f] = NoConn
                  /\ \A k \in Slots : k # j => clients'[k] = clients[k]
                  /\ \A g \in Fds : g # f => fds'[g] = fds[g]
              BY <5>4 DEF Seat, Lowest, FreeSlots, FreeFds, IInv, Types
            <6>2. clients[i].socket \in Fds /\ fds[clients[i].socket] # NoConn
              BY <1>b, <4>1, ServerAssumption DEF IInv, Matched, ConnOf
            <6> QED BY <4>1, <4>2, <6>1, <6>2 DEF Active, ConnOf
          <5> QED BY <4>4, <5>1, <5>2, <5>3, <5>4, SeatCases DEF IInv
        <4> QED BY <4>3, <4>4
      <3> QED BY <3>1, <3>2
    <2>3. ASSUME NEW c \in Conns, peer'[c] = "off" PROVE inbox'[c] = << >>
      <3>1. inbox'[c] \in {inbox[c], << >>}
        BY <1>1 DEF ServerRuns
      <3> QED BY <1>1, <2>3, <3>1, ServerPeers DEF ServerRuns, IInv, Unseated
    <2> QED BY <2>2, <2>3 DEF Unseated
  <1>2. CASE ClientStep \/ KernelStep
    <2>1. Seated' = Seated /\ UNCHANGED heard
      BY <1>2, ClientsAside DEF Aside
    <2>2. ASSUME NEW c \in Conns, wire[c] = << >> PROVE wire'[c] = << >>
      <3>1. ASSUME NEW p \in Clients, CL_ReadServerMessages(p) PROVE wire'[c] = wire[c]
        BY <2>2, <3>1 DEF CL_ReadServerMessages, SysTypeOK
      <3>2. CASE wire' = wire
        BY <2>2, <3>2
      <3>3. ASSUME NEW d \in Conns, HangUp(d) PROVE wire'[c] = << >>
        BY <2>2, <3>3 DEF HangUp, SysTypeOK
      <3> QED
        BY <1>2, <2>2, <3>1, <3>2, <3>3
        DEF ClientStep, KernelStep, CL_Connect, CL_Send, CL_Disconnect, Restart,
            ClientReads, ServerClosed, AnswerLate, clientVars
    <2>3. ASSUME NEW c \in Conns, peer'[c] = "off" PROVE inbox'[c] = << >>
      <3> DEFINE Kept2 == peer[c] = "off" /\ inbox'[c] = inbox[c]
      <3>1. ASSUME NEW d \in Conns, PeerConnect(d) \/ PeerClose(d) \/ PeerReset(d) \/ PeerRecv(d)
            PROVE  Kept2
        BY <2>3, <3>1 DEF PeerConnect, PeerClose, PeerReset, PeerRecv, IInv, Types
      <3>2. ASSUME NEW d \in Conns, NEW r \in Requests, PeerSend(d, r) PROVE Kept2
        BY <2>3, <3>2 DEF PeerSend, IInv, Types
      <3>3. ASSUME UNCHANGED vars PROVE Kept2
        BY <2>3, <3>3 DEF vars, network
      <3>4. \A p \in Clients : sock[p] # NoConn => sock[p] \in Conns
        BY DEF SysTypeOK
      <3>5. (\E d \in Conns : \/ PeerConnect(d) \/ PeerClose(d) \/ PeerReset(d) \/ PeerRecv(d)
                              \/ \E r \in Requests : PeerSend(d, r))
            \/ UNCHANGED vars
        BY <1>2, <3>4, SystemAssumption
        DEF ClientStep, KernelStep, CL_Connect, CL_Send, CL_Disconnect, Restart,
            ClientReads, CL_ReadServerMessages, ServerClosed, HangUp, AnswerLate
      <3> QED BY <3>1, <3>2, <3>3, <3>5 DEF Unseated
    <2> QED BY <2>1, <2>2, <2>3 DEF Unseated
  <1>3. CASE SysTerminated
    BY <1>3 DEF SysTerminated, sysVars, clientVars, vars, server, network, history,
                Seated, Active, ConnOf, Unseated
  <1> QED BY <1>1, <1>2, <1>3 DEF SysNext

LEMMA OwnershipStep ==
  ASSUME SysInv, Ownership, SysNext
  PROVE  Ownership'
  BY ApartStep, AliveStep, LeaverStep, UnseatedStep DEF Ownership, SysInv

-----------------------------------------------------------------------------
(* What a step of the server says to the client on connection c, and what   *)
(* becomes of the name that it knows slot i by.                             *)

NameKept(c, i) ==
    i \in heard[c] /\ NameStands(c, i)' =>
        NameStands(c, i) /\ clients'[i].name = clients[i].name

Silent(c, i) == UNCHANGED <<wire[c], heard[c]>> /\ NameKept(c, i)

Says(c, i) ==
    /\ wire'[c] = Append(wire[c], Note)
    /\ msg \in Msgs
    /\ heard'[c] = After(heard[c], msg)
    /\ IF msg.slot = i /\ msg.type = "USERJOIN"
       THEN NameStands(c, i)' => clients'[i].name = msg.name
       ELSE NameKept(c, i)

LEMMA SlotNames ==
  ASSUME Types, PcOK, Matched, Owners, ServerStep, NEW i \in Slots
  PROVE  \/ clients'[i].name = clients[i].name
         \/ pc' = "welcome" /\ cur' = i
         \/ CloseClient /\ i = cur
  <1>1. CASE Undisturbed \/ Reject
    BY <1>1 DEF Undisturbed, Reject
  <1>2. ASSUME NEW j \in Slots, Renamed(j)
        PROVE  clients'[i].name = clients[i].name \/ (pc' = "welcome" /\ cur' = i)
    <2>1. PICK name \in Seq(Bytes) :
             /\ clients' = [clients EXCEPT ![j] = Client(clients[j].socket, name)]
             /\ pc' = "welcome" /\ cur' = j
      BY <1>2 DEF Renamed, Connected
    <2> QED BY <2>1 DEF Types
  <1>3. ASSUME NEW j \in Slots, NEW f \in Fds, Seat(j, f)
        PROVE  clients'[i].name = clients[i].name
    BY <1>3 DEF Seat, Client, Types
  <1>4. CASE CloseClient
    BY <1>4 DEF CloseClient, Types
  <1>5. CASE \E c \in Conns : PeerConnect(c)
    BY <1>5 DEF PeerConnect, server
  <1>6. Next
    BY DEF Next
  <1> QED BY <1>1, <1>2, <1>3, <1>4, <1>5, <1>6, SeatCases

\* A step of the server is silent towards a client, or says what it sends.
LEMMA ServerSays ==
  ASSUME SysInv, Ownership, ServerRuns, NEW p \in Clients, NEW c \in Conns,
         sock[p] = c, NEW i \in Slots
  PROVE  Silent(c, i) \/ Says(c, i)
  <1> USE DEF SysInv, Ownership
  <1>0. c # NoConn
    BY ServerAssumption
  <1>1. /\ c \in Conns /\ Owned(c) /\ peer[c] \in {"off", "up"}
        /\ wire'[c] = IF c = Recipient /\ peer[c] = "up" /\ pc' # "killed"
                      THEN Append(wire[c], Note) ELSE wire[c]
    <2>1. c \in Conns /\ Owned(c) /\ peer[c] \in {"off", "up"}
      BY <1>0 DEF SysTypeOK, Owned, Alive
    <2> QED BY <2>1 DEF ServerRuns
  <1>2. \A j \in Active : /\ j \in Slots /\ clients[j].socket \in Fds /\ ConnOf(j) \in Conns
                          /\ ConnOf(j) = c => peer[c] = "up"
    BY <1>1 DEF IInv, Matched, Owners, Active
  <1>3. c \notin Seated => heard[c] = {} /\ wire[c] = << >>
    BY <1>1 DEF Unseated
  <1>4. CASE SendWelcome
    <2>1. pc = "welcome" /\ cur \in Active /\ Recipient = ConnOf(cur)
      BY <1>4, WelcomeFacts, RecipientIs DEF IInv
    <2>2. CASE Killed
      <3>1. Silent(c, i)
        BY <1>1, <2>2 DEF Killed, history, Silent, NameKept, NameStands
      <3> QED BY <3>1
    <2>3. CASE ~Killed
      <3>1. /\ Sent(ConnOf(cur)) /\ pc' = "send" /\ sendTo' = Active /\ cur' = cur
            /\ msg' = Message("USERJOIN", cur, clients[cur].name, << >>)
        BY <1>4, <2>3, WelcomeFacts DEF IInv
      <3>2. UNCHANGED <<clients, fds>> /\ msg'.type = "USERJOIN"
        BY <3>1 DEF Sent, Message
      <3>3. NameKept(c, i)
        <4>1. SUFFICES ASSUME i \in heard[c], NameStands(c, i)'
                       PROVE  NameStands(c, i) /\ clients'[i].name = clients[i].name
          BY DEF NameKept
        <4>2. c \in Seated
          BY <1>3, <4>1
        <4>3. PICK j \in Active : ConnOf(j) = c
          BY <4>2 DEF Seated
        <4>4. ConnOf(j)' = c /\ j \in sendTo'
          BY <3>1, <3>2, <4>3 DEF ConnOf
        <4>5. i # cur
          BY <3>1, <3>2, <4>1, <4>4 DEF NameStands, BeingTold
        <4> QED BY <2>1, <3>2, <4>5 DEF NameStands, BeingTold
      <3>4. CASE c = ConnOf(cur)
        <4>1. peer[c] = "up" /\ msg \in Msgs /\ msg.type = "ACCEPTED"
          BY <1>2, <2>1, <3>4 DEF IInv, PcOK
        <4>2. heard'[c] = After(heard[c], msg)
          BY <3>1, <3>4, <4>1 DEF Sent, HeardBy
        <4>3. wire'[c] = Append(wire[c], Note)
          BY <1>1, <2>1, <3>1, <3>4, <4>1
        <4> QED BY <3>3, <4>1, <4>2, <4>3 DEF Says
      <3>5. CASE c # ConnOf(cur)
        BY <1>1, <2>1, <3>1, <3>3, <3>5 DEF Sent, HeardBy, Silent
      <3> QED BY <3>4, <3>5
    <2> QED BY <2>2, <2>3
  <1>5. ASSUME NEW j \in Slots, BroadcastMessage(j) PROVE Silent(c, i) \/ Says(c, i)
    <2>1. /\ pc = "send" /\ j \in sendTo /\ j \in Active /\ Recipient = ConnOf(j)
          /\ msg \in Msgs /\ msg.slot = cur /\ msg.name = clients[cur].name
      BY <1>5, BroadcastFacts, RecipientIs DEF IInv, PcOK
    <2>2. CASE Killed
      <3>1. Silent(c, i)
        BY <1>1, <2>2 DEF Killed, history, Silent, NameKept, NameStands
      <3> QED BY <3>1
    <2>3. CASE ~Killed
      <3>1. Sent(ConnOf(j)) /\ AfterSend(j)
        BY <1>5, <2>3, BroadcastFacts DEF IInv
      <3>2. UNCHANGED <<clients, fds>> /\ pc' # "killed"
        BY <2>1, <3>1 DEF Sent, AfterSend
      <3>3. \A k \in Slots : ConnOf(k)' = ConnOf(k)
        BY <3>2 DEF ConnOf
      <3>4. CASE c = ConnOf(j)
        <4>1. heard'[c] = After(heard[c], msg) /\ wire'[c] = Append(wire[c], Note)
          BY <1>1, <1>2, <2>1, <3>1, <3>2, <3>4 DEF Sent, HeardBy
        <4>2. ~(msg.slot = i /\ msg.type = "USERJOIN") => NameStands(c, i)
          BY <2>1 DEF NameStands, BeingTold
        <4> QED BY <2>1, <3>2, <4>1, <4>2 DEF Says, NameKept
      <3>5. CASE c # ConnOf(j)
        <4>1. UNCHANGED <<wire[c], heard[c]>>
          BY <1>1, <2>1, <3>1, <3>5 DEF Sent, HeardBy
        <4>2. ASSUME BeingTold(c, i) PROVE BeingTold(c, i)'
          <5>1. PICK k \in sendTo : ConnOf(k) = c /\ msg.type = "USERJOIN" /\ i = cur
            BY <2>1, <4>2 DEF BeingTold
          <5>2. k # j /\ k \in sendTo' /\ k \in Slots
            BY <3>1, <3>5, <5>1 DEF AfterSend, IInv, Types
          <5>3. UNCHANGED <<pc, msg, cur>>
            BY <3>1, <5>1, <5>2 DEF AfterSend
          <5> QED BY <2>1, <3>3, <5>1, <5>2, <5>3 DEF BeingTold
        <4>3. NameKept(c, i)
          BY <2>1, <3>2, <4>2 DEF NameKept, NameStands
        <4> QED BY <4>1, <4>3 DEF Silent
      <3> QED BY <3>4, <3>5
    <2> QED BY <2>2, <2>3
  <1>6. CASE pc \notin {"welcome", "send"}
    <2>1. UNCHANGED wire[c]
      BY <1>1, <1>6, RecipientIs, ServerAssumption DEF IInv
    <2>2. NameStands(c, i) \/ pc = "killed"
      BY <1>6 DEF NameStands, BeingTold
    <2>3. pc # "killed"
      BY DEF ServerRuns, ServerStep, Select, SelectNothing, AcceptFails, Reject,
             EndFrame, CloseClient, Seat, SendWelcome, ReadClientMessage,
             BroadcastMessage
    <2>4. Next /\ ServerStep
      BY DEF ServerRuns, Next
    <2>5. UNCHANGED heard[c]
      <3>1. CASE UNCHANGED heard
        BY <3>1
      <3>2. CASE Reject
        <4>1. Len(backlog) >= 1 /\ Head(backlog) = backlog[1] /\ backlog[1] \in Conns
          BY <3>2, HeadOfBacklog, ElementOfSeq DEF Reject, IInv, PcOK, Types
        <4>2. heard[Head(backlog)] = {}
          BY <3>2, <4>1, HeadOfBacklog DEF Reject, IInv, PcOK, Unheard
        <4> QED BY <1>1, <3>2, <4>1, <4>2 DEF Reject, Forget, IInv, Types
      <3>3. CASE CloseClient
        <4>1. c # ConnOf(cur)
          BY <1>1, <3>3 DEF CloseClient, LeaverUnowned, Leaving
        <4> QED BY <1>1, <3>3, <4>1 DEF CloseClient, Forget, IInv, Types
      <3>4. \A j \in Slots : ~ReadClientMessage(j) \/ UNCHANGED heard
        BY DEF ReadClientMessage
      <3>5. CASE Select \/ SelectNothing \/ AcceptFails \/ EndFrame
                 \/ \E j \in Slots, f \in Fds : Seat(j, f)
        BY <3>5 DEF Select, SelectNothing, AcceptFails, EndFrame, Seat, history
      <3> QED
        BY <1>6, <2>4, <3>1, <3>2, <3>3, <3>4, <3>5
        DEF ServerStep, SendWelcome, BroadcastMessage
    <2>6. NameKept(c, i)
      <3>1. SUFFICES ASSUME i \in heard[c], NameStands(c, i)'
                     PROVE  clients'[i].name = clients[i].name
        BY <2>2, <2>3 DEF NameKept
      <3>2. ~(pc' = "welcome" /\ cur' = i)
        BY <3>1 DEF NameStands, BeingTold
      <3>3. CASE CloseClient /\ i = cur
        <4>1. clients'[i].name = << >> /\ pc = "drop"
          BY <3>3 DEF CloseClient, FreeSlot, IInv, Types
        <4>2. c \in Seated
          BY <1>3, <3>1
        <4>3. PICK j \in Active : ConnOf(j) = c
          BY <4>2 DEF Seated
        <4>4. j \in Up
          BY <1>2, <4>3 DEF Up
        <4> QED BY <3>1, <3>3, <4>1, <4>3, <4>4 DEF IInv, LeaveTold
      <3> QED BY <2>4, <3>2, <3>3, SlotNames DEF IInv
    <2> QED BY <2>1, <2>5, <2>6 DEF Silent
  <1>7. CASE pc = "welcome"
    BY <1>4, <1>7 DEF ServerRuns, ServerStep, Select, SelectNothing, AcceptFails,
      Reject, EndFrame, CloseClient, Seat, ReadClientMessage, BroadcastMessage
  <1>8. CASE pc = "send"
    BY <1>5, <1>8 DEF ServerRuns, ServerStep, Select, SelectNothing, AcceptFails,
      Reject, EndFrame, CloseClient, Seat, ReadClientMessage, SendWelcome
  <1> QED BY <1>6, <1>7, <1>8

-----------------------------------------------------------------------------
(* The last words about a slot, step by step. *)

LEMMA WordSaid ==
  ASSUME NEW p \in Clients, NEW c \in Conns, NEW i \in Slots,
         wire[c] \in Seq(Notes), UNCHANGED <<list, doubt>>,
         OnTheWay(c, i), Arrived(p, c, i), Silent(c, i) \/ Says(c, i)
  PROVE  OnTheWay(c, i)' /\ Arrived(p, c, i)'
  <1>1. CASE Silent(c, i)
    <2>1. UNCHANGED <<wire[c], heard[c], Listed(p), list[p], doubt[p]>>
      BY <1>1 DEF Silent, Listed
    <2>2. OnTheWay(c, i)'
      BY <1>1, <2>1 DEF Silent, NameKept, OnTheWay
    <2>3. Arrived(p, c, i)'
      BY <1>1, <2>1 DEF Silent, NameKept, Arrived, Listed
    <2> QED BY <2>2, <2>3
  <1>2. CASE Says(c, i)
    <2> DEFINE n == Len(wire[c])
    <2>1. /\ n \in Nat /\ Len(wire'[c]) = n + 1
          /\ \A h \in 1 .. n : wire'[c][h] = wire[c][h]
          /\ wire'[c][n + 1] = Note
      <3>1. n \in Nat /\ wire'[c] = Append(wire[c], Note)
        BY <1>2, LenProperties DEF Says
      <3>2. Note \in Notes
        BY <1>2 DEF Says, Note, Msgs, Notes
      <3> QED BY <3>1, <3>2, AppendProperties
    <2>2. UNCHANGED <<Listed(p), list[p], doubt[p]>>
      BY DEF Listed
    <2>3. /\ heard'[c] = After(heard[c], msg)
          /\ Note.type = msg.type /\ Note.slot = msg.slot /\ Note.name = msg.name
          /\ About(Note, i) => msg.slot = i /\ msg.type \in {"USERJOIN", "USERLEAVE"}
      BY <1>2 DEF Says, Note, About
    <2>4. ~About(Note, i) => NameKept(c, i) /\ (i \in heard'[c] <=> i \in heard[c])
      BY <1>2, <2>3 DEF Says, After, About
    <2>5. ASSUME About(Note, i)
          PROVE  /\ Note.type = "USERJOIN" <=> i \in heard'[c]
                 /\ Note.type = "USERJOIN" /\ NameStands(c, i)' =>
                        Note.name = clients'[i].name
      BY <1>2, <2>3, <2>5 DEF Says, After
    <2>6. ASSUME NEW h \in 1 .. n + 1, LastWord(wire'[c], h, i)
          PROVE  /\ wire'[c][h].type = "USERJOIN" <=> i \in heard'[c]
                 /\ wire'[c][h].type = "USERJOIN" /\ NameStands(c, i)' =>
                        wire'[c][h].name = clients'[i].name
      <3>1. CASE h = n + 1
        BY <2>1, <2>5, <2>6, <3>1 DEF LastWord
      <3>2. CASE h # n + 1
        <4>1. h \in 1 .. n /\ wire'[c][h] = wire[c][h]
          BY <2>1, <3>2
        <4>2. ~About(Note, i) /\ LastWord(wire[c], h, i)
          <5>1. /\ About(wire'[c][h], i)
                /\ \A g \in h + 1 .. n + 1 : ~About(wire'[c][g], i)
            BY <2>1, <2>6 DEF LastWord
          <5>2. ~About(Note, i)
            BY <2>1, <4>1, <5>1
          <5>3. \A g \in h + 1 .. n : ~About(wire[c][g], i)
            BY <2>1, <4>1, <5>1
          <5> QED BY <4>1, <5>1, <5>2, <5>3 DEF LastWord
        <4> QED BY <2>4, <4>1, <4>2 DEF OnTheWay, NameKept
      <3> QED BY <3>1, <3>2
    <2>7. OnTheWay(c, i)'
      BY <2>1, <2>6 DEF OnTheWay
    <2>8. Arrived(p, c, i)'
      <3>1. SUFFICES ASSUME (i \notin doubt[p] /\ \A h \in 1 .. Len(wire[c]) : ~About(wire[c][h], i))'
                     PROVE  (/\ i \in Listed(p) <=> i \in heard[c]
                             /\ NameStands(c, i) =>
                                  \A e \in list[p] : e.slot = i => e.name = clients[i].name)'
        BY DEF Arrived
      <3>2. ~About(Note, i) /\ \A h \in 1 .. n : ~About(wire[c][h], i)
        BY <2>1, <3>1
      <3>3. /\ i \in Listed(p) <=> i \in heard[c]
            /\ NameStands(c, i) =>
                  \A e \in list[p] : e.slot = i => e.name = clients[i].name
        BY <3>1, <3>2 DEF Arrived
      <3>4. \A e \in list[p] : e.slot = i => i \in Listed(p)
        BY DEF Listed
      <3>5. NameStands(c, i)' =>
               \A e \in list[p] : e.slot = i => e.name = clients'[i].name
        BY <2>4, <3>2, <3>3, <3>4 DEF NameKept
      <3>6. i \in Listed(p)' <=> i \in heard'[c]
        BY <2>2, <2>4, <3>2, <3>3
      <3> QED BY <3>5, <3>6
    <2> QED BY <2>7, <2>8
  <1> QED BY <1>1, <1>2

\* Where nothing is said and nothing read, nothing changes.
LEMMA WordKept ==
  ASSUME NEW p \in Clients, NEW c \in Conns, NEW i \in Slots, Aside,
         UNCHANGED <<wire[c], list[p], doubt[p]>>, OnTheWay(c, i), Arrived(p, c, i)
  PROVE  OnTheWay(c, i)' /\ Arrived(p, c, i)'
  <1>1. UNCHANGED <<clients, heard, Listed(p)>>
    BY DEF Aside, server, Listed
  <1>2. NameStands(c, i)' => NameStands(c, i)
    <2>1. UNCHANGED <<pc, cur, msg, sendTo, clients, fds>>
      BY DEF Aside, server
    <2> QED BY <2>1 DEF NameStands, BeingTold, ConnOf
  <1>3. OnTheWay(c, i)'
    BY <1>1, <1>2 DEF OnTheWay
  <1>4. Arrived(p, c, i)'
    BY <1>1, <1>2 DEF Arrived
  <1> QED BY <1>3, <1>4

\* recv() returns the first k messages: the first one is handled, the slots of
\* the others are in doubt.
LEMMA WordRead ==
  ASSUME SysTypeOK, NEW p \in Clients, NEW c \in Conns, NEW i \in Slots,
         sock[p] = c, CL_ReadServerMessages(p),
         OnTheWay(c, i), Arrived(p, c, i)
  PROVE  OnTheWay(c, i)' /\ Arrived(p, c, i)'
  <1>1. PICK w \in Seq(Notes) : w = wire[c]
    BY DEF SysTypeOK
  <1>2. PICK k \in 1 .. Len(w) :
           /\ list' = [list EXCEPT ![p] = EntriesAfter(list[p], Head(w))]
           /\ doubt' = [doubt EXCEPT ![p] = (doubt[p] \ SlotsOf(w, 1, 1))
                                               \cup SlotsOf(w, 2, k)]
           /\ wire' = [wire EXCEPT ![c] = SubSeq(w, k + 1, Len(w))]
    BY <1>1 DEF CL_ReadServerMessages
  <1> DEFINE n == Len(w)
             m == w[1]
  <1>3. n \in Nat /\ n >= 1 /\ Head(w) = m /\ m \in Notes
    BY <1>2, LenProperties, ElementOfSeq
  <1>4. /\ Len(wire'[c]) = n - k
        /\ \A h \in 1 .. n - k : wire'[c][h] = w[h + k]
    <2>1. wire'[c] = SubSeq(w, k + 1, n)
      BY <1>2 DEF SysTypeOK
    <2>2. \A h \in k + 1 .. n : w[h] \in Notes
      BY <1>2, <1>3, ElementOfSeq
    <2>3. /\ Len(SubSeq(w, k + 1, n)) = IF k + 1 <= n THEN n - (k + 1) + 1 ELSE 0
          /\ \A h \in 1 .. n - (k + 1) + 1 : SubSeq(w, k + 1, n)[h] = w[k + 1 + h - 1]
      BY <1>2, <1>3, <2>2, SubSeqProperties
    <2>4. k \in 1 .. n /\ n \in Nat
      BY <1>2, <1>3
    <2>5. Len(wire'[c]) = n - k
      BY <2>1, <2>3, <2>4
    <2>6. ASSUME NEW h \in 1 .. n - k PROVE wire'[c][h] = w[h + k]
      <3>1. h \in 1 .. n - (k + 1) + 1 /\ k + 1 + h - 1 = h + k
        BY <2>4
      <3> QED BY <2>1, <2>3, <3>1
    <2> QED BY <2>5, <2>6
  <1>5. /\ list'[p] = EntriesAfter(list[p], m)
        /\ doubt'[p] = (doubt[p] \ SlotsOf(w, 1, 1)) \cup SlotsOf(w, 2, k)
    BY <1>2, <1>3 DEF SysTypeOK
  <1>6. UNCHANGED <<heard, clients>> /\ (NameStands(c, i)' <=> NameStands(c, i))
    <2>1. Aside
      BY ClientsAside DEF ClientStep, ClientReads
    <2>2. UNCHANGED <<pc, cur, msg, sendTo, clients, fds, heard>>
      BY <2>1 DEF Aside, server
    <2> QED BY <2>2 DEF NameStands, BeingTold, ConnOf
  <1>7. OnTheWay(c, i)'
    <2>1. ASSUME NEW h \in 1 .. n - k, LastWord(wire'[c], h, i)
          PROVE  h + k \in 1 .. n /\ LastWord(w, h + k, i)
      <3>1. h + k \in 1 .. n /\ About(w[h + k], i)
        <4>1. h + k \in 1 .. n
          BY <1>2, <1>3, <2>1
        <4>2. About(wire'[c][h], i) /\ wire'[c][h] = w[h + k]
          BY <1>4, <2>1 DEF LastWord
        <4> QED BY <4>1, <4>2
      <3>2. ASSUME NEW g \in h + k + 1 .. n PROVE ~About(w[g], i)
        <4>1. /\ g - k \in h + 1 .. n - k /\ g - k \in 1 .. n - k
              /\ (g - k) + k = g
          BY <1>2, <1>3, <3>2
        <4> QED BY <1>4, <2>1, <4>1 DEF LastWord
      <3> QED BY <3>1, <3>2 DEF LastWord
    <2> QED BY <1>1, <1>4, <1>6, <2>1 DEF OnTheWay
  <1>8. Arrived(p, c, i)'
    <2>1. SUFFICES ASSUME i \notin doubt'[p],
                          \A h \in 1 .. n - k : ~About(wire'[c][h], i)
                   PROVE  /\ i \in Listed(p)' <=> i \in heard'[c]
                          /\ NameStands(c, i)' =>
                               \A e \in list'[p] : e.slot = i => e.name = clients'[i].name
      BY <1>4 DEF Arrived
    <2>2. ASSUME NEW h \in 2 .. n PROVE ~About(w[h], i)
      <3>1. CASE h <= k
        <4>1. h \in 2 .. k
          BY <1>2, <1>3, <2>2, <3>1
        <4>2. i \notin SlotsOf(w, 2, k)
          BY <1>5, <2>1
        <4> QED BY <4>1, <4>2 DEF SlotsOf, About
      <3>2. CASE h > k
        <4>1. h - k \in 1 .. n - k /\ (h - k) + k = h
          BY <1>2, <1>3, <2>2, <3>2
        <4> QED BY <1>4, <2>1, <4>1
      <3> QED BY <1>2, <1>3, <2>2, <3>1, <3>2
    <2>3. CASE About(m, i)
      <3>1. 1 \in 1 .. n /\ LastWord(w, 1, i)
        BY <1>3, <2>2, <2>3 DEF LastWord
      <3>2. /\ m.type = "USERJOIN" <=> i \in heard[c]
            /\ m.type = "USERJOIN" /\ NameStands(c, i) => m.name = clients[i].name
        BY <1>1, <3>1 DEF OnTheWay
      <3>3. m.slot = i /\ m.type \in {"USERJOIN", "USERLEAVE"}
        BY <2>3 DEF About
      <3>4. list'[p] = {e \in list[p] : e.slot # i} \cup
                          (IF m.type = "USERJOIN" THEN {[slot |-> i, name |-> m.name]} ELSE {})
        BY <1>5, <3>3 DEF EntriesAfter
      <3>5. i \in Listed(p)' <=> m.type = "USERJOIN"
        <4>1. Listed(p)' = {e.slot : e \in list'[p]}
          BY DEF Listed
        <4>2. CASE m.type = "USERJOIN"
          <5>1. [slot |-> i, name |-> m.name] \in list'[p]
            BY <3>4, <4>2
          <5>2. [slot |-> i, name |-> m.name].slot = i
            OBVIOUS
          <5> QED BY <4>1, <4>2, <5>1, <5>2
        <4>3. CASE m.type # "USERJOIN"
          BY <3>4, <4>1, <4>3
        <4> QED BY <4>2, <4>3
      <3>6. \A e \in list'[p] : e.slot = i => m.type = "USERJOIN" /\ e.name = m.name
        BY <3>4
      <3> QED BY <1>6, <3>2, <3>5, <3>6
    <2>4. CASE ~About(m, i)
      <3>1. \A h \in 1 .. n : ~About(w[h], i)
        BY <1>3, <2>2, <2>4
      <3>2. i \notin doubt[p]
        <4>1. i \notin SlotsOf(w, 1, 1)
          BY <2>4 DEF SlotsOf, About
        <4> QED BY <1>5, <2>1, <4>1
      <3>3. /\ i \in Listed(p) <=> i \in heard[c]
            /\ NameStands(c, i) =>
                 \A e \in list[p] : e.slot = i => e.name = clients[i].name
        BY <1>1, <3>1, <3>2 DEF Arrived
      <3>4. \A e : e.slot = i => (e \in list'[p] <=> e \in list[p])
        <4>1. CASE m.type \in {"USERJOIN", "USERLEAVE"}
          <5>1. m.slot # i
            BY <2>4, <4>1 DEF About
          <5> QED BY <1>5, <4>1, <5>1 DEF EntriesAfter
        <4>2. CASE m.type \notin {"USERJOIN", "USERLEAVE"}
          BY <1>5, <4>2 DEF EntriesAfter
        <4> QED BY <4>1, <4>2
      <3>5. i \in Listed(p)' <=> i \in Listed(p)
        BY <3>4 DEF Listed
      <3> QED BY <1>6, <3>3, <3>4, <3>5
    <2> QED BY <2>3, <2>4
  <1> QED BY <1>7, <1>8

LEMMA RostersStep ==
  ASSUME SysInv, Ownership, Rosters, SysNext
  PROVE  Rosters'
  <1> SUFFICES ASSUME NEW p \in Clients, NEW i \in Slots, sock'[p] # NoConn
               PROVE  OnTheWay(sock[p], i)' /\ Arrived(p, sock[p], i)'
    BY DEF Rosters
  <1> USE DEF SysInv
  <1>1. ASSUME NEW c \in Conns, sock'[p] = c, OnTheWay(c, i)' /\ Arrived(p, c, i)'
        PROVE  OnTheWay(sock[p], i)' /\ Arrived(p, sock[p], i)'
    BY <1>1 DEF OnTheWay, LastWord, Arrived, NameStands, BeingTold
  <1>2. ASSUME NEW c \in Conns, sock[p] = c PROVE OnTheWay(c, i) /\ Arrived(p, c, i)
    <2>1. OnTheWay(sock[p], i) /\ Arrived(p, sock[p], i)
      BY <1>2, ServerAssumption DEF Rosters
    <2> QED BY <1>2, <2>1
  <1>3. CASE ServerRuns
    <2>1. UNCHANGED <<sock, list, doubt>>
      BY <1>3 DEF ServerRuns
    <2>2. PICK c \in Conns : sock[p] = c
      BY <2>1 DEF SysTypeOK
    <2>3. wire[c] \in Seq(Notes)
      BY DEF SysTypeOK
    <2>4. OnTheWay(c, i)' /\ Arrived(p, c, i)'
      BY <1>2, <1>3, <2>1, <2>2, <2>3, ServerSays, WordSaid
    <2> QED BY <1>1, <2>1, <2>2, <2>4
  <1>4. ASSUME ClientStep \/ KernelStep, sock'[p] = sock[p], UNCHANGED <<list[p], doubt[p]>>,
               \A c \in Conns : c = sock[p] => wire'[c] = wire[c]
        PROVE  OnTheWay(sock[p], i)' /\ Arrived(p, sock[p], i)'
    <2>1. PICK c \in Conns : sock[p] = c
      BY <1>4 DEF SysTypeOK
    <2>2. OnTheWay(c, i)' /\ Arrived(p, c, i)'
      BY <1>2, <1>4, <2>1, ClientsAside, WordKept
    <2> QED BY <1>1, <1>4, <2>1, <2>2
  <1>5. ASSUME NEW q \in Clients, NEW d \in Conns, CL_Connect(q, d)
        PROVE  OnTheWay(sock[p], i)' /\ Arrived(p, sock[p], i)'
    <2>1. /\ sock' = [sock EXCEPT ![q] = d] /\ UNCHANGED <<wire, list>>
          /\ doubt' = [doubt EXCEPT ![q] = Listed(q)] /\ peer[d] = "off"
      BY <1>5 DEF CL_Connect, PeerConnect
    <2>2. CASE q # p
      BY <1>4, <1>5, <2>1, <2>2 DEF ClientStep, SysTypeOK
    <2>3. CASE q = p
      <3>1. sock'[p] = d /\ doubt'[p] = Listed(p) /\ Listed(p)' = Listed(p)
        BY <2>1, <2>3 DEF SysTypeOK, Listed
      <3>2. d \notin Seated
        BY <2>1 DEF IInv, Owners, Seated
      <3>3. wire'[d] = << >> /\ heard'[d] = {}
        BY <1>5, <2>1, <3>2, ClientsAside DEF ClientStep, Aside, Ownership, Unseated
      <3>4. OnTheWay(d, i)'
        BY <3>3 DEF OnTheWay
      <3>5. Arrived(p, d, i)'
        <4>1. i \notin doubt'[p] => i \notin Listed(p)'
          BY <3>1
        <4>2. \A e \in list'[p] : e.slot = i => i \in Listed(p)'
          BY DEF Listed
        <4> QED BY <3>3, <4>1, <4>2 DEF Arrived
      <3> QED BY <1>1, <3>1, <3>4, <3>5
    <2> QED BY <2>2, <2>3
  <1>6. ASSUME NEW q \in Clients, NEW r \in Requests \ {<<"DISCONNECT">>}, CL_Send(q, r)
        PROVE  OnTheWay(sock[p], i)' /\ Arrived(p, sock[p], i)'
    <2>1. UNCHANGED <<sock, wire, list, doubt>>
      BY <1>6 DEF CL_Send
    <2> QED BY <1>4, <1>6, <2>1 DEF ClientStep
  <1>7. ASSUME NEW q \in Clients, CL_Disconnect(q) \/ Restart(q) \/ ServerClosed(q)
        PROVE  OnTheWay(sock[p], i)' /\ Arrived(p, sock[p], i)'
    <2>1. sock' = [sock EXCEPT ![q] = NoConn] /\ UNCHANGED wire
      BY <1>7 DEF CL_Disconnect, Restart, ServerClosed
    <2>2. q # p
      BY <2>1 DEF SysTypeOK
    <2>3. UNCHANGED <<sock[p], list[p], doubt[p]>>
      BY <1>7, <2>1, <2>2 DEF CL_Disconnect, Restart, ServerClosed, SysTypeOK
    <2> QED BY <1>4, <1>7, <2>1, <2>3 DEF ClientStep, ClientReads
  <1>8. ASSUME NEW q \in Clients, CL_ReadServerMessages(q)
        PROVE  OnTheWay(sock[p], i)' /\ Arrived(p, sock[p], i)'
    <2>1. UNCHANGED sock
      BY <1>8 DEF CL_ReadServerMessages
    <2>2. CASE q = p
      <3>1. PICK c \in Conns : sock[p] = c
        BY <2>1 DEF SysTypeOK
      <3>2. OnTheWay(c, i)' /\ Arrived(p, c, i)'
        BY <1>2, <1>8, <2>2, <3>1, WordRead
      <3> QED BY <1>1, <2>1, <3>1, <3>2
    <2>3. CASE q # p
      <3>1. sock[q] # NoConn /\ sock[q] # sock[p]
        BY <1>8, <2>1, <2>3 DEF CL_ReadServerMessages, Ownership, Apart
      <3>2. UNCHANGED <<list[p], doubt[p]>> /\
            \A c \in Conns : c # sock[q] => wire'[c] = wire[c]
        BY <1>8, <2>3 DEF CL_ReadServerMessages, SysTypeOK
      <3> QED BY <1>4, <1>8, <2>1, <3>1, <3>2 DEF ClientStep, ClientReads
    <2> QED BY <2>2, <2>3
  <1>9. ASSUME NEW d \in Conns, HangUp(d) \/ AnswerLate(d)
        PROVE  OnTheWay(sock[p], i)' /\ Arrived(p, sock[p], i)'
    <2>1. UNCHANGED <<sock, list, doubt>>
      BY <1>9 DEF HangUp, AnswerLate, clientVars
    <2>2. \A c \in Conns : c = sock[p] => wire'[c] = wire[c]
      BY <1>9 DEF HangUp, AnswerLate, clientVars, Owned, SysTypeOK
    <2> QED BY <1>4, <1>9, <2>1, <2>2 DEF KernelStep
  <1>10. CASE SysTerminated
    <2>1. UNCHANGED <<sock, list, doubt, wire, heard, clients, pc, cur, msg, sendTo, fds>>
      BY <1>10 DEF SysTerminated, sysVars, clientVars, vars, server, network, history
    <2>2. OnTheWay(sock[p], i) /\ Arrived(p, sock[p], i)
      BY <2>1 DEF Rosters
    <2> QED BY <2>1, <2>2 DEF OnTheWay, LastWord, Arrived, NameStands, BeingTold, Listed, ConnOf
  <1> QED
    BY <1>3, <1>5, <1>6, <1>7, <1>8, <1>9, <1>10
    DEF SysNext, ClientStep, ClientReads, KernelStep

\* The invariant, whole.
RosterInv == SysInv /\ Ownership /\ Rosters

LEMMA RosterInvInit == SysInit => RosterInv
  <1> SUFFICES ASSUME SysInit PROVE RosterInv
    OBVIOUS
  <1>1. SysTypeOK /\ IInv
    BY SysInitTypes, InitInv DEF SysInit
  <1>2. \A p \in Clients : sock[p] = NoConn
    BY DEF SysInit
  <1>3. Apart /\ Alive /\ Rosters
    BY <1>2 DEF Apart, Alive, Rosters
  <1>4. LeaverUnowned /\ Unseated
    BY DEF SysInit, Init, LeaverUnowned, Leaving, Unseated
  <1> QED BY <1>1, <1>3, <1>4 DEF RosterInv, SysInv, Ownership

LEMMA RosterInvStep == RosterInv /\ [SysNext]_sysVars => RosterInv'
  <1> SUFFICES ASSUME RosterInv, [SysNext]_sysVars PROVE RosterInv'
    OBVIOUS
  <1>1. SysInv'
    BY SysTypesStep, StepIsServerStep, InvStep DEF RosterInv, SysInv, IInv
  <1>2. CASE SysNext
    BY <1>1, <1>2, OwnershipStep, RostersStep DEF RosterInv
  <1>3. CASE UNCHANGED sysVars
    <2> USE <1>3 DEF sysVars, clientVars, vars, server, network, history
    <2>1. Apart' /\ Alive'
      BY DEF RosterInv, Ownership, Apart, Alive
    <2>2. LeaverUnowned' /\ Unseated'
      BY DEF RosterInv, Ownership, LeaverUnowned, Leaving, Unseated, Owned, Seated,
             Active, ConnOf
    <2>3. Rosters'
      BY DEF RosterInv, Rosters, OnTheWay, LastWord, Arrived, NameStands, BeingTold,
             Listed, ConnOf
    <2> QED BY <1>1, <2>1, <2>2, <2>3 DEF RosterInv, Ownership
  <1> QED BY <1>2, <1>3

\* A roster that is up to date is right about every slot the client had word
\* of: it lists whom the server announced, under the name last given.
THEOREM RostersExact == SysSpec => []RosterExact
  <1>1. RosterInv => RosterExact
    <2> SUFFICES ASSUME RosterInv, NEW p \in Clients, UpToDate(p)
                 PROVE  /\ Listed(p) \ doubt[p] = heard[sock[p]] \ doubt[p]
                        /\ \A e \in list[p] :
                              e.slot \notin doubt[p] => e.name = clients[e.slot].name
      BY DEF RosterExact
    <2>1. PICK c \in Conns : sock[p] = c
      BY DEF UpToDate, RosterInv, SysInv, SysTypeOK
    <2>2. wire[c] = << >> /\ pc \in {"select", "accept", "read", "drop"}
      BY <2>1 DEF UpToDate
    <2>3. \A i \in Slots : NameStands(c, i)
      BY <2>2 DEF NameStands, BeingTold
    <2>4. \A i \in Slots : Arrived(p, c, i)
      BY <2>1, ServerAssumption DEF RosterInv, Rosters
    <2>5. \A i \in Slots : i \notin doubt[p] =>
             /\ i \in Listed(p) <=> i \in heard[c]
             /\ \A e \in list[p] : e.slot = i => e.name = clients[i].name
      BY <2>2, <2>3, <2>4 DEF Arrived
    <2>6. heard[c] \subseteq Slots /\ \A e \in list[p] : e.slot \in Slots
      BY DEF RosterInv, SysInv, SysTypeOK, IInv, Types, Entries
    <2>7. Listed(p) \subseteq Slots
      BY <2>6 DEF Listed
    <2> QED BY <2>1, <2>5, <2>6, <2>7
  <1> QED BY <1>1, RosterInvInit, RosterInvStep, PTL DEF SysSpec
=============================================================================
