--------------------------- MODULE LairClientProofs ---------------------------
(***************************************************************************)
(* Proofs about the terminal client, for any number of descriptors, any    *)
(* messages from the server and any bounds.                                *)
(***************************************************************************)
EXTENDS LairClient, SequenceTheorems, TLAPS

\* CL_Frame runs only under the chat screen: without this a connection could
\* be lost behind the connect or the name screen, and ScreensAgree would break.
NetUnderChat == pc = "net" => tui_state = "CHAT"

\* The quit prompt never covers the name screen, nor does the end come there:
\* without this CL_Shutdown could take the connection from under it.
NameUncovered == tui_state = "NAME" => tui_running /\ ~show_quit_prompt

IInv == TypeOK /\ SocketIsOpen /\ ScreensAgree /\ NetUnderChat /\ NameUncovered

\* The client starts in the invariant, on the connect screen without a socket.
LEMMA InitIInv == Init => IInv
<1> SUFFICES ASSUME Init PROVE IInv
  OBVIOUS
<1>1. TypeOK
  <2>1. /\ tui_running \in BOOLEAN
        /\ show_quit_prompt \in BOOLEAN
        /\ show_connect_error \in BOOLEAN
        /\ connected \in BOOLEAN
    BY Zenon DEF Init
  <2>2. /\ username \in Seq(Chars)
        /\ inbox \in Seq(Byte)
        /\ numUsers \in Int
        /\ quit_selection \in {0, 1}
    BY DEF Init
  <2> QED BY <2>1, <2>2, Zenon DEF Init, TypeOK
<1>2. SocketIsOpen /\ ScreensAgree /\ NetUnderChat /\ NameUncovered
  BY Zenon DEF Init, SocketIsOpen, ScreensAgree, NetUnderChat, NameUncovered
<1> QED BY <1>1, <1>2 DEF IInv

\* Neither a new connection nor a failed one leaves cl.socket naming a
\* descriptor that is not open.
LEMMA ConnectKeeps ==
    ASSUME TypeOK, SocketIsOpen, CL_Connect
    PROVE  /\ socket' \in Fds \cup {INVALID}
           /\ socket' # INVALID => socket' \in open'
           /\ open' \subseteq Fds
           /\ connected' \in BOOLEAN
           /\ peer' \in {"off", "up", "fin", "late", "reset", "broken"}
           /\ inbox' \in Seq(Byte)
           /\ socket' = INVALID => connected' = connected
           /\ socket' # INVALID => connected'
<1>1. CASE ConnectWorks
  <2>1. PICK f \in Fds : /\ socket' = f
                         /\ open' = open \cup {f}
                         /\ connected' = TRUE
                         /\ peer' = "up"
                         /\ inbox' = << >>
    BY <1>1 DEF ConnectWorks
  <2>2. f # INVALID
    BY DEF Fds, INVALID
  <2>3. connected' /\ connected' \in BOOLEAN
    BY <2>1, Zenon
  <2>4. socket' \in Fds /\ socket' \in open' /\ open' \subseteq Fds
    BY <2>1 DEF TypeOK
  <2>5. inbox' \in Seq(Byte)
    BY <2>1
  <2>6. peer' \in {"off", "up", "fin", "late", "reset", "broken"}
    BY <2>1
  <2> QED BY <2>1, <2>2, <2>3, <2>4, <2>5, <2>6, Zenon
<1>2. CASE ConnectFails
  BY <1>2 DEF ConnectFails, TypeOK
<1> QED BY <1>1, <1>2 DEF CL_Connect

\* A disconnect closes what cl.socket names, and forgets it.
LEMMA DisconnectKeeps ==
    ASSUME TypeOK, SocketIsOpen, CL_Disconnect
    PROVE  /\ socket' \in Fds \cup {INVALID}
           /\ socket' # INVALID => socket' \in open'
           /\ open' \subseteq Fds
           /\ connected' = FALSE
           /\ peer' \in {"off", "up", "fin", "late", "reset", "broken"}
           /\ inbox' \in Seq(Byte)
<1>1. CASE connected
  BY <1>1 DEF CL_Disconnect, TypeOK
<1>2. CASE ~connected
  BY <1>2 DEF CL_Disconnect, TypeOK, SocketIsOpen, conn
<1> QED BY <1>1, <1>2

\* A send changes nothing of the connection but the far end.
LEMMA SendKeeps ==
    ASSUME TypeOK, Send
    PROVE  /\ peer' \in {"off", "up", "fin", "late", "reset", "broken"}
           /\ UNCHANGED <<connected, socket, open, inbox>>
<1>1. CASE connected
  BY <1>1 DEF Send, Net_Send, TypeOK
<1>2. CASE ~connected
  BY <1>2 DEF Send, TypeOK
<1> QED BY <1>1, <1>2 DEF TypeOK

\* Whatever a chunk holds, torn messages included, what is read of it names a
\* user in the roster's range, and never moves cl.socket but to INVALID.
LEMMA ChunkKeeps ==
    ASSUME TypeOK, SocketIsOpen, ReadChunk, UNCHANGED open
    PROVE  /\ users' \subseteq Byte
           /\ numUsers' \in Int
           /\ connected' \in BOOLEAN
           /\ socket' \in Fds \cup {INVALID}
           /\ socket' # INVALID => socket' \in open'
           /\ peer' \in {"off", "up", "fin", "late", "reset", "broken"}
           /\ inbox' \in Seq(Byte)
<1> PICK k \in 1 .. Len(inbox) :
        LET type == inbox[1]
            id   == IF k > 1 THEN inbox[2] ELSE -1
            rest == SubSeq(inbox, k + 1, Len(inbox))
        IN
        /\ \/ type = CONNECT_DENIED /\ Denied
           \/ type = USERJOIN       /\ UserJoin(id)
           \/ type = USERLEAVE      /\ UserLeave(id)
           \/ /\ type \notin {CONNECT_DENIED, USERJOIN, USERLEAVE}
              /\ UNCHANGED <<roster, connected, socket, peer>>
        /\ inbox' = IF peer' = "off" THEN << >> ELSE rest
  BY Zenon DEF ReadChunk
<1> DEFINE id   == IF k > 1 THEN inbox[2] ELSE -1
           rest == SubSeq(inbox, k + 1, Len(inbox))
<1>1. id \in Byte \cup {-1}
  BY DEF TypeOK
<1>2. inbox' \in Seq(Byte)
  <2>1. rest \in Seq(Byte)
    BY SubSeqProperties DEF TypeOK
  <2> QED BY <2>1
<1> HIDE DEF rest
<1>3. CASE Denied
  BY <1>2, <1>3 DEF Denied, TypeOK, SocketIsOpen, roster
<1>4. CASE UserJoin(id)
  <2> HIDE DEF id
  <2>1. connected' \in BOOLEAN
    BY <1>4, Zenon DEF UserJoin, TypeOK
  <2>2. socket' = INVALID \/ socket' = socket
    BY <1>4 DEF UserJoin, INVALID
  <2>3. users' \subseteq Byte /\ numUsers' \in Int
    BY <1>1, <1>4 DEF UserJoin, TypeOK
  <2>4. peer' \in {"off", "up", "fin", "late", "reset", "broken"}
    BY <1>4 DEF UserJoin, TypeOK
  <2> QED BY <1>2, <2>1, <2>2, <2>3, <2>4 DEF TypeOK, SocketIsOpen
<1>5. CASE UserLeave(id)
  <2> HIDE DEF id
  <2> QED BY <1>1, <1>2, <1>5 DEF UserLeave, TypeOK, SocketIsOpen
<1>6. CASE UNCHANGED <<roster, connected, socket, peer>>
  BY <1>2, <1>6 DEF TypeOK, SocketIsOpen, roster
<1> QED BY <1>3, <1>4, <1>5, <1>6

\* An end of file or an error only takes cl.connected down.
LEMMA EndKeeps ==
    ASSUME TypeOK, SocketIsOpen, ReadEnd, UNCHANGED open
    PROVE  /\ UNCHANGED <<roster, socket, inbox>>
           /\ connected' \in BOOLEAN
           /\ peer' \in {"off", "up", "fin", "late", "reset", "broken"}
BY DEF ReadEnd, TypeOK

\* Every step of the client, its user and its server keeps the invariant.
LEMMA NextIInv == IInv /\ [Next]_vars => IInv'
<1> SUFFICES ASSUME IInv, [Next]_vars PROVE IInv'
  OBVIOUS
<1> USE DEF IInv, SocketIsOpen, ScreensAgree, NetUnderChat, NameUncovered
<1>1. CASE UNCHANGED vars
  BY <1>1 DEF vars, screen, roster, conn, TypeOK
<1>2. ASSUME NEW m \in Feed, ServerSends(m) PROVE IInv'
  <2>1. inbox \o m \in Seq(Byte)
    BY ClientAssumption DEF TypeOK
  <2> QED BY <1>2, <2>1 DEF ServerSends, TypeOK, screen, roster
<1>3. CASE ServerCloses
  BY <1>3 DEF ServerCloses, TypeOK, screen, roster
<1>4. CASE ServerResets
  BY <1>4 DEF ServerResets, TypeOK, screen, roster
<1>5. CASE ConnectEscape
  <2>1. show_quit_prompt' \in BOOLEAN /\ tui_state' # "NAME"
    BY <1>5, Zenon DEF ConnectEscape, Shows, AskQuit
  <2> QED BY <1>5, <2>1 DEF ConnectEscape, AskQuit, TypeOK, roster, conn
<1>6. CASE ConnectEnter
  <2>1. CL_Connect /\ pc' = pc /\ ~connected /\ pc = "frame"
    BY <1>6 DEF ConnectEnter, Shows, TypeOK
  <2>2. /\ socket' \in Fds \cup {INVALID}
        /\ socket' # INVALID => socket' \in open'
        /\ open' \subseteq Fds
        /\ connected' \in BOOLEAN
        /\ peer' \in {"off", "up", "fin", "late", "reset", "broken"}
        /\ inbox' \in Seq(Byte)
        /\ socket' = INVALID => connected' = connected
        /\ socket' # INVALID => connected'
    BY <2>1, ConnectKeeps
  <2>3. /\ show_connect_error' \in BOOLEAN
        /\ show_connect_error' <=> socket' = INVALID
        /\ tui_state' = IF connected' THEN "NAME" ELSE "CONNECT"
        /\ tui_running' /\ ~show_quit_prompt'
        /\ UNCHANGED <<pc, tui_running, show_quit_prompt, quit_selection,
                       username, users, numUsers>>
    BY <1>6, Zenon DEF ConnectEnter, Shows, roster
  <2>4. TypeOK'
    BY <2>2, <2>3 DEF TypeOK
  <2>5. connected' <=> socket' # INVALID
    BY <2>1, <2>2, Zenon
  <2>6. ScreensAgree'
    <3>1. CASE connected'
      BY <2>2, <2>3, <2>5, <3>1, Zenon
    <3>2. CASE ~connected'
      BY <2>3, <3>2
    <3> QED BY <3>1, <3>2
  <2>7. NetUnderChat' /\ NameUncovered'
    BY <2>1, <2>3, Zenon
  <2> QED BY <2>2, <2>4, <2>6, <2>7, Zenon
<1>7. CASE ConnectEdit
  <2>1. /\ tui_state = "CONNECT" /\ show_connect_error' = FALSE
        /\ UNCHANGED <<pc, tui_running, tui_state, show_quit_prompt,
                       quit_selection, username, roster, conn>>
    BY <1>7, Zenon DEF ConnectEdit, Shows
  <2>2. TypeOK'
    BY <2>1 DEF TypeOK, roster, conn
  <2>3. ScreensAgree'
    BY <2>1, Zenon DEF conn
  <2>4. SocketIsOpen' /\ NetUnderChat' /\ NameUncovered'
    BY <2>1, Zenon DEF conn
  <2> QED BY <2>2, <2>3, <2>4, Zenon
<1>8. CASE NameEdit
  <2>1. username' \in Seq(Chars)
    <3>1. ASSUME username # << >>
          PROVE  SubSeq(username, 1, Len(username) - 1) \in Seq(Chars)
      <4>1. Len(username) \in Nat /\ \A k \in 1 .. Len(username) - 1 : username[k] \in Chars
        BY DEF TypeOK
      <4> QED BY <4>1, SubSeqProperties
    <3>2. ASSUME NEW ch \in Chars
          PROVE  Append(username, ch) \in Seq(Chars)
      BY DEF TypeOK
    <3>3. \/ \E ch \in Chars : username' = Append(username, ch)
          \/ /\ username # << >>
             /\ username' = SubSeq(username, 1, Len(username) - 1)
      BY <1>8, Zenon DEF NameEdit
    <3> QED BY <3>1, <3>2, <3>3, Zenon
  <2> QED BY <1>8, <2>1 DEF NameEdit, TypeOK, roster, conn
<1>9. CASE NameEscape
  <2>1. CL_Disconnect
    BY <1>9 DEF NameEscape
  <2>2. /\ socket' \in Fds \cup {INVALID}
        /\ socket' # INVALID => socket' \in open'
        /\ open' \subseteq Fds
        /\ connected' = FALSE
        /\ peer' \in {"off", "up", "fin", "late", "reset", "broken"}
        /\ inbox' \in Seq(Byte)
    BY <2>1, DisconnectKeeps
  <2> QED BY <1>9, <2>2 DEF NameEscape, Shows, TypeOK, roster
<1>10. CASE NameEnter
  <2>1. Send
    BY <1>10 DEF NameEnter
  <2>2. /\ peer' \in {"off", "up", "fin", "late", "reset", "broken"}
        /\ UNCHANGED <<connected, socket, open, inbox>>
    BY <2>1, SendKeeps
  <2> QED BY <1>10, <2>2 DEF NameEnter, Shows, TypeOK, roster
<1>11. CASE ChatLost
  BY <1>11 DEF ChatLost, Shows, TypeOK, roster, conn
<1>12. CASE ChatInput
  <2>1. /\ pc' = "net" /\ tui_state' = "CHAT" /\ tui_state = "CHAT"
        /\ UNCHANGED <<show_connect_error, username, quit_selection, roster>>
        /\ tui_running' \in BOOLEAN
        /\ show_quit_prompt' \in BOOLEAN
    BY <1>12 DEF ChatInput, Shows, AskQuit, QuitCommand, TypeOK, screen, roster
  <2>2. /\ socket' \in Fds \cup {INVALID}
        /\ socket' # INVALID => socket' \in open'
        /\ open' \subseteq Fds
        /\ connected' \in BOOLEAN
        /\ peer' \in {"off", "up", "fin", "late", "reset", "broken"}
        /\ inbox' \in Seq(Byte)
    <3>1. CASE UNCHANGED conn
      BY <3>1 DEF conn, TypeOK
    <3>2. CASE Send
      BY <3>2, SendKeeps DEF TypeOK
    <3>3. CASE CL_Connect
      BY <3>3, ConnectKeeps
    <3>4. CASE CL_Disconnect
      BY <3>4, DisconnectKeeps
    <3>5. UNCHANGED conn \/ Send \/ CL_Connect \/ CL_Disconnect
      BY <1>12 DEF ChatInput, AskQuit, QuitCommand
    <3> QED BY <3>1, <3>2, <3>3, <3>4, <3>5
  <2> QED BY <2>1, <2>2 DEF TypeOK, roster
<1>13. CASE NothingToRead
  BY <1>13 DEF NothingToRead, TypeOK, screen, roster, conn
<1>14. CASE CL_ReadServerMessages
  <2>1. /\ pc = "net" /\ pc' = "frame" /\ tui_state = "CHAT"
        /\ UNCHANGED screen /\ UNCHANGED open
        /\ ReadChunk \/ ReadEnd
    BY <1>14 DEF CL_ReadServerMessages
  <2>2. /\ users' \subseteq Byte
        /\ numUsers' \in Int
        /\ connected' \in BOOLEAN
        /\ socket' \in Fds \cup {INVALID}
        /\ socket' # INVALID => socket' \in open'
        /\ peer' \in {"off", "up", "fin", "late", "reset", "broken"}
        /\ inbox' \in Seq(Byte)
    <3>1. CASE ReadChunk
      BY <2>1, <3>1, ChunkKeeps
    <3>2. CASE ReadEnd
      <4>1. /\ UNCHANGED <<roster, socket, inbox>>
            /\ connected' \in BOOLEAN
            /\ peer' \in {"off", "up", "fin", "late", "reset", "broken"}
        BY <2>1, <3>2, EndKeeps
      <4> QED BY <2>1, <4>1 DEF TypeOK, roster
    <3> QED BY <2>1, <3>1, <3>2
  <2> QED BY <2>1, <2>2 DEF TypeOK, screen
<1>15. CASE QuitSelect
  BY <1>15 DEF QuitSelect, TypeOK, roster, conn
<1>16. CASE QuitAnswer
  <2>1. /\ tui_running' \in BOOLEAN
        /\ show_quit_prompt' \in BOOLEAN
        /\ tui_state # "NAME"
    BY <1>16, Zenon DEF QuitAnswer, PromptShown
  <2> QED BY <1>16, <2>1 DEF QuitAnswer, TypeOK, roster, conn
<1>17. CASE Shutdown
  <2>1. CL_Disconnect
    BY <1>17 DEF Shutdown
  <2>2. /\ socket' \in Fds \cup {INVALID}
        /\ socket' # INVALID => socket' \in open'
        /\ open' \subseteq Fds
        /\ connected' = FALSE
        /\ peer' \in {"off", "up", "fin", "late", "reset", "broken"}
        /\ inbox' \in Seq(Byte)
    BY <2>1, DisconnectKeeps
  <2> QED BY <1>17, <2>2 DEF Shutdown, TypeOK, screen, roster
<1>18. CASE SigPipe
  BY <1>18 DEF SigPipe, TypeOK, screen, roster, conn
<1>19. CASE Terminated
  BY <1>19, <1>1 DEF Terminated
<1> QED
  BY <1>1, <1>2, <1>3, <1>4, <1>5, <1>6, <1>7, <1>8, <1>9, <1>10, <1>11, <1>12,
     <1>13, <1>14, <1>15, <1>16, <1>17, <1>18, <1>19
  DEF Next, Server, User, Program, SendKills, ShutdownKills

\* The client never leaves its inductive invariant.
THEOREM ClientInvariance == Spec => []IInv
BY InitIInv, NextIInv, PTL DEF Spec

\* cl.socket never names a descriptor the client does not hold.
THEOREM NoStaleSocket == Spec => []SocketIsOpen
<1>1. IInv => SocketIsOpen
  BY DEF IInv
<1> QED BY <1>1, ClientInvariance, PTL

\* The screens and the connection agree.
THEOREM ScreensFollow == Spec => []ScreensAgree
<1>1. IInv => ScreensAgree
  BY DEF IInv
<1> QED BY <1>1, ClientInvariance, PTL

\* The client's state keeps its types: its indices and counters too.
THEOREM ClientTypes == Spec => []TypeOK
<1>1. IInv => TypeOK
  BY DEF IInv
<1> QED BY <1>1, ClientInvariance, PTL
=============================================================================
