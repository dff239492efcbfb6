------------------------------ MODULE LairClient ------------------------------
(***************************************************************************)
(* The terminal client: the connection kept by src/code/client and the     *)
(* screens of src/code/client-tui, one thread that runs TUI_Frame until it *)
(* returns false.  A frame of the chat screen first handles one key, then  *)
(* runs CL_Frame; the other screens, and the quit prompt that may cover    *)
(* any of them, never look at the network.                                 *)
(*                                                                         *)
(* The user and the server are the environment: any key, any line, and any *)
(* of the messages Feed at any time.  What the server sends is a stream of *)
(* bytes; the bytes of names and texts are left out of it, since the       *)
(* client only skips them (none is a message type), but not their NUL.     *)
(***************************************************************************)
EXTENDS Integers, Sequences, FiniteSets

CONSTANTS
    MaxFds,      \* descriptors the process may open
    Feed,        \* the messages the server writes, each as its bytes
    InCap,       \* bound: bytes from the server not read yet
    MaxName,     \* the name field's length
    MaxCount     \* bound: the server says no more once numUsers is past it

Byte == 0 .. 255

ASSUME ClientAssumption ==
    /\ MaxFds \in Nat
    /\ Feed \subseteq Seq(Byte)
    /\ InCap \in Nat
    /\ MaxName \in Nat
    /\ MaxCount \in Nat

INVALID == -1
Fds == 1 .. MaxFds

\* msg.h: the message types the client knows.
CONNECT_ACCEPTED == 2
CONNECT_DENIED   == 3
USERJOIN         == 9
USERLEAVE        == 10

VARIABLES
    pc,                  \* "frame": TUI_Frame starts; "net": CL_Frame is next
    tui_running,
    tui_state,
    show_quit_prompt,
    quit_selection,
    show_connect_error,
    username,            \* the name field
    connected,           \* cl.connected
    socket,              \* cl.socket
    users,               \* the ids whose cl.users entry is active
    numUsers,            \* cl.numUsers
    open,                \* kernel: the descriptors the process holds
    peer,                \* kernel: the other end of cl.socket
    inbox                \* kernel: bytes received on cl.socket and not read

screen == <<tui_running, tui_state, show_quit_prompt, quit_selection,
            show_connect_error, username>>
roster == <<users, numUsers>>
conn   == <<connected, socket, open, peer, inbox>>
vars   == <<pc, screen, roster, conn>>

\* What TUI_HandleNameValidation tells apart in a name.
Chars == {"word", "space", "other"}

\* peer: none ("off"), "up", closed by the server ("fin"), sent data since
\* ("late"), an error to report ("reset"), reported or EPIPE ("broken").
TypeOK ==
    /\ pc \in {"frame", "net", "exit", "killed"}
    /\ tui_running \in BOOLEAN
    /\ tui_state \in {"CONNECT", "NAME", "CHAT"}
    /\ show_quit_prompt \in BOOLEAN
    /\ quit_selection \in {0, 1}
    /\ show_connect_error \in BOOLEAN
    /\ username \in Seq(Chars)
    /\ connected \in BOOLEAN
    /\ socket \in Fds \cup {INVALID}
    /\ users \subseteq Byte
    /\ numUsers \in Int
    /\ open \subseteq Fds
    /\ peer \in {"off", "up", "fin", "late", "reset", "broken"}
    /\ inbox \in Seq(Byte)

Stopped == pc \in {"exit", "killed"}

Init ==
    /\ pc = "frame"
    /\ tui_running = TRUE
    /\ tui_state = "CONNECT"
    /\ show_quit_prompt = FALSE
    /\ quit_selection = 1
    /\ show_connect_error = FALSE
    /\ username = << >>
    /\ connected = FALSE
    /\ socket = INVALID
    /\ users = {}
    /\ numUsers = 0
    /\ open = {}
    /\ peer = "off"
    /\ inbox = << >>

-----------------------------------------------------------------------------
(* The server and the network. *)

ServerSends(m) ==
    /\ ~Stopped
    /\ peer = "up"
    /\ Len(inbox) + Len(m) <= InCap
    /\ numUsers \in -MaxCount .. MaxCount
    /\ inbox' = inbox \o m
    /\ UNCHANGED <<pc, screen, roster, connected, socket, open, peer>>

ServerCloses ==
    /\ ~Stopped
    /\ peer = "up"
    /\ peer' = "fin"
    /\ UNCHANGED <<pc, screen, roster, connected, socket, open, inbox>>

\* The server died, or answers data sent to it after its close.
ServerResets ==
    /\ ~Stopped
    /\ peer \in {"up", "late"}
    /\ peer' = IF peer = "up" THEN "reset" ELSE "broken"
    /\ UNCHANGED <<pc, screen, roster, connected, socket, open, inbox>>

-----------------------------------------------------------------------------
(* src/code/client: the connection. *)

Lowest(f, S) == f \in S /\ \A g \in S : f <= g

\* Mutant: after the failure cl.socket keeps the closed descriptor.
ConnectFailsKeepingSocket ==
    /\ \E f \in Fds : Lowest(f, Fds \ open) /\ socket' = f
    /\ peer' = "off"
    /\ inbox' = << >>
    /\ UNCHANGED <<connected, open>>

\* No descriptor, no such host, refused, or CONNECT_TIMEOUT_SEC has passed:
\* what cl.socket named before is neither closed nor marked as lost.
ConnectFails ==
    /\ socket' = INVALID
    /\ peer' = "off"
    /\ inbox' = << >>
    /\ UNCHANGED <<connected, open>>

ConnectWorks ==
    \E f \in Fds :
        /\ Lowest(f, Fds \ open)
        /\ socket' = f
        /\ open' = open \cup {f}
        /\ connected' = TRUE
        /\ peer' = "up"
        /\ inbox' = << >>

CL_Connect == ConnectWorks \/ ConnectFails

\* Net_Send on cl.socket, whose result is ignored; SIGPIPE is an action below.
\* On INVALID_SOCKET_HANDLE it is EBADF.
Net_Send ==
    /\ peer # "broken"
    /\ peer' = CASE peer = "fin"   -> "late"
                 [] peer = "reset" -> "broken"
                 [] OTHER          -> peer

\* CL_SendConnect, CL_SendChat
Send ==
    /\ connected => Net_Send
    /\ ~connected => UNCHANGED peer
    /\ UNCHANGED <<connected, socket, open, inbox>>

\* CL_SendDisconnect, then Net_Close; the roster stays.
CL_Disconnect ==
    IF connected
    THEN /\ peer # "broken"
         /\ connected' = FALSE
         /\ socket' = INVALID
         /\ open' = open \ {socket}
         /\ peer' = "off"
         /\ inbox' = << >>
    ELSE UNCHANGED conn

-----------------------------------------------------------------------------
(* The connect screen. *)

Shows(s) ==
    /\ pc = "frame"
    /\ tui_running
    /\ ~show_quit_prompt
    /\ tui_state = s

\* Escape, on the connect screen and on the chat screen.
AskQuit ==
    /\ show_quit_prompt' = TRUE
    /\ UNCHANGED <<tui_running, tui_state, quit_selection, show_connect_error,
                   username, roster, conn>>

ConnectEscape == Shows("CONNECT") /\ AskQuit /\ UNCHANGED pc

\* The error is shown in the dialog; the screen changes with the flag.
ConnectEnter ==
    /\ Shows("CONNECT")
    /\ CL_Connect
    /\ show_connect_error' = (socket' = INVALID)
    /\ tui_state' = IF connected' THEN "NAME" ELSE "CONNECT"
    /\ UNCHANGED <<pc, tui_running, show_quit_prompt, quit_selection, username,
                   roster>>

ConnectEdit ==
    /\ Shows("CONNECT")
    /\ show_connect_error' = FALSE
    /\ UNCHANGED <<pc, tui_running, tui_state, show_quit_prompt, quit_selection,
                   username, roster, conn>>

-----------------------------------------------------------------------------
(* The name screen. *)

\* TUI_HandleNameValidation
ValidName(n) ==
    /\ \A k \in DOMAIN n : n[k] # "other"
    /\ \E k \in DOMAIN n : n[k] = "word"

NameEdit ==
    /\ Shows("NAME")
    /\ \/ \E ch \in Chars :
            /\ Len(username) < MaxName
            /\ username' = Append(username, ch)
       \/ /\ username # << >>
          /\ username' = SubSeq(username, 1, Len(username) - 1)
    /\ UNCHANGED <<pc, tui_running, tui_state, show_quit_prompt, quit_selection,
                   show_connect_error, roster, conn>>

\* Mutant: the connection is not given up.
NameEscapeConnected ==
    /\ Shows("NAME")
    /\ tui_state' = "CONNECT"
    /\ UNCHANGED <<pc, tui_running, show_quit_prompt, quit_selection,
                   show_connect_error, username, roster, conn>>

NameEscape ==
    /\ Shows("NAME")
    /\ CL_Disconnect
    /\ tui_state' = "CONNECT"
    /\ UNCHANGED <<pc, tui_running, show_quit_prompt, quit_selection,
                   show_connect_error, username, roster>>

\* CL_SendConnect; a name that is not valid is asked for again.
NameEnter ==
    /\ Shows("NAME")
    /\ ValidName(username)
    /\ Send
    /\ tui_state' = "CHAT"
    /\ UNCHANGED <<pc, tui_running, show_quit_prompt, quit_selection,
                   show_connect_error, username, roster>>

-----------------------------------------------------------------------------
(* The chat screen: the key, then CL_Frame. *)

\* cl.connected is down: back to the connect screen, with an empty name.
ChatLost ==
    /\ Shows("CHAT")
    /\ ~connected
    /\ tui_state' = "CONNECT"
    /\ username' = << >>
    /\ UNCHANGED <<pc, tui_running, show_quit_prompt, quit_selection,
                   show_connect_error, roster, conn>>

\* Cmd_Quit_f: CL_Shutdown, TUI_Quit
QuitCommand ==
    /\ CL_Disconnect
    /\ tui_running' = FALSE
    /\ UNCHANGED <<tui_state, show_quit_prompt, quit_selection,
                   show_connect_error, username, roster>>

\* TUI_HandleInput.  No key, or one that only edits, scrolls, changes tabs, or
\* a line that only prints (/help, /users, an error) changes nothing here; a
\* text and /name are sent; /connect, /disconnect and /quit do what they say.
ChatInput ==
    /\ Shows("CHAT")
    /\ connected
    /\ pc' = "net"
    /\ \/ UNCHANGED <<screen, roster, conn>>
       \/ AskQuit
       \/ (Send \/ CL_Connect \/ CL_Disconnect) /\ UNCHANGED <<screen, roster>>
       \/ QuitCommand

\* recv() returns at once.
Readable == socket # INVALID /\ (inbox # << >> \/ peer # "up")

\* CL_Frame, when it has nothing to read: not connected, or the 10 ms passed.
NothingToRead ==
    /\ pc = "net"
    /\ ~connected \/ ~Readable
    /\ pc' = "frame"
    /\ UNCHANGED <<screen, roster, conn>>

\* The entry of user id, -1 when MSG_ReadByte found no byte.  cl.users[-1] is
\* the head of cl itself: active is cl.connected and id is cl.socket.
UserJoin(id) ==
    /\ numUsers' = numUsers + 1
    /\ IF id # -1
       THEN users' = users \cup {id} /\ UNCHANGED <<connected, socket, peer>>
       ELSE connected' = TRUE /\ socket' = -1 /\ peer' = "off" /\ UNCHANGED users

UserLeave(id) ==
    LET active == IF id # -1 THEN id \in users ELSE connected IN
    /\ numUsers' = IF active THEN numUsers - 1 ELSE numUsers
    /\ users' = users \ {id}
    /\ connected' = (connected /\ id # -1)
    /\ UNCHANGED <<socket, peer>>

Denied == connected' = FALSE /\ UNCHANGED <<roster, socket, peer>>

\* CL_ReadServerMessages: one recv(), some prefix of the stream.  Its first
\* byte selects the handler; what follows the first message is lost.
ReadChunk ==
    \E k \in 1 .. Len(inbox) :
        LET type == inbox[1]
            id   == IF k > 1 THEN inbox[2] ELSE -1
            rest == SubSeq(inbox, k + 1, Len(inbox))
        IN
        /\ \/ type = CONNECT_DENIED /\ Denied
           \/ type = USERJOIN       /\ UserJoin(id)
           \/ type = USERLEAVE      /\ UserLeave(id)
           \/ /\ type \notin {CONNECT_DENIED, USERJOIN, USERLEAVE}
              /\ UNCHANGED <<roster, connected, socket, peer>>
        /\ inbox' = IF peer' = "off" THEN << >> ELSE rest

\* Mutant: `length < 0' for `length <= 0'.
ReadError ==
    /\ inbox = << >>
    /\ connected' = (peer \in {"fin", "late"})
    /\ peer' = IF peer = "reset" THEN "broken" ELSE peer
    /\ UNCHANGED <<roster, socket, inbox>>

\* recv() returned 0 or -1; the socket stays open.
ReadEnd ==
    /\ inbox = << >>
    /\ connected' = FALSE
    /\ peer' = IF peer = "reset" THEN "broken" ELSE peer
    /\ UNCHANGED <<roster, socket, inbox>>

CL_ReadServerMessages ==
    /\ pc = "net"
    /\ connected
    /\ Readable
    /\ ReadChunk \/ ReadEnd
    /\ pc' = "frame"
    /\ UNCHANGED <<screen, open>>

-----------------------------------------------------------------------------
(* The quit prompt, and the end. *)

PromptShown == pc = "frame" /\ tui_running /\ show_quit_prompt

\* Mutant: the other button is the next one.
QuitSelectNext ==
    /\ PromptShown
    /\ quit_selection' = quit_selection + 1
    /\ UNCHANGED <<pc, tui_running, tui_state, show_quit_prompt,
                   show_connect_error, username, roster, conn>>

QuitSelect ==
    /\ PromptShown
    /\ quit_selection' = 1 - quit_selection
    /\ UNCHANGED <<pc, tui_running, tui_state, show_quit_prompt,
                   show_connect_error, username, roster, conn>>

\* Enter acts on the selection, Escape is a no; either way the prompt goes.
QuitAnswer ==
    /\ PromptShown
    /\ tui_running' \in {TRUE, quit_selection # 0}
    /\ show_quit_prompt' = FALSE
    /\ UNCHANGED <<pc, tui_state, quit_selection, show_connect_error, username,
                   roster, conn>>

\* main: TUI_Frame returned false; TUI_Shutdown, CL_Shutdown.
Shutdown ==
    /\ pc = "frame"
    /\ ~tui_running
    /\ CL_Disconnect
    /\ pc' = "exit"
    /\ UNCHANGED <<screen, roster>>

\* A send fails with EPIPE: SIGPIPE, which the program does not handle.
SigPipe ==
    /\ connected
    /\ peer = "broken"
    /\ pc' = "killed"
    /\ UNCHANGED <<screen, roster, conn>>

SendKills     == (Shows("NAME") \/ Shows("CHAT")) /\ SigPipe
ShutdownKills == pc = "frame" /\ ~tui_running /\ SigPipe

Terminated == Stopped /\ UNCHANGED vars

-----------------------------------------------------------------------------
Server == (\E m \in Feed : ServerSends(m)) \/ ServerCloses \/ ServerResets

User ==
    \/ ConnectEscape \/ ConnectEnter \/ ConnectEdit
    \/ NameEdit \/ NameEscape \/ NameEnter
    \/ QuitSelect \/ QuitAnswer \/ SendKills

\* What TUI_Frame does on the chat screen and at the end, key or no key.
Program ==
    \/ ChatLost \/ ChatInput
    \/ NothingToRead \/ CL_ReadServerMessages
    \/ Shutdown \/ ShutdownKills

Next == Server \/ User \/ Program \/ Terminated

Spec == Init /\ [][Next]_vars

\* main's loop goes on; nothing is asked of the user or of the server.
FairSpec == Spec /\ WF_vars(Program)

-----------------------------------------------------------------------------
(* What the client promises. *)

\* cl.socket never names a descriptor the process does not hold, so no frame,
\* command or screen ever sends on, reads or closes one it was not given:
\* across failed connects, lost connections and reconnects.
SocketIsOpen == socket # INVALID => socket \in open

\* The screens and the connection agree: on the connect screen there is no
\* connection to overwrite, the name screen has one for the name it will send,
\* and an error of the connect screen is gone when another screen shows.
ScreensAgree ==
    /\ tui_state = "CONNECT" => ~connected
    /\ tui_state = "NAME" => connected /\ socket \in open
    /\ show_connect_error => tui_state = "CONNECT"

\* A connection the server closed or reset takes the user back to the connect
\* screen, unless the quit prompt is opened or another connection is made.
LossIsNoticed ==
    \A f \in Fds :
        (tui_state = "CHAT" /\ connected /\ socket = f /\ peer # "up") ~>
            (\/ tui_state = "CONNECT" \/ show_quit_prompt \/ Stopped
             \/ socket # f \/ peer = "up")

\* tui.cpp:865 "Check if connection was lost - return to connect screen": the
\* check reads cl.connected, which holds only while there is a connection.
ConnectedHasSocket == connected => socket # INVALID
=============================================================================
