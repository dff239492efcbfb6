------------------------------ MODULE NetConnect ------------------------------
(***************************************************************************)
(* A connection being made: CL_Connect of src/code/client/cl_main.cpp, and *)
(* Net_Connect of src/code/posix/net_posix.cpp under it, call by call.     *)
(* LairClient has it as one step; here the answer of the other side, the   *)
(* clock of select(), and signals come between the calls.                  *)
(***************************************************************************)
EXTENDS Integers

CONSTANTS
    Handles,              \* descriptors of sockets
    INVALID,
    CONNECT_TIMEOUT_SEC,
    MaxTries              \* bound: attempts

ASSUME ConnectAssumption ==
    /\ INVALID \notin Handles
    /\ CONNECT_TIMEOUT_SEC \in Nat \ {0}
    /\ MaxTries \in Nat

VARIABLES
    step,       \* the call to be made next; "idle" outside CL_Connect
    c,          \* what Net_Connect returns, or has returned last
    handle,     \* cl.socket
    linked,     \* cl.connected
    opened,     \* the process's open sockets
    left,       \* history: those that CL_Connect wrote over cl.socket
    nonblock,   \* those with O_NONBLOCK set
    answer,     \* the other side's: "none", "asked", "up", "refused"
    clock,      \* seconds select() has waited
    tries

connVars == <<step, c, handle, linked, opened, left, nonblock, answer, clock, tries>>

Steps == {"idle", "resolve", "flags", "connect", "select", "check", "restore", "close"}
Answers == {"none", "asked", "up", "refused"}

ConnTypeOK ==
    /\ step \in Steps
    /\ c \in {0, -1}
    /\ handle \in Handles \cup {INVALID}
    /\ linked \in BOOLEAN
    /\ opened \subseteq Handles
    /\ left \subseteq opened
    /\ nonblock \subseteq opened
    /\ answer \in Answers
    /\ clock \in 0 .. CONNECT_TIMEOUT_SEC
    /\ tries \in 0 .. MaxTries

ConnInit ==
    /\ step = "idle"
    /\ c = 0
    /\ handle = INVALID
    /\ linked = FALSE
    /\ opened = {}
    /\ left = {}
    /\ nonblock = {}
    /\ answer = "none"
    /\ clock = 0
    /\ tries = 0

-----------------------------------------------------------------------------
Goes(s, ret) == step' = s /\ c' = ret

\* CL_Connect begins, with or without a connection; socket() may fail.  What
\* cl.socket named before is written over and stays open.
CallSocket ==
    /\ step = "idle" /\ tries < MaxTries
    /\ tries' = tries + 1
    /\ left' = left \cup ({handle} \ {INVALID})
    /\ answer' = "none"
    /\ \/ /\ handle' = INVALID
          /\ UNCHANGED <<step, opened>>
       \/ \E h \in Handles \ opened :
            /\ handle' = h
            /\ opened' = opened \cup {h}
            /\ step' = "resolve"
    /\ UNCHANGED <<c, linked, nonblock, clock>>

\* inet_addr, or else gethostbyname.
CallResolve ==
    /\ step = "resolve"
    /\ Goes("flags", 0) \/ Goes("close", -1)
    /\ UNCHANGED <<handle, linked, opened, left, nonblock, answer, clock, tries>>

\* fcntl: O_NONBLOCK is set.
CallFlags ==
    /\ step = "flags"
    /\ \/ Goes("connect", 0) /\ nonblock' = nonblock \cup {handle}
       \/ Goes("close", -1) /\ UNCHANGED nonblock
    /\ UNCHANGED <<handle, linked, opened, left, answer, clock, tries>>

\* connect(): at once, refused at once, or in progress.
CallConnect ==
    /\ step = "connect"
    /\ clock' = 0
    /\ \/ Goes("restore", 0) /\ answer' = "up"
       \/ Goes("restore", -1) /\ answer' = "refused"
       \/ Goes("select", 0) /\ answer' = "asked"
    /\ UNCHANGED <<handle, linked, opened, left, nonblock, tries>>

\* Mutant: no timeout is given to select().
CallSelectForever ==
    /\ step = "select"
    /\ answer # "asked" /\ Goes("check", 0)
    /\ UNCHANGED <<handle, linked, opened, left, nonblock, answer, clock, tries>>

\* select(): the socket is writable, with or without a connection; the time is
\* over, and an answer may still come; or it failed, also because a signal came,
\* as one does when the terminal's window is resized.
CallSelect ==
    /\ step = "select"
    /\ \/ answer # "asked" /\ Goes("check", 0)
       \/ answer = "asked" /\ clock = CONNECT_TIMEOUT_SEC /\ Goes("restore", -1)
       \/ Goes("restore", -1)
    /\ UNCHANGED <<handle, linked, opened, left, nonblock, answer, clock, tries>>

\* getsockopt(): SO_ERROR tells why the socket is writable.
CallCheck ==
    /\ step = "check"
    /\ \/ answer = "up" /\ Goes("restore", 0)
       \/ Goes("restore", -1) \* refused, or the call failed
    /\ UNCHANGED <<handle, linked, opened, left, nonblock, answer, clock, tries>>

\* Mutant: a connection that is up is left non-blocking.
CallRestoreFailed ==
    /\ step = "restore"
    /\ nonblock' = IF c = -1 THEN nonblock \ {handle} ELSE nonblock
    /\ Goes(IF c = 0 THEN "idle" ELSE "close", c)
    /\ linked' = (c = 0 \/ linked)
    /\ UNCHANGED <<handle, opened, left, answer, clock, tries>>

\* fcntl: O_NONBLOCK is cleared. Net_Connect returns, and so does CL_Connect if
\* the connection is up; a failure leaves cl.connected as it was.
CallRestore ==
    /\ step = "restore"
    /\ nonblock' = nonblock \ {handle}
    /\ Goes(IF c = 0 THEN "idle" ELSE "close", c)
    /\ linked' = (c = 0 \/ linked)
    /\ UNCHANGED <<handle, opened, left, answer, clock, tries>>

\* Mutant: the descriptor is forgotten and left open.
CallCloseForgets ==
    /\ step = "close"
    /\ handle' = INVALID
    /\ answer' = "none"
    /\ Goes("idle", c)
    /\ UNCHANGED <<linked, opened, left, nonblock, clock, tries>>

\* Net_Close: an answer that comes now is nobody's.
CallClose ==
    /\ step = "close"
    /\ opened' = opened \ {handle}
    /\ nonblock' = nonblock \ {handle}
    /\ handle' = INVALID
    /\ answer' = "none"
    /\ Goes("idle", c)
    /\ UNCHANGED <<linked, left, clock, tries>>

\* CL_ReadServerMessages: the server closed the connection, or denied it. The
\* socket is not closed.
Lose ==
    /\ step = "idle" /\ linked /\ handle # INVALID
    /\ linked' = FALSE
    /\ answer' = "none"
    /\ UNCHANGED <<step, c, handle, opened, left, nonblock, clock, tries>>

\* The user disconnects: CL_Disconnect, which may find no socket to close.
Hangup ==
    /\ step = "idle" /\ linked
    /\ opened' = opened \ {handle}
    /\ handle' = INVALID
    /\ linked' = FALSE
    /\ answer' = "none"
    /\ UNCHANGED <<step, c, left, nonblock, clock, tries>>

-----------------------------------------------------------------------------
(* The other side, and the clock. *)

AnswerComes ==
    /\ answer = "asked"
    /\ answer' \in {"up", "refused"}
    /\ UNCHANGED <<step, c, handle, linked, opened, left, nonblock, clock, tries>>

Tick ==
    /\ step = "select"
    /\ clock < CONNECT_TIMEOUT_SEC
    /\ clock' = clock + 1
    /\ UNCHANGED <<step, c, handle, linked, opened, left, nonblock, answer, tries>>

ConnectRuns ==
    \/ CallResolve \/ CallFlags \/ CallConnect \/ CallCheck
    \/ CallRestore \/ CallClose

ConnNext == CallSocket \/ ConnectRuns \/ CallSelect \/ Lose \/ Hangup \/ AnswerComes \/ Tick

ConnSpec == ConnInit /\ [][ConnNext]_connVars

\* The thread runs, a resolver gives up some day, time passes, and select()
\* returns when its time is over or the socket is writable. No signal and no
\* answer is owed.
ConnFairness ==
    /\ WF_connVars(ConnectRuns)
    /\ WF_connVars(Tick)
    /\ WF_connVars(CallSelect /\ (answer # "asked" \/ clock = CONNECT_TIMEOUT_SEC))

ConnFairSpec == ConnSpec /\ ConnFairness

-----------------------------------------------------------------------------
\* CL_Connect leaves the client with a connection that is up, in blocking mode,
\* or, if it failed, with no socket in cl.socket; and however the attempts went
\* and whenever the answer came, no socket of theirs is left open.  What is left
\* is what CL_Connect wrote over: the sockets of connections lost or replaced,
\* which no code closes.
AttemptClean ==
    step = "idle" =>
        /\ nonblock = {}
        /\ opened = left \cup ({handle} \ {INVALID})
        /\ handle \notin left
        /\ c = -1 => handle = INVALID
        /\ linked /\ handle # INVALID => answer = "up"

\* An attempt ends, whether or not the other side ever answers.
AttemptEnds == step # "idle" ~> step = "idle"
=============================================================================
