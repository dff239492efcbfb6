--------------------------- MODULE NetConnectProofs ---------------------------
(***************************************************************************)
(* Proofs about NetConnect, for every set of descriptors and every timeout *)
(* and however many attempts are made.                                     *)
(***************************************************************************)
EXTENDS NetConnect, TLAPS

\* The open sockets are the one cl.socket names and those that were written
\* over, at every moment; while a call is under way, it names one, the attempt's,
\* and no other is in non-blocking mode.
OneSocket ==
    /\ opened = left \cup ({handle} \ {INVALID})
    /\ handle \notin left
    /\ nonblock \subseteq {handle}
    /\ step # "idle" => handle # INVALID

\* Success is only reported of an answer that came.
SuccessIsUp == step = "restore" /\ c = 0 => answer = "up"

ConnIInv == ConnTypeOK /\ OneSocket /\ SuccessIsUp /\ AttemptClean

LEMMA ConnInitIInv == ConnInit => ConnIInv
<1> SUFFICES ASSUME ConnInit PROVE ConnIInv
  OBVIOUS
<1>1. step \in Steps /\ answer \in Answers
  BY DEF ConnInit, Steps, Answers
<1>2. c \in {0, -1} /\ clock \in 0 .. CONNECT_TIMEOUT_SEC /\ tries \in 0 .. MaxTries
  BY ConnectAssumption DEF ConnInit
<1>3. handle \in Handles \cup {INVALID} /\ opened \subseteq Handles /\ nonblock \subseteq opened
     /\ left \subseteq opened
  BY DEF ConnInit
<1>4. linked \in BOOLEAN
  BY Zenon DEF ConnInit
<1>5. OneSocket /\ SuccessIsUp /\ AttemptClean
  BY DEF ConnInit, OneSocket, SuccessIsUp, AttemptClean
<1>q. QED
  BY <1>1, <1>2, <1>3, <1>4, <1>5, Zenon DEF ConnIInv, ConnTypeOK

LEMMA ConnNextIInv == ConnIInv /\ [ConnNext]_connVars => ConnIInv'
<1> SUFFICES ASSUME ConnIInv, [ConnNext]_connVars PROVE ConnIInv'
  OBVIOUS
<1> USE ConnectAssumption DEF ConnIInv, ConnTypeOK, OneSocket, SuccessIsUp, AttemptClean,
        Steps, Answers
<1>1. CASE CallSocket
  BY <1>1 DEF CallSocket
<1>2. CASE CallResolve
  BY <1>2 DEF CallResolve, Goes
<1>3. CASE CallFlags
  BY <1>3 DEF CallFlags, Goes
<1>4. CASE CallConnect
  BY <1>4 DEF CallConnect, Goes
<1>5. CASE CallSelect
  BY <1>5 DEF CallSelect, Goes
<1>6. CASE CallCheck
  BY <1>6 DEF CallCheck, Goes
<1>7. CASE CallRestore
  BY <1>7 DEF CallRestore, Goes
<1>8. CASE CallClose
  BY <1>8 DEF CallClose, Goes
<1>9a. CASE Lose
  BY <1>9a DEF Lose
<1>9. CASE Hangup
  BY <1>9 DEF Hangup
<1>10. CASE AnswerComes
  BY <1>10 DEF AnswerComes
<1>11. CASE Tick
  BY <1>11 DEF Tick
<1>12. CASE UNCHANGED connVars
  BY <1>12 DEF connVars
<1>q. QED
  BY <1>1, <1>2, <1>3, <1>4, <1>5, <1>6, <1>7, <1>8, <1>9a, <1>9, <1>10, <1>11, <1>12
     DEF ConnNext, ConnectRuns

\* The inductive invariant holds throughout.
THEOREM ConnInvariant == ConnSpec => []ConnIInv
<1>1. ConnInit => ConnIInv
  BY ConnInitIInv
<1>2. ConnIInv /\ [ConnNext]_connVars => ConnIInv'
  BY ConnNextIInv
<1>q. QED
  BY <1>1, <1>2, PTL DEF ConnSpec

\* The types of the connection's state.
THEOREM ConnTypeCorrect == ConnSpec => []ConnTypeOK
<1>1. ConnIInv => ConnTypeOK
  BY DEF ConnIInv
<1>q. QED
  BY <1>1, ConnInvariant, PTL

\* CL_Connect leaves a connection that is up and in blocking mode, or none, and
\* no socket of an attempt that failed, whatever fails on the way and whenever the
\* answer comes; the sockets that stay open besides are those of connections lost
\* or replaced.
THEOREM AttemptIsClean == ConnSpec => []AttemptClean
<1>1. ConnIInv => AttemptClean
  BY DEF ConnIInv
<1>q. QED
  BY <1>1, ConnInvariant, PTL
=============================================================================
