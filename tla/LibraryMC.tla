------------------------------- MODULE LibraryMC -------------------------------
(***************************************************************************)
(* The parts below client and server that keep state of their own, on      *)
(* small instances: message buffers, the command table, command lines and  *)
(* the making of a connection. They share nothing, so they are explored    *)
(* one at a time: part names the one whose steps are taken.                *)
(***************************************************************************)
EXTENDS MsgBuffer, CmdBuffer, NetConnect

VARIABLE part

MCSizes   == {3, 5}
MCInts    == {-2, 300}
MCStrings == {<<65>>, <<65, 66>>}
MCBlocks  == {<<0, 7>>}

\* 97 and 99 share a bucket of two; 98 and <<98, 32>> do as well.
MCNames    == {<<97>>, <<98>>, <<99>>, <<98, 32>>}
MCCommands == {<<97>>}
\* The long word and its NUL fill cmd_tokenized.
MCBare     == {<<97>>, [k \in 1 .. 6 |-> 97]}
MCQuoted   == {<<98, 32>>, << >>}
MCGaps     == {<<SPACE>>}

Init ==
    /\ part \in {"msg", "table", "lines", "connect"}
    /\ MsgInit /\ LineInit /\ ConnInit

Next ==
    /\ UNCHANGED part
    /\ \/ part = "msg"     /\ MsgNext   /\ UNCHANGED <<cmdVars, connVars>>
       \/ part = "table"   /\ TableNext /\ UNCHANGED <<msgVars, lineVars, connVars>>
       \/ part = "lines"   /\ LineNext  /\ UNCHANGED <<msgVars, connVars>>
       \/ part = "connect" /\ ConnNext  /\ UNCHANGED <<msgVars, cmdVars>>

Spec == Init /\ [][Next]_<<part, msgVars, cmdVars, connVars>> /\ ConnFairness
=============================================================================
