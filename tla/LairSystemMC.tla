----------------------------- MODULE LairSystemMC -----------------------------
(***************************************************************************)
(* An instance of LairSystem for TLC: two clients, and either two          *)
(* connections and MaxActs acts, or a third connection, for which there is *)
(* no slot while the others are seated, and one act less.                  *)
(***************************************************************************)
EXTENDS LairSystem

CONSTANTS c1, c2, c3, p1, p2

VARIABLE third   \* is the third connection made?

ThreeConns == {c1, c2, c3}
TwoClients == {p1, p2}
OneLetter  == {"a"}

\* One name for all, and to leave.
OneName == {<<"CONNECT", "a", "NUL">>, <<"DISCONNECT">>}

MCInit == SysInit /\ third \in BOOLEAN

MCNext ==
    /\ SysNext
    /\ IF third THEN acts' < MaxActs ELSE peer'[c3] = "off"
    /\ UNCHANGED third

MCSpec == MCInit /\ [][MCNext]_<<sysVars, third>> /\ SysFairness
=============================================================================
