----------------------------- MODULE LairServerMC -----------------------------
(* Instances of LairServer for TLC. *)
EXTENDS LairServer, TLC

CONSTANTS c1, c2, c3

TwoConns   == {c1, c2}
ThreeConns == {c1, c2, c3}
Symmetry   == Permutations(Conns)

ConnectA   == <<"CONNECT", "a", "NUL">>
Chat       == <<"CHAT", "NUL">>
Disconnect == <<"DISCONNECT">>

OneLetter == {"a"}
AllRequests == {ConnectA, Chat, Disconnect}
Talk == {ConnectA, Chat}
\* Enough to come and go.
Arrivals == {ConnectA, Disconnect}
Names == {ConnectA}
=============================================================================
