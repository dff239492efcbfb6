----------------------------- MODULE LairClientMC -----------------------------
(* An instance of LairClient for TLC. *)
EXTENDS LairClient

\* The messages of src/code/server about slot i, without names and texts.
Accepted(i) == <<CONNECT_ACCEPTED, i, 0>>
Joined(i)   == <<USERJOIN, i, 0, 0>>
Left(i)     == <<USERLEAVE, i, 0>>

\* Slot 3 is a byte that is also a type: CONNECT_DENIED.
TwoUsers == {Accepted(3), Joined(0), Joined(3), Left(3)}
=============================================================================
