------------------------------- MODULE ChatRoom -------------------------------
(***************************************************************************)
(* What the server promises its users, with no sockets, descriptors,       *)
(* frames or byte streams: a room with seats.  Whoever takes a free seat   *)
(* may give a name, speak, and leave.  Each of these is posted to everyone *)
(* in the room, one post at a time, under the name of the seat it is       *)
(* about, and a seat whose occupant gave a name is empty only after its    *)
(* leave was posted to all.                                                *)
(***************************************************************************)
CONSTANTS Conns, Nobody, Seats, Strings, Empty, NoPost

VARIABLES
    seat,      \* who sits where
    name,      \* the name given by whoever sits there
    post,      \* what is being announced
    audience   \* the seats that have still to hear it

room == <<seat, name, post, audience>>

Taken == {s \in Seats : seat[s] # Nobody}
Quiet == post = NoPost

Post(kind, s, n, t) ==
    /\ post' = [type |-> kind, slot |-> s, name |-> n, text |-> t]
    /\ audience' = Taken

RoomInit ==
    /\ seat = [s \in Seats |-> Nobody]
    /\ name = [s \in Seats |-> Empty]
    /\ post = NoPost
    /\ audience = {}

Enter(s, c) ==
    /\ Quiet
    /\ s \notin Taken
    /\ \A r \in Taken : seat[r] # c
    /\ seat' = [seat EXCEPT ![s] = c]
    /\ UNCHANGED <<name, post, audience>>

\* Any name, and below any text, will do: it is read off the next state.
Identify(s) ==
    /\ Quiet
    /\ s \in Taken
    /\ name'[s] \in Strings
    /\ name' = [name EXCEPT ![s] = name'[s]]
    /\ Post("USERJOIN", s, name'[s], Empty)
    /\ UNCHANGED seat

Say(s) ==
    /\ Quiet
    /\ s \in Taken
    /\ post' # NoPost
    /\ post'.text \in Strings
    /\ Post("CHAT", s, name[s], post'.text)
    /\ UNCHANGED <<seat, name>>

Depart(s) ==
    /\ Quiet
    /\ s \in Taken
    /\ name[s] # Empty
    /\ Post("USERLEAVE", s, name[s], Empty)
    /\ UNCHANGED <<seat, name>>

\* A post everyone has heard is over; a leave only once the seat is empty.
Hear(s) ==
    /\ s \in audience
    /\ audience' = audience \ {s}
    /\ post' = IF audience' = {} /\ post.type # "USERLEAVE" THEN NoPost ELSE post
    /\ UNCHANGED <<seat, name>>

Vacate(s) ==
    /\ s \in Taken
    /\ audience = {}
    /\ IF name[s] = Empty THEN Quiet
       ELSE ~Quiet /\ post.type = "USERLEAVE" /\ post.slot = s
    /\ seat' = [seat EXCEPT ![s] = Nobody]
    /\ name' = [name EXCEPT ![s] = Empty]
    /\ post' = NoPost
    /\ UNCHANGED audience

RoomNext ==
    \E s \in Seats :
        \/ \E c \in Conns : Enter(s, c)
        \/ Identify(s) \/ Say(s) \/ Depart(s)
        \/ Hear(s) \/ Vacate(s)

Spec == RoomInit /\ [][RoomNext]_room
=============================================================================
