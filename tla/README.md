# TLA+ models of LAIR

LAIR is a TCP text chat: a server that relays, and a terminal client. These
modules model the code under `src/code`, TLC checks them on small instances,
and TLAPS proves the safety properties that matter most for every instance.

## The system

| component | source | state | operations |
|---|---|---|---|
| server loop | `server/sv_main.cpp`, `server/main.cpp` | `running`, `sv.clients[]` (active, socket, name), `sv.numclients` | one thread: `select`, at most one `accept`, then one `recv` and its handler per readable slot, broadcasts, drops; SIGINT |
| POSIX sockets | `posix/net_posix.cpp` | none of its own | `Net_Accept`, `Net_Connect`, `Net_Send`, `Net_Recv`, `Net_Close` |
| client connection | `client/cl_main.cpp` | `cl.connected`, `cl.socket`, `cl.users[]`, `cl.numUsers` | connect, disconnect, sends, `CL_Frame`, `CL_ReadServerMessages` |
| client commands | `client/cl_commands.cpp` | none | `/connect`, `/name`, `/disconnect`, `/quit`, `/users`, `/help` |
| terminal screens | `client-tui/tui.cpp`, `client-tui/main.cpp` | `tui_state`, quit prompt, name field, error flag, chat log, scroll offset | `TUI_Frame`, one input handler per screen, `TUI_AddMessage`, `TUI_DrawChatWindow` |
| message buffers | `lcommon/msg.cpp` | a cursor in a buffer | reads and writes of bytes, integers, strings |
| command table | `lcommon/cmd.cpp` | tokens, hash table, command buffer | tokenize, add, remove, find, execute |
| common and system layer | `lcommon/common.cpp`, `posix/sys_posix.cpp` | none | printing, clock, exit |
| Qt shell | `client-qt`, `ui/qt` | none | a window with labels |

How they interact: the client and the server share nothing but TCP byte
streams. Inside the client the screens call the connection directly, the
connection calls back into the chat log, and both read `cl.connected`. Inside
the server the handlers run to completion inside `SV_Frame`.

What is hard here:

- between any two system calls of either program the other side sends, stops
  reading, closes, or is reset, and descriptors are reused at once;
- what a client knows of the others is what was broadcast while it was there,
  and it keeps it over its connections;
- a stream has no message boundaries, and both readers assume that one
  `recv()` is one message;
- the server's accepted sockets block, and it has one thread;
- the client keeps what is one fact (is there a connection?) in two variables,
  and looks at the network only on one of its screens;
- scrolling is computed in lines and done in messages.

`PROJECT.json` lists these as hazards, each at its line, with the properties
aimed at it.

What makes each component correct: the server never blocks in `recv`, neither
leaks nor confuses descriptors, never speaks in the wrong name, tells everyone
who leaves, and serves, drops and stops when it should; the client's screens
follow its connection, its socket is always its own, and a lost connection is
noticed; an attempt to connect ends and leaves nothing of its own behind; rosters are right
about everything their client was told; the log keeps the latest messages and
can be scrolled to its oldest; a buffer gives back what was written to it, the
command table is a map, and the line that was typed is the command that runs.

## Modules

| module | what it is |
|---|---|
| `LairServer` | the server and the kernel under it |
| `ChatRoom` | what the server promises: seats, names, one post at a time heard by all |
| `LairServerMC` | instances of `LairServer` |
| `LairServerProofs` | the server's inductive invariant and the theorems from it |
| `LairServerRefinement` | the proof that the server implements `ChatRoom` |
| `LairSystem` | the server with client processes for its peers; extends `LairServer` |
| `LairSystemMC`, `LairSystemProofs` | its instance, its theorems |
| `LairClient` | the client's connection, roster and screens |
| `LairClientMC`, `LairClientProofs` | its instance, its theorems |
| `ChatHistory` | the chat log, the scroll keys and what a draw shows |
| `ChatHistoryMC`, `ChatHistoryProofs` | its instance, its theorems |
| `NetConnect`, `NetConnectProofs` | `CL_Connect` and `Net_Connect` call by call, theorems |
| `MsgBuffer`, `MsgBufferProofs` | the message buffer, theorems |
| `CmdTable` | the command table |
| `CmdBuffer` | the tokenizer, execution and the command buffer; extends `CmdTable` |
| `CmdProofs` | theorems about the last two |
| `LibraryMC` | one instance of `NetConnect`, `MsgBuffer` and `CmdBuffer`, and with it of `CmdTable` |

### LairServer

`pc` says where the thread stands: `select`, `accept`, `read`, `welcome`,
`send`, `drop`, `exit`, `killed`. Each system call is an action of its own, and
what the program does up to the next one belongs to that action:

- `Select`, `SelectNothing`: the set of ready descriptors is filled, and stays
  as it is for the frame (`readfds`);
- `AcceptFails`, `Reject`, `Seat`: the outcomes of the one accept;
- `ReadClientMessage`: one `recv` on the lowest slot still to read. It returns
  any non-empty prefix of the stream; the first byte selects `HandleConnect`,
  `HandleChat`, `DropClient` or `IgnoreMessage`, and the rest of the chunk
  after the first message is gone, as in the code;
- `SendWelcome`, `BroadcastMessage`: one `send` each. A send is taken, reports
  an error the callers ignore, kills the process (EPIPE without
  `MSG_NOSIGNAL`), or waits: while the buffer of the peer is `full` the action
  is not enabled, and neither is anything else of the server;
- `CloseClient`: `SV_DropClient` from its `Net_Close` on;
- `SigHandler`: SIGINT, between any two steps. `signal()` installs it with
  restart semantics, so only `select` returns early.

The kernel (`fds`, `backlog`, `peer`, `inbox`, `full`) and the peers are
external, modelled from how the code uses them. A descriptor is the lowest free
one. A peer is `up`, has closed (`fin`), has been sent to since (`late`), has a
pending reset (`reset`), or its error was reported (`broken`).

Two history variables serve the properties: `named[c]`, the name connection `c`
last gave, and `heard[c]`, the slots it was told are taken.

Names and texts are sequences of bytes, a request is the bytes a client writes.
The lengths at which the code cuts names (31), texts (1023) and chunks (16384)
are beyond the bounds of the model.

### LairClient

`pc = "frame"` is the start of `TUI_Frame`, `pc = "net"` the call of `CL_Frame`
that follows a key on the chat screen. The server is the environment: it sends
any message of `Feed`, closes, or resets, at any time. Only the socket in
`cl.socket` has a stream, since the client never touches a descriptor it has
forgotten; `open` still holds it.

Messages are bytes, so that a chunk may end anywhere. The bytes of names and
texts are left out (they are skipped, and none is a message type), their NUL is
kept. In the instance one user has slot 3, a byte which, found at the head of a
chunk, is `MSG_CONNECT_DENIED`.

A message cut before its user id gives id -1. `cl.users[-1]` lies in the object
`cl`, on its first members: `cl_clientinfo_t` and what precedes `users` in
`cl_client_t` have the same size (44 bytes) and layout, so `active` is
`cl.connected` and `id` is `cl.socket`. That is what the build does, and what
`UserJoin(-1)` and `UserLeave(-1)` do.

The client's own sends are not held up: it writes at most a line between two
reads. The line being typed, the host and port fields and all drawing are left
out; a line is what its Enter does.

### ChatHistory

`chat_messages` is the used part of the table. `Screen` computes the messages
`TUI_DrawChatWindow` would draw now; `LinesNeeded` is the count it computes
from lengths, `LinesDrawn` what breaking at spaces really takes. Widths are
those of the code (13 columns before a text, 4 for the border), and the windows
of the instance leave 0 and 3 columns for the text. A width of 0 divides by
zero: `alive` becomes FALSE. Windows narrower than what precedes a text are left
out (`HistoryAssumption`).

A table that is emptied, or a larger window, may leave the scroll offset past what
there is to scroll. `TopIsReached` is about every offset from the furthest on,
those left behind included, whether or not the window was drawn since.

Skipping is counted in lines and done by message: when only some lines of the
first message drawn were to be skipped, it is drawn whole, and what was left to
skip may swallow a message further down. `GapsBehindLong` bounds that: the lines
swallowed are fewer than the first message drawn needs.

### LairSystem

The server's actions are those of `LairServer`, unchanged; `ServerRuns` adds
that what it sends goes on the `wire` of its recipient. A client has `sock`
(`cl.socket`, while connected) and `list` (the active entries of `cl.users`, with
their names). It connects, sends requests, disconnects, reads, is closed by the
server, or is killed and started again with an empty roster. `full` of
`LairServer`, there a free choice, is here that `SendBuf` messages wait.

The server's messages travel whole. Two that wait together may come out of one
`recv()`, of which the client handles the first; `doubt` keeps, as history, the
slots such lost messages were about, and those a client lists from an earlier
connection. About the other slots the roster has to be right (`RosterExact`):
this is what the code does provide, since it neither clears the roster on a
connect nor parses the rest of a chunk. Requests reach the server whole, too,
unless several are read together.

### NetConnect

`step` names the next call: `socket`, the resolver, `fcntl`, `connect`, `select`
with its three seconds, `getsockopt`, the `fcntl` that restores the flags, and
`Net_Close` in `CL_Connect`. `answer` is the other side's, and may come after
`select()` gave up. A signal (the terminal sends one when its window is resized)
ends the wait early, and the attempt fails. `LairClient` sees all of this as one
step that works or fails.

`CL_Connect` asks for no state: an attempt may begin on a live connection
(`/connect` from the chat), or after the connection was lost (`Lose`: the end of
`CL_ReadServerMessages`, which clears `cl.connected` and closes nothing). Either
way `cl.socket` is written over, and the socket it named stays open: `left` keeps
those, as history. `AttemptClean` then says exactly what is open between attempts:
what `cl.socket` names, and `left`. So the leak is in the model, and the property
says that an attempt adds nothing to it. After a failed attempt `linked` may hold
with no socket, as in the code; `Hangup` finds nothing to close then.

### MsgBuffer, CmdTable, CmdBuffer

`data` is the written part of a buffer; the module keeps what was written and
read, and compares. A read that finds too few bytes consumes nothing and yields
no value: the reader may ask again. `MSG_WriteShort` and `MSG_WriteLong` ask for
room for one byte, as in the code. The program itself writes bytes and strings
only.

`CmdTable` has the chains of the hash table and, as history, the map they stand
for. `dangling` is the state after `Cmd_Shutdown`, which frees the entries and
leaves the buckets: nothing but `Cmd_Init` is called then. A bucket is the hash
modulo a power of two, so that only the low bits of the 32 are computed.

`CmdBuffer` types lines of words, as a user thinks of them, writes them out as
text (the quote that ends the last word may be left out), lets the code tokenize
and execute the text, and compares the calls with the words. Characters are values
of C's `char`, which may be negative and are blanks then, as in the code.

The words of a text are written to `cmd_tokenized`, `MAX_CMD_LENGTH` bytes, and
nothing stops at its end. A line of the chat screen is shorter (`MaxInput`, 255 of
1024 in the code), but `Cbuf_Execute` passes lines as long as the command buffer.
`Overruns` is a text whose words do not fit. What a program does that has written
past an array is undefined, so `intact` becomes FALSE and the model ends there:
the lines before it were executed, it and those after it were not. `TokensFit`
says which lines can do that. The cut at `MAX_CMD_LENGTH - 1` in `Cmd_Args` is
only reached by lines that have overrun already.

`Cbuf_*`, `Cmd_RemoveCommand`, `Cmd_Shutdown` and `Cmd_Args` are called nowhere in
the program yet; they are modelled as any caller may use them.

## Runs

| run | instance | shows |
|---|---|---|
| `server_chat` | 2 connections, 2 slots, 3 descriptors, queue of 1, CONNECT and CHAT, up to 4 bytes in flight, no resets | every safety property, and that `LairServer` implements `ChatRoom` |
| `server_full` | 3 connections, 2 slots, 2 descriptors, queue of 1, resets | safety with failing accepts, resets, reused slots and descriptors |
| `server_live` | 2 connections, 1 slot, 2 descriptors, queue of 2, CONNECT and DISCONNECT, resets | the liveness properties, with rejections |
| `server_lost` | 2 connections, 1 slot, CONNECT and CHAT, 4 bytes in flight, no resets | finding: a chat message read together with another is lost |
| `server_reset` | 2 slots, resets | finding: SIGPIPE ends the server |
| `server_stall` | 2 slots | finding: a client that does not read stops the server |
| `client` | 2 descriptors, 4 messages about 2 users, 7 bytes in flight | types, `SocketIsOpen`, `ScreensAgree`, `LossIsNoticed` |
| `client_lost` | same | finding: a failed `/connect` leaves the client connected to nothing |
| `history` | a table of 4, 5 arrivals, messages of 1 and 6 characters, three windows | types, `LogIsRecent`, `TopIsReached`, `GapsBehindLong` |
| `system` | 2 client processes, 2 slots, resets, 2 messages in a client's buffer; 2 connections and 4 acts of users, or 3 connections and 3 acts | types, `RosterExact`, `JoinIsListed` |
| `system_users` | same | finding: a newcomer does not list who was there before |
| `library` | buffers of 3 and 5 bytes, 2 reads; 4 names in 2 buckets; lines of 3 words with 2 tokens allowed, 7 bytes for them, typed lines of 6 characters, a command buffer of 11 and 2 lines; 2 descriptors, 3 attempts | the properties of `MsgBuffer`, `CmdTable`, `CmdBuffer`, `NetConnect` |

Why the bounds are enough. Two clients are a broadcast with a sender and a
listener, and a drop with someone to hear it; the third connection of
`server_full` is one that finds slots and descriptors taken and then reuses
them. A request is in flight whole. Four bytes (`server_chat`, `server_lost`)
hold two CHATs, or what a torn chunk left of one message and the next, so chunks
end before, inside and after a message; three (`server_full`, `server_live`)
hold a CONNECT with a name. In `server_chat` there is a descriptor to spare, and
in `server_full` there is none, so that accept fails. A connection that is
accepted and rejected takes a free descriptor and finds no free
slot: `server_live`, with one slot for two connections, and `system`, with a third
connection for two slots, have that, and the theorems have it for all sizes. The table of 4 is passed by 5 arrivals, and emptied and
filled again. Four acts let both clients connect and give a name, or one
connect, name itself, leave and come back over a roster it kept; disconnects and
kills are not counted. With three connections a client that comes back before
the server has noticed that it left finds no slot, and is turned away. The
instance has one name; that of several the one given last is listed rests on the
theorem `RostersExact`. A line of three words is one longer than its limit of
tokens, its words quoted, empty or neither; one word of 6 characters fills the 7
bytes it is tokenized to, and with another word after it, in the command buffer,
overruns them, as the first line executed or behind one that was; a buffer of 11
characters refuses some second lines and takes others; in buckets of 2, two
pairs of names collide. Three attempts are one whose answer comes late, one that
works, and one after it; with two descriptors they also leave one socket behind,
or two, and find none for the next. `library` explores its four parts one at a
time, since they share no state; a line is typed while the command buffer is
empty, which the code does not look at then.

The counter `numUsers`, which has no limit in the code, is held by
`MaxCount`: the server says no more once it is reached.

Deadlock is checked in every run but `library`, whose bounded attempts and reads
end; the ends of the programs (`Terminated`, `Dead`, `SysTerminated`) are
stuttering steps of their own. `server_chat` and `server_full` use the symmetry
of the connections; they check no liveness.

Fairness. `ServerFairness` is weak fairness of the server's next step: a
runnable process is scheduled. `PeersRead` is weak fairness of each peer's
reading, and `server_stall` is the run that shows it is needed. Nothing is
asked of SIGINT, of connects, of closes or of what peers write. `FairSpec` of
the client is weak fairness of `Program`: what `TUI_Frame` does on the chat
screen and at the end, with no key pressed; the user and the server owe
nothing. `LossIsNoticed` excepts a user who opens the quit prompt, under which
the client does not look at the network. `SysFairness` is weak fairness of the
server's step, of each connected client's `CL_Frame`, and of the kernel's closing
of sockets that nobody holds; users owe nothing. `ConnFairness` is weak fairness
of the calls that return by themselves (the resolver gives up some day), of the
clock, and of `select()` once its time is over or the socket is writable: no
answer is owed.

## Proofs

All theorems hold for any values of the constants that satisfy
the assumptions named in the modules (`ServerAssumption`, `SystemAssumption`,
`ClientAssumption`, `HistoryAssumption`, `MsgAssumption`, `IntAssumption`,
`TableAssumption`, `LineAssumption`, `ConnectAssumption`): sizes are naturals, at
least one slot and one place in the queue, requests are sequences of bytes,
among them DISCONNECT, `NoConn` is not a connection, the window is not narrower
than what precedes a text and higher than its border, integers have 32 bits,
strings and blocks are what C has, a hash is a natural, no descriptor is
`INVALID`. In the composition the one request that begins with the byte
DISCONNECT is that byte: it is all `CL_SendDisconnect` writes. The words of a
line are those a user can mean: a bare word is not empty, holds no blank and
does not begin with a quote or a slash, a quoted one holds no quote, and neither
holds what ends a line.

`LairServerProofs`: none of the properties is inductive alone. `IInv` adds to
the types

- `PcOK`: what each program counter value says of `cur`, `msg` and `sendTo`;
- `Matched`, `Counted`: descriptors and active slots correspond, `numclients`
  is their number (`SocketsExact`);
- `Owners`: a connection is in one slot or once in the queue, never both;
- `Fresh`: a descriptor reported readable and not read yet still belongs to a
  slot that has something to read, or to none (`NoBlockingRecv`);
- `Unheard`: a connection not seated has no name and no roster; a name held in
  a slot is the one its connection gave (`OwnName`);
- `Nested`: rosters of live clients form a chain, except that in a broadcast
  those already served are ahead by its slot (`RostersNested`);
- `LeaveTold`: in the broadcast of a leave, those served know (`LeaveIsHeard`).

`Invariance` is `Spec => []IInv`; each of `TypeCorrect`, `RecvNeverBlocks`,
`NoLeak`, `NamesAreOwn`, `LeavesAreHeard` and `RostersAgree` follows from it.

`LairServerRefinement`: `ServerRefinesRoom` is `Spec => Refines`; the mapping is
stated with `Refines` in `LairServer`. An accept is an `Enter`, what a handler
does before its first send an `Identify`, `Say` or `Depart`, a send of a
broadcast a `Hear`, closing the leaver's socket a `Vacate`; the welcome, and the
steps of peers and kernel, change nothing the room sees. `Known` is what this
takes of `IInv` (the types, `PcOK`, `Matched`, `Owners`), with `Announcing`: what
is being announced at each `pc`, above all that from the broadcast of a leave
until the socket is closed it is the leave of a client that gave a name.

`LairSystemProofs`: every step of the system is a step of `LairServer` or leaves
its variables alone (`StepIsServerStep`), hence `SystemRunsServer`, `SysSpec =>
Spec`: all that is proved of the server for arbitrary peers holds among these
clients. `SystemTypes` needs, beside the types, the server's `PcOK`: what is put
on the wire is a message.

`RostersExact` is the theorem about the composition: for any number of clients,
the roster of one that has nothing more to read is right about every slot not in
`doubt`. While messages are
under way it is not, so `RosterInv` says what they will make of it. For every
client and slot, the *last* message on the wire about the slot is a join just
when the server has told this connection that the slot is taken (`heard`), and
carries the name the slot has now (`OnTheWay`); when there is none, the entry in
the roster is that last word (`Arrived`). The name may be behind while the slot
is `BeingTold`: a name has been given and the broadcast has not come to this
connection. `Ownership` is what keeps a client and its connection together: no
two clients have the same one (`Apart`); the server never closes one a client
still has, since nothing on it begins with DISCONNECT and it has no error
(`Alive`, `LeaverUnowned`); and a connection without a seat has an empty wire and
no roster (`Unseated`), so that a new one starts from nothing.

`LairClientProofs`: `IInv` adds that `CL_Frame` runs only under the chat screen
and that the quit prompt never covers the name screen. `ClientInvariance` gives
`ClientTypes`, `NoStaleSocket` and `ScreensFollow`.

`ChatHistoryProofs`: `LogStaysRecent`, from the types of the log and the shift
of a full table (`RoomForOneLemma`). `TypeCorrect`, `TopIsAlwaysReached` and
`GapsAreBehindLong` are about what drawing computes in any state in which the
log is recent: the recursive sums and the loop of `TUI_DrawChatWindow` are shown
to exist, message by message, and each claim about them is an induction on the
messages gone through. Once the window is full nothing more is drawn; until then
what is left to skip only goes down, by the lines of the messages skipped. When
the offset has reached the limit the code computes, nothing is to be skipped and
the first message is drawn; and once a message was drawn, less is left to skip
than it needs, and what is swallowed behind it comes out of that.

`MsgBufferProofs`: `OverrunIsWide` and the types; the invariant is the property
itself, with the types of what was written, and one lemma says what a write of
any kind does. `WhatIsWrittenIsRead`: the values that were not refused stand in
the buffer as their `Encoding`s, one after the other (`Laid`: there are `ends` at
which each of them ends), and a reader that has asked for what was written, so
far, stands at one of these ends, or has read all and gets nothing more
(`Where`). Each read then decodes exactly one encoding; for integers that is
arithmetic on 32 bits, for strings that the first NUL is the one written.

`CmdProofs`: `TableCorrect`, for any hash function. The invariant adds that no
chain has a name twice, and that the chain a name belongs to holds it with the
function registered, or does not hold it if none is. The rest is about text.
`TokensAlwaysFit` rests on a bound that holds of any text: a word takes at most the
characters between the positions the tokenizer passes over, and two words are
parted by a character that belongs to neither, so that the words of a text and
their NULs take at most one byte more than it has. A text that overruns
`cmd_tokenized` is therefore at least `MAX_CMD_LENGTH` long (`OverrunIsLong`), and
one such is among the lines asked for when the memory is no longer intact
(`AskedIsExecuted`). `BufferIsItsLines`: `Held` says that the buffer is the
text of the lines queued with what ended each, and that only the last may lack
an end; adding in front and behind keep it. `WhatIsTypedRuns` puts together that
the tokenizer gives back the words a line was written from (`Past` is where each
of them ends in the text), that joined arguments are shorter than what
`cmd_tokenized` holds and so are not cut (`ArgsAreShorter`),
that `Cbuf_Execute` cuts the buffer where the lines were put together, and that
the bucket of the first word holds the function registered under it.

`NetConnectProofs`: `AttemptIsClean`; the invariant adds that during an attempt
its socket is the only one open beside those left behind (`OneSocket`), and that
an attempt about to succeed has a connection that is up (`SuccessIsUp`).

Induction. The theorems of the library that would give it take an operator as a
parameter, which the provers cannot instantiate. Every recursion here is a
function on positions, and induction is over a *set* of positions: the numbers
for which the claim holds contain 0 and the successor of each of them, so, by
the well-foundedness of the naturals (`LeastNumber`, `SetInduction`), they are
all numbers. That a function defined by recursion exists is proved in the same
way, for each of them.

With that every invariant the passing runs check is also a theorem, and so is
the refinement `Refines`. Only model-checked: all liveness (`PendingIsServed`,
`GoneIsDropped`, `InterruptStops`, `LossIsNoticed`, `JoinIsListed`,
`AttemptEnds`), which is beyond the prover, and the counterexamples of the
findings.

## Not modelled

- `numUsers` beside the list: the server announces a user again after `/name`,
  and the client counts the entry again. The counter is in `LairClient` and is
  only printed; `RosterExact` is about the list.
- Bind and listen failures: `Com_Error( ERR_FATAL )` ends the process before
  the first frame. Failures of `select` other than EINTR in the server.
- Names of more than 31 and texts of more than 1023 bytes, which the code cuts,
  and chunks of more than the 16384 bytes one `recv()` asks for.
- `Cmd_Argv` at and past `cmd_argc`: its callers ask `Cmd_Argc` first. Commands
  that add to the command buffer while it is executed: there are none.
- Editing of the host, port and chat line, colours, boxes, tab bars and the
  status bar: nothing else reads them.
- The console client (`client/main.cpp`), which makes the same calls as the
  terminal client, printing, the system layer, the Qt shell: no state of the
  chat.

## Where it could go on

A server that sends the list of users to a newcomer, for which `UsersListed` is
the property to hold; and, once the protocol parses every message of a chunk,
`NoChatIsLost` and a `RosterExact` without `doubt`.
