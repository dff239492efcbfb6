----------------------------- MODULE ChatHistory -----------------------------
(***************************************************************************)
(* The chat log of src/code/client-tui: the table of the last messages     *)
(* (TUI_AddMessage), the scroll keys of TUI_HandleInput, and which         *)
(* messages TUI_DrawChatWindow puts on the screen.                         *)
(*                                                                         *)
(* A message is its number in the order of arrival, the length of its      *)
(* sender and its text, of which only the spaces matter: lines are broken  *)
(* at them.  Colours, timestamps and the borders are left out.             *)
(***************************************************************************)
EXTENDS Integers, Sequences

CONSTANTS
    MAX_CHAT_MESSAGES,
    Senders,     \* lengths of names
    Texts,       \* texts, each as a sequence of BOOLEAN: is it a space?
    Sizes,       \* sizes of the chat window: << win_h, win_w >>
    MaxArrivals  \* bound: messages that arrive in all

\* win_w - 4 columns for text, after "[HH:MM:SS] ", the sender and ": ".
FirstLineWidth(win, sender) == win[2] - 4 - (11 + sender + 2)

\* The window is not narrower than what precedes a text, and has a line for one.
ASSUME HistoryAssumption ==
    /\ MAX_CHAT_MESSAGES \in Nat \ {0}
    /\ Senders \subseteq Nat
    /\ Texts \subseteq Seq(BOOLEAN)
    /\ Sizes \subseteq Nat \X Nat
    /\ \A win \in Sizes : win[1] > 2
    /\ \A win \in Sizes, sender \in Senders : FirstLineWidth(win, sender) >= 0
    /\ MaxArrivals \in Nat

VARIABLES
    chat_messages,       \* the first chat_message_count entries
    chat_scroll_offset,
    chat_max_scroll,
    window,              \* the size of chat_win
    alive,               \* the process has not died of a division by zero
    arrived              \* history: messages that have arrived so far

vars == <<chat_messages, chat_scroll_offset, chat_max_scroll, window, alive,
          arrived>>

ChatMsg == [number : Nat, sender : Senders, text : Texts]

TypeOK ==
    /\ chat_messages \in Seq(ChatMsg)
    /\ Len(chat_messages) <= MAX_CHAT_MESSAGES
    /\ chat_scroll_offset \in Nat
    /\ chat_max_scroll \in Nat
    /\ window \in Sizes
    /\ alive \in BOOLEAN
    /\ arrived \in Nat

Init ==
    /\ chat_messages = << >>
    /\ chat_scroll_offset = 0
    /\ chat_max_scroll = 0
    /\ window \in Sizes
    /\ alive = TRUE
    /\ arrived = 0

-----------------------------------------------------------------------------
(* TUI_AddMessage, and the chat screen's check for a lost connection. *)

\* Mutant: the table is full one entry too late, and its first is not dropped.
RoomForOneUnshifted ==
    IF Len(chat_messages) >= MAX_CHAT_MESSAGES
    THEN SubSeq(chat_messages, 1, MAX_CHAT_MESSAGES - 1)
    ELSE chat_messages

\* A full table loses its first entry.
RoomForOne ==
    IF Len(chat_messages) >= MAX_CHAT_MESSAGES
    THEN Tail(chat_messages)
    ELSE chat_messages

TUI_AddMessage(sender, text) ==
    /\ alive
    /\ arrived < MaxArrivals
    /\ arrived' = arrived + 1
    /\ chat_messages' = Append(RoomForOne,
            [number |-> arrived + 1, sender |-> sender, text |-> text])
    /\ chat_scroll_offset' = 0
    /\ UNCHANGED <<chat_max_scroll, window, alive>>

\* The connection was lost: chat_message_count = 0, and nothing else.
ConnectionLost ==
    /\ alive
    /\ chat_messages' = << >>
    /\ UNCHANGED <<chat_scroll_offset, chat_max_scroll, window, alive, arrived>>

-----------------------------------------------------------------------------
(* TUI_DrawChatWindow *)

Width(m) == FirstLineWidth(window, m.sender)

\* The lines a message is computed to need: C's division rounds up here.
LinesNeeded(m) ==
    IF Len(m.text) <= Width(m)
    THEN 1
    ELSE 1 + (Len(m.text) - Width(m) + Width(m) - 1) \div Width(m)

\* How much of text goes on the line that starts after its first p characters:
\* up to the last space in reach, when that is past the middle of the line.
Chunk(text, p, width) ==
    LET breaks == {b \in (width \div 2) + 1 .. width : text[p + b + 1]}
    IN  IF breaks = {}
        THEN width
        ELSE 1 + CHOOSE b \in breaks : \A a \in breaks : a <= b

\* The lines a message really takes.
LinesDrawn(m) ==
    LET lines[p \in 0 .. Len(m.text)] ==
            IF Len(m.text) - p <= Width(m)
            THEN 1
            ELSE 1 + lines[p + Chunk(m.text, p, Width(m))]
    IN  lines[0]

Divides == \E k \in DOMAIN chat_messages :
                Width(chat_messages[k]) = 0 /\ chat_messages[k].text # << >>

MaxLines == window[1] - 2

TotalLines ==
    LET total[k \in 0 .. Len(chat_messages)] ==
            IF k = 0 THEN 0 ELSE total[k - 1] + LinesNeeded(chat_messages[k])
    IN  total[Len(chat_messages)]

NotBelow0(n) == IF n < 0 THEN 0 ELSE n

MaxScroll == NotBelow0(TotalLines - MaxLines)

\* Mutant: the scroll offset is taken the wrong way.
LinesToSkipDown == MaxScroll + chat_scroll_offset

LinesToSkip == NotBelow0(MaxScroll - chat_scroll_offset)

\* Mutant: a skipped message takes nothing from what is left to skip.
ScreenSkipKept ==
    LET drawn[k \in 0 .. Len(chat_messages)] ==
            IF k = 0
            THEN [line |-> 1, skip |-> LinesToSkip, shown |-> << >>]
            ELSE LET d == drawn[k - 1]
                     m == chat_messages[k]
                 IN  IF d.line > MaxLines \/ d.skip >= LinesNeeded(m)
                     THEN d
                     ELSE [d EXCEPT !.line  = @ + LinesDrawn(m),
                                    !.shown = Append(@, m.number)]
    IN  drawn[Len(chat_messages)].shown

\* The loop over the messages: the next free line, what is left to skip, and
\* the numbers of the messages drawn so far.  What is left to skip survives a
\* message that is drawn.
Screen ==
    LET drawn[k \in 0 .. Len(chat_messages)] ==
            IF k = 0
            THEN [line |-> 1, skip |-> LinesToSkip, shown |-> << >>]
            ELSE LET d == drawn[k - 1]
                     m == chat_messages[k]
                 IN  IF d.line > MaxLines
                     THEN d
                     ELSE IF d.skip >= LinesNeeded(m)
                     THEN [d EXCEPT !.skip = @ - LinesNeeded(m)]
                     ELSE [d EXCEPT !.line  = @ + LinesDrawn(m),
                                    !.shown = Append(@, m.number)]
    IN  drawn[Len(chat_messages)].shown

TUI_DrawChatWindow ==
    /\ alive
    /\ alive' = ~Divides
    /\ chat_max_scroll' = IF Divides THEN chat_max_scroll ELSE MaxScroll
    /\ UNCHANGED <<chat_messages, chat_scroll_offset, window, arrived>>

-----------------------------------------------------------------------------
(* TUI_HandleInput, TUI_HandleResize *)

\* Ctrl+D: towards older messages, up to what the last draw found.
CtrlD ==
    /\ alive
    /\ chat_max_scroll > 0
    /\ chat_scroll_offset < chat_max_scroll
    /\ chat_scroll_offset' = IF chat_scroll_offset + 5 > chat_max_scroll
                             THEN chat_max_scroll
                             ELSE chat_scroll_offset + 5
    /\ UNCHANGED <<chat_messages, chat_max_scroll, window, alive, arrived>>

\* Mutant: "Need to wrap it up here for safety" is forgotten.
CtrlUUnbounded ==
    /\ alive
    /\ chat_scroll_offset' = chat_scroll_offset - 5
    /\ UNCHANGED <<chat_messages, chat_max_scroll, window, alive, arrived>>

\* Ctrl+U: towards newer ones.
CtrlU ==
    /\ alive
    /\ chat_scroll_offset' = NotBelow0(chat_scroll_offset - 5)
    /\ UNCHANGED <<chat_messages, chat_max_scroll, window, alive, arrived>>

TUI_HandleResize(win) ==
    /\ alive
    /\ window' = win
    /\ UNCHANGED <<chat_messages, chat_scroll_offset, chat_max_scroll, alive,
                   arrived>>

Dead == ~alive /\ UNCHANGED vars

Next ==
    \/ \E sender \in Senders, text \in Texts : TUI_AddMessage(sender, text)
    \/ ConnectionLost
    \/ TUI_DrawChatWindow
    \/ CtrlD \/ CtrlU
    \/ \E win \in Sizes : TUI_HandleResize(win)
    \/ Dead

Spec == Init /\ [][Next]_vars

-----------------------------------------------------------------------------
(* What the chat window promises. *)

\* Message n is not on the screen, between two that are.
Missing(n) ==
    /\ \E k \in DOMAIN Screen : Screen[k] < n
    /\ \E k \in DOMAIN Screen : Screen[k] > n
    /\ \A k \in DOMAIN Screen : Screen[k] # n

LogIndex(n) == CHOOSE k \in DOMAIN chat_messages : chat_messages[k].number = n

\* The log is the unbroken end of what has arrived, in order: the shift of a
\* full table, and a table emptied and filled again, lose nothing but the
\* oldest.
LogIsRecent ==
    \A k \in DOMAIN chat_messages :
        chat_messages[k].number = arrived - Len(chat_messages) + k

\* From the furthest offset on the oldest message of the log is at the top.  The
\* offset may be a stale one, past what there is to scroll: it is not taken back
\* when the log is emptied or the window grows, and not before the next draw.
TopIsReached ==
    (alive /\ ~Divides /\ chat_scroll_offset >= MaxScroll /\ chat_messages # << >>)
        => Screen # << >> /\ Head(Screen) = chat_messages[1].number

\* Only messages before the first one drawn are to be skipped (tui.cpp:286 "find
\* start point"), but what is left to skip outlives a message that is drawn, and
\* may swallow messages in the middle of the screen.  They are fewer lines than
\* the first message drawn needs: above a message of one line nothing is missing.
GapsBehindLong ==
    LET swallowed[k \in 0 .. Len(chat_messages)] ==
            IF k = 0 THEN 0
            ELSE swallowed[k - 1] +
                 (IF Missing(chat_messages[k].number)
                  THEN LinesNeeded(chat_messages[k]) ELSE 0)
    IN  (~Divides /\ Screen # << >>) =>
            swallowed[Len(chat_messages)]
                < LinesNeeded(chat_messages[LogIndex(Head(Screen))])
=============================================================================
