-------------------------- MODULE ChatHistoryProofs --------------------------
(***************************************************************************)
(* Proofs about the chat log, for a table of any size and any messages:    *)
(* what it keeps, and what is drawn of it.                                 *)
(***************************************************************************)
EXTENDS ChatHistory, SequenceTheorems, WellFoundedInduction, TLAPS

\* The log's own types, and LogIsRecent.
LogInv ==
    /\ chat_messages \in Seq(ChatMsg)
    /\ Len(chat_messages) <= MAX_CHAT_MESSAGES
    /\ arrived \in Nat
    /\ LogIsRecent

\* Making room drops the first entry of a full table, and only then.
LEMMA RoomForOneLemma ==
    ASSUME LogInv
    PROVE  /\ RoomForOne \in Seq(ChatMsg)
           /\ Len(RoomForOne) < MAX_CHAT_MESSAGES
           /\ \A k \in DOMAIN RoomForOne :
                 RoomForOne[k].number = arrived - Len(RoomForOne) + k
<1> DEFINE log == chat_messages
<1>1. log \in Seq(ChatMsg) /\ Len(log) \in Nat /\ DOMAIN log = 1 .. Len(log)
  BY DEF LogInv
<1>2. CASE Len(log) >= MAX_CHAT_MESSAGES
  <2>1. log # << >>
    BY <1>2, HistoryAssumption
  <2>2. /\ RoomForOne = Tail(log)
        /\ Tail(log) \in Seq(ChatMsg)
        /\ Len(Tail(log)) = Len(log) - 1
        /\ \A k \in 1 .. Len(log) - 1 : Tail(log)[k] = log[k + 1]
    BY <1>1, <1>2, <2>1, HeadTailProperties DEF RoomForOne
  <2>3. Len(Tail(log)) < MAX_CHAT_MESSAGES
    BY <1>1, <2>2, HistoryAssumption DEF LogInv
  <2>4. ASSUME NEW k \in 1 .. Len(log) - 1
        PROVE  Tail(log)[k].number = arrived - (Len(log) - 1) + k
    <3>1. k + 1 \in DOMAIN log /\ Tail(log)[k] = log[k + 1]
      BY <1>1, <2>2
    <3>2. log[k + 1].number = arrived - Len(log) + (k + 1)
      BY <3>1 DEF LogInv, LogIsRecent
    <3> QED BY <1>1, <3>1, <3>2 DEF LogInv
  <2> QED BY <1>1, <2>2, <2>3, <2>4
<1>3. CASE ~(Len(log) >= MAX_CHAT_MESSAGES)
  <2>1. RoomForOne = log
    BY <1>3 DEF RoomForOne
  <2> QED BY <1>1, <1>3, <2>1, HistoryAssumption DEF LogInv, LogIsRecent
<1> QED BY <1>2, <1>3

\* A message that arrives becomes the last of the log.
LEMMA AddMessageLemma ==
    ASSUME LogInv, NEW sender \in Senders, NEW text \in Texts,
           TUI_AddMessage(sender, text)
    PROVE  LogInv'
<1> DEFINE room == RoomForOne
           new  == [number |-> arrived + 1, sender |-> sender, text |-> text]
<1>1. /\ room \in Seq(ChatMsg)
      /\ Len(room) < MAX_CHAT_MESSAGES
      /\ \A k \in DOMAIN room : room[k].number = arrived - Len(room) + k
  BY RoomForOneLemma
<1>2. new \in ChatMsg /\ new.number = arrived + 1
  BY DEF ChatMsg, LogInv
<1>3. chat_messages' = Append(room, new) /\ arrived' = arrived + 1
  BY DEF TUI_AddMessage
<1> HIDE DEF room, new
<1>4. /\ chat_messages' \in Seq(ChatMsg)
      /\ Len(chat_messages') = Len(room) + 1
      /\ DOMAIN chat_messages' = 1 .. Len(room) + 1
      /\ \A k \in 1 .. Len(room) : chat_messages'[k] = room[k]
      /\ chat_messages'[Len(room) + 1] = new
  BY <1>1, <1>2, <1>3, AppendProperties
<1>5. Len(room) \in Nat /\ DOMAIN room = 1 .. Len(room)
  BY <1>1
<1>6. arrived \in Nat /\ arrived' \in Nat
  BY <1>3 DEF LogInv
<1>7. ASSUME NEW k \in DOMAIN chat_messages'
      PROVE  chat_messages'[k].number = arrived' - Len(chat_messages') + k
  <2>1. CASE k = Len(room) + 1
    BY <1>2, <1>3, <1>4, <1>5, <1>6, <2>1
  <2>2. CASE k \in 1 .. Len(room)
    <3>1. chat_messages'[k].number = arrived - Len(room) + k
      BY <1>1, <1>4, <1>5, <2>2
    <3> QED BY <1>3, <1>4, <1>5, <1>6, <2>2, <3>1
  <2> QED BY <1>4, <1>5, <2>1, <2>2
<1>8. Len(chat_messages') <= MAX_CHAT_MESSAGES
  BY <1>1, <1>4, <1>5, HistoryAssumption
<1> QED BY <1>4, <1>6, <1>7, <1>8 DEF LogInv, LogIsRecent

LEMMA LogInvariant == Spec => []LogInv
<1>1. Init => LogInv
  <2> SUFFICES ASSUME Init PROVE LogInv
    OBVIOUS
  <2> QED BY HistoryAssumption DEF Init, LogInv, LogIsRecent
<1>2. LogInv /\ [Next]_vars => LogInv'
  <2> SUFFICES ASSUME LogInv, [Next]_vars PROVE LogInv'
    OBVIOUS
  <2>1. ASSUME NEW sender \in Senders, NEW text \in Texts,
               TUI_AddMessage(sender, text)
        PROVE  LogInv'
    BY <2>1, AddMessageLemma
  <2>2. CASE ConnectionLost
    BY <2>2, HistoryAssumption DEF ConnectionLost, LogInv, LogIsRecent
  <2>3. CASE UNCHANGED <<chat_messages, arrived>>
    BY <2>3 DEF LogInv, LogIsRecent
  <2> QED
    BY <2>1, <2>2, <2>3
    DEF Next, TUI_DrawChatWindow, CtrlD, CtrlU, TUI_HandleResize, Dead, vars
<1> QED BY <1>1, <1>2, PTL DEF Spec

\* The log is always the unbroken end of what has arrived.
THEOREM LogStaysRecent == Spec => []LogIsRecent
<1>1. LogInv => LogIsRecent
  BY DEF LogInv
<1> QED BY <1>1, LogInvariant, PTL

-----------------------------------------------------------------------------
(* Induction over a set of numbers: the library states it for an operator,  *)
(* and well-founded relations for sets.                                     *)

LEMMA SetInduction ==
    ASSUME NEW S, S \subseteq Nat, 0 \in S, \A n \in S : n + 1 \in S
    PROVE  S = Nat
<1> DEFINE T == Nat \ S
           R == OpToRel(<, Nat)
<1>1. IsWellFoundedOn(R, Nat)
  BY NatLessThanWellFounded, Zenon
<1>2. \A x, y \in Nat : <<y, x>> \in R <=> y < x
  BY Zenon DEF OpToRel
<1> HIDE DEF R
<1>3. SUFFICES ASSUME T # {} PROVE FALSE
  OBVIOUS
<1>4. PICK x \in T : \A y \in T : ~ (<<y, x>> \in R)
  <2>1. T \subseteq Nat
    OBVIOUS
  <2> HIDE DEF T
  <2> QED BY <1>1, <1>3, <2>1, WFMin
<1>5. \A y \in T : ~(y < x)
  BY <1>2, <1>4
<1>6. x - 1 \in Nat /\ x - 1 < x /\ x - 1 \notin T
  BY <1>5
<1> QED BY <1>6

\* The sums g[1] + ... + g[k], as TotalLines and GapsBehindLong define them.
IsSum(f, g, n) == f = [k \in 0 .. n |-> IF k = 0 THEN 0 ELSE f[k - 1] + g[k]]

LEMMA SumIsTyped ==
    ASSUME NEW n \in Nat, NEW g \in [1 .. n -> Int], NEW f, IsSum(f, g, n)
    PROVE  f \in [0 .. n -> Int]
<1> DEFINE S == {k \in Nat : k <= n => f[k] \in Int}
<1>1. f[0] = 0 /\ \A k \in 1 .. n : f[k] = f[k - 1] + g[k]
  BY DEF IsSum
<1>2. ASSUME NEW k \in S PROVE k + 1 \in S
  BY <1>1, (k + 1) - 1 = k
<1>3. S = Nat
  <2>1. 0 \in S
    BY <1>1
  <2> HIDE DEF S
  <2>2. S \subseteq Nat
    BY DEF S
  <2> QED BY <1>2, <2>1, <2>2, SetInduction
<1>4. \A k \in 0 .. n : f[k] \in Int
  <2> SUFFICES ASSUME NEW k \in 0 .. n PROVE f[k] \in Int
    OBVIOUS
  <2>1. k \in S
    BY <1>3
  <2> QED BY <2>1
<1>5. DOMAIN f = 0 .. n /\ f = [k \in DOMAIN f |-> f[k]]
  BY DEF IsSum
<1> QED BY <1>4, <1>5

LEMMA SumExists ==
    ASSUME NEW n \in Nat, NEW g \in [1 .. n -> Int]
    PROVE  \E f : IsSum(f, g, n)
<1> DEFINE S == {m \in Nat : \E f : IsSum(f, g, m)}
<1>1. 0 \in S
  <2> DEFINE f == [k \in 0 .. 0 |-> 0]
  <2>1. f = [k \in 0 .. 0 |-> IF k = 0 THEN 0 ELSE f[k - 1] + g[k]]
    OBVIOUS
  <2> HIDE DEF f
  <2> QED BY <2>1 DEF IsSum
<1>2. ASSUME NEW m \in S PROVE m + 1 \in S
  <2>1. PICK f : IsSum(f, g, m)
    OBVIOUS
  <2>2. PICK h : h = [k \in 0 .. m + 1 |-> IF k <= m THEN f[k] ELSE f[m] + g[k]]
    OBVIOUS
  <2>3. h = [k \in 0 .. m + 1 |-> IF k = 0 THEN 0 ELSE h[k - 1] + g[k]]
    <3>1. ASSUME NEW k \in 0 .. m + 1
          PROVE  h[k] = IF k = 0 THEN 0 ELSE h[k - 1] + g[k]
      <4>1. CASE k = 0
        BY <2>1, <2>2, <4>1 DEF IsSum
      <4>2. CASE k \in 1 .. m
        <5>1. k - 1 \in 0 .. m /\ k - 1 \in 0 .. m + 1 /\ k - 1 <= m
          BY <4>2
        <5> QED BY <2>1, <2>2, <4>2, <5>1 DEF IsSum
      <4>3. CASE k = m + 1
        <5>1. k - 1 = m /\ m \in 0 .. m + 1 /\ ~(k <= m) /\ k # 0
          BY <4>3
        <5> QED BY <2>2, <5>1
      <4> QED BY <4>1, <4>2, <4>3
    <3>2. PICK e : e = [k \in 0 .. m + 1 |-> IF k = 0 THEN 0 ELSE h[k - 1] + g[k]]
      OBVIOUS
    <3>3. h = [k \in 0 .. m + 1 |-> h[k]] /\ e = [k \in 0 .. m + 1 |-> e[k]]
      BY <2>2, <3>2
    <3>4. \A k \in 0 .. m + 1 : h[k] = e[k]
      BY <3>1, <3>2
    <3>5. h = e
      BY <3>3, <3>4
    <3> QED BY <3>2, <3>5
  <2>4. IsSum(h, g, m + 1)
    BY <2>3 DEF IsSum
  <2> HIDE DEF IsSum
  <2> QED BY <2>4
<1>3. S = Nat
  <2> HIDE DEF S
  <2>1. S \subseteq Nat
    BY DEF S
  <2> QED BY <1>1, <1>2, <2>1, SetInduction
<1> QED BY <1>3

-----------------------------------------------------------------------------
(* How many lines there are, and how far one can scroll. *)

Typed ==
    /\ chat_messages \in Seq(ChatMsg)
    /\ chat_scroll_offset \in Nat
    /\ window \in Sizes

\* A line is not shorter than nothing, and the window is higher than its border.
LEMMA WidthIsNat ==
    ASSUME window \in Sizes
    PROVE  /\ \A m \in ChatMsg : Width(m) \in Nat
           /\ MaxLines \in Nat \ {0}
<1>1. \A sender \in Senders : FirstLineWidth(window, sender) \in Nat
  BY HistoryAssumption DEF FirstLineWidth
<1>2. window[1] \in Nat /\ window[1] > 2
  BY HistoryAssumption
<1> QED BY <1>1, <1>2 DEF Width, ChatMsg, MaxLines

LEMMA LinesNeededIsPositive ==
    ASSUME Typed, ~Divides, NEW k \in DOMAIN chat_messages
    PROVE  LinesNeeded(chat_messages[k]) \in Nat \ {0}
<1> DEFINE m == chat_messages[k]
           l == Len(m.text)
           w == Width(m)
<1>1. m \in ChatMsg
  BY DEF Typed
<1>2. w \in Nat /\ l \in Nat
  BY <1>1, WidthIsNat, HistoryAssumption DEF Typed, ChatMsg
<1>3. w = 0 => l = 0
  BY <1>1, HistoryAssumption DEF Divides, ChatMsg
<1>4. LinesNeeded(m) = IF l <= w THEN 1 ELSE 1 + (l - w + w - 1) \div w
  BY DEF LinesNeeded
<1> HIDE DEF m, l, w
<1>5. ASSUME ~(l <= w) PROVE (l - w + w - 1) \div w \in Nat
  <2>1. l - w + w - 1 \in Nat /\ w \in Nat \ {0}
    BY <1>2, <1>3, <1>5
  <2> QED BY <2>1
<1> QED BY <1>4, <1>5 DEF m

\* The number of lines of the log is a number, and so is how far one can scroll.
LEMMA ScrollIsNat ==
    ASSUME Typed, ~Divides
    PROVE  TotalLines \in Int /\ MaxScroll \in Nat
<1> DEFINE n == Len(chat_messages)
           g == [k \in 1 .. n |-> LinesNeeded(chat_messages[k])]
           IsTotal(f) == f = [k \in 0 .. n |->
                IF k = 0 THEN 0 ELSE f[k - 1] + LinesNeeded(chat_messages[k])]
<1>1. n \in Nat /\ DOMAIN chat_messages = 1 .. n
  BY DEF Typed
<1>2. g \in [1 .. n -> Int]
  BY <1>1, LinesNeededIsPositive
<1>3. ASSUME NEW f PROVE IsTotal(f) <=> IsSum(f, g, n)
  <2>1. \A k \in 0 .. n : k # 0 => g[k] = LinesNeeded(chat_messages[k])
    BY <1>1
  <2> HIDE DEF g, n
  <2> QED BY <2>1 DEF IsSum
<1>4. TotalLines = (CHOOSE f : IsTotal(f))[n]
  BY DEF TotalLines
<1> HIDE DEF IsTotal, g, n
<1>5. \E f : IsTotal(f)
  BY <1>1, <1>2, <1>3, SumExists
<1>6. (CHOOSE f : IsTotal(f)) \in [0 .. n -> Int]
  BY <1>1, <1>2, <1>3, <1>5, SumIsTyped
<1>7. TotalLines \in Int
  BY <1>1, <1>4, <1>6
<1> QED BY <1>7, WidthIsNat DEF MaxScroll, NotBelow0, Typed

-----------------------------------------------------------------------------
\* The log and the scroll positions keep their types: no scroll position is
\* ever negative, and the table never holds more than it has room for.
THEOREM TypeCorrect == Spec => []TypeOK
<1>1. Init => TypeOK
  <2> SUFFICES ASSUME Init PROVE TypeOK
    OBVIOUS
  <2>1. alive \in BOOLEAN
    BY Zenon DEF Init
  <2> QED BY <2>1, HistoryAssumption DEF Init, TypeOK
<1>2. LogInv /\ LogInv' /\ TypeOK /\ [Next]_vars => TypeOK'
  <2> SUFFICES ASSUME LogInv, LogInv', TypeOK, [Next]_vars PROVE TypeOK'
    OBVIOUS
  <2>0. Typed
    BY DEF TypeOK, Typed
  <2>1. CASE \E sender \in Senders, text \in Texts : TUI_AddMessage(sender, text)
    BY <2>1 DEF TUI_AddMessage, TypeOK, LogInv
  <2>2. CASE ConnectionLost
    BY <2>2 DEF ConnectionLost, TypeOK, LogInv
  <2>3. CASE TUI_DrawChatWindow
    <3>1. alive' \in BOOLEAN
      BY <2>3, Zenon DEF TUI_DrawChatWindow, Divides
    <3>2. chat_max_scroll' \in Nat
      BY <2>0, <2>3, ScrollIsNat DEF TUI_DrawChatWindow, TypeOK
    <3> QED BY <2>3, <3>1, <3>2 DEF TUI_DrawChatWindow, TypeOK
  <2>4. CASE CtrlD \/ CtrlU
    BY <2>4 DEF CtrlD, CtrlU, NotBelow0, TypeOK
  <2>5. CASE \E win \in Sizes : TUI_HandleResize(win)
    BY <2>5 DEF TUI_HandleResize, TypeOK
  <2>6. CASE UNCHANGED vars
    BY <2>6 DEF vars, TypeOK
  <2> QED BY <2>1, <2>2, <2>3, <2>4, <2>5, <2>6 DEF Next, Dead
<1> QED BY <1>1, <1>2, LogInvariant, PTL DEF Spec

-----------------------------------------------------------------------------
(* What is drawn, message after message.                                    *)

Start == [line |-> 1, skip |-> LinesToSkip, shown |-> << >>]

Draw(d, m) ==
    IF d.line > MaxLines
    THEN d
    ELSE IF d.skip >= LinesNeeded(m)
    THEN [d EXCEPT !.skip = @ - LinesNeeded(m)]
    ELSE [d EXCEPT !.line  = @ + LinesDrawn(m),
                   !.shown = Append(@, m.number)]

IsDrawing(f, n) ==
    f = [k \in 0 .. n |-> IF k = 0 THEN Start ELSE Draw(f[k - 1], chat_messages[k])]

Drawing == CHOOSE f : IsDrawing(f, Len(chat_messages))

LEMMA DrawingExists ==
    ASSUME NEW n \in Nat
    PROVE  \E f : IsDrawing(f, n)
<1> DEFINE S == {m \in Nat : \E f : IsDrawing(f, m)}
<1>1. 0 \in S
  <2> DEFINE f == [k \in 0 .. 0 |-> Start]
  <2>1. f = [k \in 0 .. 0 |-> IF k = 0 THEN Start ELSE Draw(f[k - 1], chat_messages[k])]
    OBVIOUS
  <2> HIDE DEF f
  <2> QED BY <2>1 DEF IsDrawing
<1>2. ASSUME NEW m \in S PROVE m + 1 \in S
  <2>1. PICK f : IsDrawing(f, m)
    OBVIOUS
  <2>2. PICK h : h = [k \in 0 .. m + 1 |->
                        IF k <= m THEN f[k] ELSE Draw(f[m], chat_messages[k])]
    OBVIOUS
  <2>3. PICK e : e = [k \in 0 .. m + 1 |->
                        IF k = 0 THEN Start ELSE Draw(h[k - 1], chat_messages[k])]
    OBVIOUS
  <2>4. ASSUME NEW k \in 0 .. m + 1 PROVE h[k] = e[k]
    <3>1. CASE k = 0
      BY <2>1, <2>2, <2>3, <3>1 DEF IsDrawing
    <3>2. CASE k \in 1 .. m
      <4>1. k - 1 \in 0 .. m /\ k - 1 \in 0 .. m + 1 /\ k - 1 <= m
        BY <3>2
      <4> QED BY <2>1, <2>2, <2>3, <3>2, <4>1 DEF IsDrawing
    <3>3. CASE k = m + 1
      <4>1. k - 1 = m /\ m \in 0 .. m + 1 /\ ~(k <= m) /\ k # 0
        BY <3>3
      <4> QED BY <2>2, <2>3, <4>1
    <3> QED BY <3>1, <3>2, <3>3
  <2>5. h = [k \in 0 .. m + 1 |-> h[k]] /\ e = [k \in 0 .. m + 1 |-> e[k]]
    BY <2>2, <2>3
  <2>6. h = e
    BY <2>4, <2>5
  <2>7. IsDrawing(h, m + 1)
    BY <2>3, <2>6 DEF IsDrawing
  <2> HIDE DEF IsDrawing
  <2> QED BY <2>7
<1>3. S = Nat
  <2> HIDE DEF S
  <2>1. S \subseteq Nat
    BY DEF S
  <2> QED BY <1>1, <1>2, <2>1, SetInduction
<1> QED BY <1>3

\* A state of the loop: the line is whatever the drawn lines add up to.
Frame(d) ==
    /\ d = [line |-> d.line, skip |-> d.skip, shown |-> d.shown]
    /\ d.skip \in Nat
    /\ d.shown \in Seq(Nat)

\* One message more: the window is full, or the message is skipped, or drawn.
Full(d, e, m)    == d.line > MaxLines /\ e = d
Skipped(d, e, m) ==
    /\ ~(d.line > MaxLines)
    /\ d.skip >= LinesNeeded(m)
    /\ e.skip = d.skip - LinesNeeded(m) /\ e.shown = d.shown
Shown(d, e, m)   ==
    /\ ~(d.line > MaxLines)
    /\ d.skip < LinesNeeded(m)
    /\ e.skip = d.skip /\ e.shown = Append(d.shown, m.number)

LEMMA DrawCases ==
    ASSUME NEW d, Frame(d), NEW m \in ChatMsg, LinesNeeded(m) \in Nat
    PROVE  /\ Frame(Draw(d, m))
           /\ \/ Full(d, Draw(d, m), m)
              \/ Skipped(d, Draw(d, m), m)
              \/ Shown(d, Draw(d, m), m)
<1> DEFINE e == Draw(d, m)
<1>1. CASE d.line > MaxLines
  BY <1>1 DEF Draw, Full
<1>2. CASE ~(d.line > MaxLines) /\ d.skip >= LinesNeeded(m)
  <2>1. e = [line |-> d.line, skip |-> d.skip - LinesNeeded(m), shown |-> d.shown]
    BY <1>2 DEF Draw, Frame
  <2>2. /\ e.line = d.line /\ e.skip = d.skip - LinesNeeded(m) /\ e.shown = d.shown
    BY <2>1
  <2> HIDE DEF e
  <2>3. Frame(e)
    BY <1>2, <2>1, <2>2 DEF Frame
  <2> QED BY <1>2, <2>2, <2>3 DEF Skipped, e
<1>3. CASE ~(d.line > MaxLines) /\ ~(d.skip >= LinesNeeded(m))
  <2>1. e = [line |-> d.line + LinesDrawn(m), skip |-> d.skip,
             shown |-> Append(d.shown, m.number)]
    BY <1>3 DEF Draw, Frame
  <2>2. /\ e.line = d.line + LinesDrawn(m) /\ e.skip = d.skip
        /\ e.shown = Append(d.shown, m.number)
    BY <2>1
  <2> HIDE DEF e
  <2>3. m.number \in Nat /\ d.shown \in Seq(Nat)
    BY DEF ChatMsg, Frame
  <2>4. e.shown \in Seq(Nat)
    BY <2>2, <2>3, AppendProperties
  <2>5. Frame(e)
    BY <2>1, <2>2, <2>4 DEF Frame
  <2>6. d.skip < LinesNeeded(m)
    BY <1>3 DEF Frame
  <2> QED BY <1>3, <2>2, <2>5, <2>6 DEF Shown, e
<1> QED BY <1>1, <1>2, <1>3

\* The loop, without the CHOOSE that stands for its recursive definition.
LEMMA DrawingSteps ==
    ASSUME Typed, ~Divides
    PROVE  LET n == Len(chat_messages) IN
           /\ n \in Nat /\ DOMAIN chat_messages = 1 .. n
           /\ Screen = Drawing[n].shown
           /\ Drawing[0] = Start
           /\ \A k \in 0 .. n : Frame(Drawing[k])
           /\ \A k \in 1 .. n :
                 \/ Full(Drawing[k - 1], Drawing[k], chat_messages[k])
                 \/ Skipped(Drawing[k - 1], Drawing[k], chat_messages[k])
                 \/ Shown(Drawing[k - 1], Drawing[k], chat_messages[k])
<1> DEFINE n == Len(chat_messages)
<1>1. n \in Nat /\ DOMAIN chat_messages = 1 .. n
  BY DEF Typed
<1>2. Screen = Drawing[n].shown
  BY DEF Screen, Drawing, IsDrawing, Draw, Start
<1>3. IsDrawing(Drawing, n)
  <2>1. \E f : IsDrawing(f, n)
    BY <1>1, DrawingExists
  <2> QED BY <2>1 DEF Drawing
<1> HIDE DEF n
<1>4. /\ Drawing[0] = Start
      /\ \A k \in 1 .. n : Drawing[k] = Draw(Drawing[k - 1], chat_messages[k])
  BY <1>1, <1>3 DEF IsDrawing
<1>5. ASSUME NEW k \in 1 .. n
      PROVE  chat_messages[k] \in ChatMsg /\ LinesNeeded(chat_messages[k]) \in Nat
  BY <1>1, LinesNeededIsPositive DEF Typed
<1>6. Frame(Start)
  <2>1. LinesToSkip \in Nat
    <3>1. chat_scroll_offset \in Int
      BY DEF Typed
    <3> QED BY <3>1, ScrollIsNat DEF LinesToSkip, NotBelow0
  <2> QED BY <2>1 DEF Start, Frame
<1>7. \A k \in 0 .. n : Frame(Drawing[k])
  <2> DEFINE S == {k \in Nat : k <= n => Frame(Drawing[k])}
  <2>1. 0 \in S
    BY <1>4, <1>6
  <2>2. ASSUME NEW k \in S PROVE k + 1 \in S
    <3> SUFFICES ASSUME k + 1 <= n PROVE Frame(Drawing[k + 1])
      OBVIOUS
    <3>1. k \in Nat /\ k + 1 \in 1 .. n /\ (k + 1) - 1 = k /\ Frame(Drawing[k])
      BY <1>1
    <3>2. Drawing[k + 1] = Draw(Drawing[k], chat_messages[k + 1])
      BY <1>4, <3>1
    <3> QED BY <1>5, <3>1, <3>2, DrawCases
  <2>3. S = Nat
    <3> HIDE DEF S
    <3>1. S \subseteq Nat
      BY DEF S
    <3> QED BY <2>1, <2>2, <3>1, SetInduction
  <2>4. ASSUME NEW k \in 0 .. n PROVE Frame(Drawing[k])
    <3>1. k \in S
      BY <2>3
    <3> QED BY <3>1
  <2> QED BY <2>4
<1>8. ASSUME NEW k \in 1 .. n
      PROVE  \/ Full(Drawing[k - 1], Drawing[k], chat_messages[k])
             \/ Skipped(Drawing[k - 1], Drawing[k], chat_messages[k])
             \/ Shown(Drawing[k - 1], Drawing[k], chat_messages[k])
  <2>1. k - 1 \in 0 .. n
    BY <1>1
  <2>2. Frame(Drawing[k - 1]) /\ Drawing[k] = Draw(Drawing[k - 1], chat_messages[k])
    BY <1>4, <1>7, <2>1
  <2> QED BY <1>5, <2>2, DrawCases
<1> QED BY <1>1, <1>2, <1>4, <1>7, <1>8 DEF n

\* The number of the message before the log's first.
Base == arrived - Len(chat_messages)

\* From d on, e adds messages after number b to the screen, and none when d
\* is full.
Follows(d, e, b) ==
    /\ Len(d.shown) <= Len(e.shown)
    /\ \A i \in 1 .. Len(d.shown) : e.shown[i] = d.shown[i]
    /\ \A i \in Len(d.shown) + 1 .. Len(e.shown) : e.shown[i] > b
    /\ d.line > MaxLines => e = d

LEMMA NumbersOfLog ==
    ASSUME LogInv
    PROVE  /\ Base \in Int
           /\ \A k \in 1 .. Len(chat_messages) : chat_messages[k].number = Base + k
           /\ \A k \in 1 .. Len(chat_messages) : LogIndex(Base + k) = k
<1> DEFINE n == Len(chat_messages)
<1>1. n \in Nat /\ DOMAIN chat_messages = 1 .. n /\ arrived \in Nat /\ Base = arrived - n
  BY DEF LogInv, Base
<1>2. \A k \in 1 .. n : chat_messages[k].number = Base + k
  BY <1>1 DEF LogInv, LogIsRecent
<1> HIDE DEF n
<1>3. ASSUME NEW k \in 1 .. n PROVE LogIndex(Base + k) = k
  <2>1. \A j \in 1 .. n : chat_messages[j].number = Base + k <=> j = k
    BY <1>1, <1>2
  <2> QED BY <1>1, <2>1 DEF LogIndex
<1> QED BY <1>1, <1>2, <1>3 DEF n

LEMMA DrawingGrows ==
    ASSUME Typed, ~Divides, LogInv, NEW j \in 0 .. Len(chat_messages)
    PROVE  \A k \in j .. Len(chat_messages) :
                Follows(Drawing[j], Drawing[k], Base + j)
<1> DEFINE n == Len(chat_messages)
           S == {k \in Nat : j + k <= n => Follows(Drawing[j], Drawing[j + k], Base + j)}
<1>1. n \in Nat /\ Base \in Int /\ \A k \in 1 .. n : chat_messages[k].number = Base + k
  BY NumbersOfLog DEF Typed
<1>2. \A k \in 0 .. n : Frame(Drawing[k])
  BY DrawingSteps
<1>3. \A k \in 1 .. n :
         \/ Full(Drawing[k - 1], Drawing[k], chat_messages[k])
         \/ Skipped(Drawing[k - 1], Drawing[k], chat_messages[k])
         \/ Shown(Drawing[k - 1], Drawing[k], chat_messages[k])
  BY DrawingSteps
<1> HIDE DEF n
<1>4. j \in Nat /\ j <= n
  BY <1>1 DEF n
<1>5. 0 \in S
  <2>1. j + 0 = j /\ Frame(Drawing[j])
    BY <1>1, <1>2, <1>4
  <2>2. Len(Drawing[j].shown) \in Nat
    BY <2>1 DEF Frame
  <2> QED BY <2>1, <2>2 DEF Follows
<1>6. ASSUME NEW k \in S PROVE k + 1 \in S
  <2> SUFFICES ASSUME j + k + 1 <= n
               PROVE  Follows(Drawing[j], Drawing[j + (k + 1)], Base + j)
    BY <1>4
  <2>1. /\ j + (k + 1) \in 1 .. n /\ (j + (k + 1)) - 1 = j + k /\ j + k \in 0 .. n
        /\ k \in Nat /\ Follows(Drawing[j], Drawing[j + k], Base + j)
    BY <1>1, <1>4
  <2> DEFINE m == chat_messages[j + (k + 1)]
  <2>2. PICK d : d = Drawing[j + k]
    OBVIOUS
  <2>3. PICK e : e = Drawing[j + (k + 1)]
    OBVIOUS
  <2>4. PICK c : c = Drawing[j]
    OBVIOUS
  <2>5. Full(d, e, m) \/ Skipped(d, e, m) \/ Shown(d, e, m)
    BY <1>3, <2>1, <2>2, <2>3
  <2>6. m.number = Base + (j + (k + 1)) /\ m.number \in Nat
    <3>1. m \in ChatMsg
      BY <2>1 DEF Typed, n
    <3> QED BY <1>1, <2>1, <3>1 DEF ChatMsg
  <2>7. Follows(c, d, Base + j) /\ c.shown \in Seq(Nat) /\ d.shown \in Seq(Nat)
    <3>1. j \in 0 .. n
      BY <1>1, <1>4
    <3>2. Frame(c) /\ Frame(d)
      BY <1>2, <2>1, <2>2, <2>4, <3>1
    <3>3. Follows(c, d, Base + j)
      BY <2>1, <2>2, <2>4
    <3> QED BY <3>2, <3>3 DEF Frame
  <2> HIDE DEF m
  <2>8. Follows(c, e, Base + j)
    <3>1. CASE Full(d, e, m)
      BY <2>7, <3>1 DEF Full
    <3>2. CASE Skipped(d, e, m)
      <4>1. ~(c.line > MaxLines)
        BY <2>7, <3>2 DEF Skipped, Follows
      <4> QED BY <2>7, <3>2, <4>1 DEF Skipped, Follows
    <3>3. CASE Shown(d, e, m)
      <4>1. ~(c.line > MaxLines)
        BY <2>7, <3>3 DEF Shown, Follows
      <4> DEFINE l == Len(d.shown)
                 q == e.shown
      <4>3. /\ l \in Nat /\ Len(q) = l + 1 /\ q[l + 1] = m.number
            /\ \A i \in 1 .. l : q[i] = d.shown[i]
        BY <2>6, <2>7, <3>3, AppendProperties DEF Shown
      <4>4. Len(c.shown) \in Nat /\ Len(c.shown) <= l
        BY <2>7 DEF Follows
      <4> HIDE DEF l, q
      <4>5. \A i \in 1 .. Len(c.shown) : q[i] = c.shown[i]
        <5>1. \A i \in 1 .. Len(c.shown) : i \in 1 .. l
          BY <4>3, <4>4
        <5> QED BY <2>7, <4>3, <5>1 DEF Follows
      <4>6. ASSUME NEW i \in Len(c.shown) + 1 .. l + 1 PROVE q[i] > Base + j
        <5>1. CASE i = l + 1
          <6>1. Base + (j + (k + 1)) > Base + j
            BY <1>1, <1>4, <2>1
          <6> QED BY <2>6, <4>3, <5>1, <6>1
        <5>2. CASE i # l + 1
          <6>1. i \in Len(c.shown) + 1 .. l /\ i \in 1 .. l
            BY <4>3, <4>4, <5>2
          <6> QED BY <2>7, <4>3, <6>1 DEF Follows, l
        <5> QED BY <5>1, <5>2
      <4> QED BY <4>1, <4>3, <4>4, <4>5, <4>6 DEF Follows, q
    <3> QED BY <2>5, <3>1, <3>2, <3>3
  <2> QED BY <2>3, <2>4, <2>8
<1>7. S = Nat
  <2> HIDE DEF S
  <2>1. S \subseteq Nat
    BY DEF S
  <2> QED BY <1>5, <1>6, <2>1, SetInduction
<1>8. ASSUME NEW k \in j .. n PROVE Follows(Drawing[j], Drawing[k], Base + j)
  <2>1. k - j \in Nat /\ j + (k - j) = k /\ k <= n
    BY <1>1, <1>4
  <2>2. k - j \in S
    BY <1>7, <2>1
  <2> QED BY <2>1, <2>2
<1> QED BY <1>8 DEF n

\* Only messages that have been looked at are on the screen.
LEMMA DrawnSoFar ==
    ASSUME Typed, ~Divides, LogInv, NEW k \in 0 .. Len(chat_messages)
    PROVE  \A i \in 1 .. Len(Drawing[k].shown) : Drawing[k].shown[i] <= Base + k
<1> DEFINE n == Len(chat_messages)
           Seen(d, b) == \A i \in 1 .. Len(d.shown) : d.shown[i] <= b
           S == {l \in Nat : l <= n => Seen(Drawing[l], Base + l)}
<1>1. n \in Nat /\ Base \in Int /\ \A l \in 1 .. n : chat_messages[l].number = Base + l
  BY NumbersOfLog DEF Typed
<1>2. /\ Drawing[0] = Start
      /\ \A l \in 0 .. n : Frame(Drawing[l])
  BY DrawingSteps
<1>3. \A l \in 1 .. n :
         \/ Full(Drawing[l - 1], Drawing[l], chat_messages[l])
         \/ Skipped(Drawing[l - 1], Drawing[l], chat_messages[l])
         \/ Shown(Drawing[l - 1], Drawing[l], chat_messages[l])
  BY DrawingSteps
<1> HIDE DEF n
<1>4. 0 \in S
  BY <1>2 DEF Start
<1>5. ASSUME NEW l \in S PROVE l + 1 \in S
  <2> SUFFICES ASSUME l + 1 <= n PROVE Seen(Drawing[l + 1], Base + (l + 1))
    OBVIOUS
  <2>1. l \in Nat /\ l + 1 \in 1 .. n /\ (l + 1) - 1 = l /\ l \in 0 .. n
        /\ Seen(Drawing[l], Base + l)
    BY <1>1
  <2>2. PICK d : d = Drawing[l]
    OBVIOUS
  <2>3. PICK e : e = Drawing[l + 1]
    OBVIOUS
  <2> DEFINE m == chat_messages[l + 1]
  <2>4. Full(d, e, m) \/ Skipped(d, e, m) \/ Shown(d, e, m)
    BY <1>3, <2>1, <2>2, <2>3
  <2>5. m.number = Base + (l + 1) /\ m.number \in Nat
    <3>1. m \in ChatMsg
      BY <2>1 DEF Typed, n
    <3> QED BY <1>1, <2>1, <3>1 DEF ChatMsg
  <2>6. d.shown \in Seq(Nat) /\ \A i \in 1 .. Len(d.shown) : d.shown[i] <= Base + l
    BY <1>2, <2>1, <2>2 DEF Frame
  <2> HIDE DEF m
  <2>7. Base + l <= Base + (l + 1)
    BY <1>1, <2>1
  <2>8. ASSUME NEW i \in 1 .. Len(d.shown) PROVE d.shown[i] <= Base + (l + 1)
    <3>1. d.shown[i] \in Nat /\ d.shown[i] <= Base + l
      BY <2>6, ElementOfSeq
    <3>2. Base + l \in Int /\ Base + (l + 1) \in Int
      BY <1>1, <2>1
    <3> QED BY <2>7, <3>1, <3>2
  <2>9. Seen(e, Base + (l + 1))
    <3>1. CASE e.shown = d.shown
      BY <2>8, <3>1
    <3>2. CASE e.shown = Append(d.shown, m.number)
      BY <1>1, <2>1, <2>5, <2>6, <2>8, <3>2, AppendProperties
    <3> QED BY <2>4, <3>1, <3>2 DEF Full, Skipped, Shown
  <2> QED BY <2>3, <2>9
<1>6. S = Nat
  <2> HIDE DEF S
  <2>1. S \subseteq Nat
    BY DEF S
  <2> QED BY <1>4, <1>5, <2>1, SetInduction
<1>7. k \in S /\ k <= n
  BY <1>1, <1>6 DEF n
<1> QED BY <1>7

\* Whoever scrolls as far as there is to scroll sees the oldest message of the
\* log at the top, and so does who is left past it, whatever the table, the window
\* and the messages.
THEOREM TopIsAlwaysReached == Spec => []TopIsReached
<1>1. LogInv /\ TypeOK => TopIsReached
  <2> SUFFICES ASSUME LogInv, TypeOK, ~Divides, chat_scroll_offset >= MaxScroll,
                      chat_messages # << >>
               PROVE  Screen # << >> /\ Head(Screen) = chat_messages[1].number
    BY DEF TopIsReached
  <2> DEFINE n == Len(chat_messages)
             m == chat_messages[1]
             d == Drawing[1]
  <2>1. Typed
    BY DEF TypeOK, Typed
  <2>2. n \in Nat /\ n # 0 /\ DOMAIN chat_messages = 1 .. n
    BY EmptySeq DEF LogInv
  <2>3. 1 \in 1 .. n /\ 1 \in 0 .. n /\ n \in 1 .. n /\ n \in 0 .. n /\ 1 - 1 = 0
    BY <2>2
  <2>4. LinesToSkip = 0
    BY <2>1, ScrollIsNat DEF LinesToSkip, NotBelow0, TypeOK
  <2>5. Start.line = 1 /\ Start.skip = 0 /\ Start.shown = << >>
    BY <2>4 DEF Start
  <2>6. Full(Start, d, m) \/ Skipped(Start, d, m) \/ Shown(Start, d, m)
    BY <2>1, <2>3, DrawingSteps
  <2>7. LinesNeeded(m) \in Nat \ {0} /\ MaxLines \in Nat \ {0}
    BY <2>1, <2>2, <2>3, LinesNeededIsPositive, WidthIsNat DEF Typed
  <2>8. d.shown = <<m.number>>
    <3>1. Shown(Start, d, m)
      BY <2>5, <2>6, <2>7 DEF Full, Skipped
    <3> QED BY <2>5, <3>1 DEF Shown
  <2>9. Follows(d, Drawing[n], Base + 1) /\ Frame(Drawing[n]) /\ Screen = Drawing[n].shown
    BY <2>1, <2>3, DrawingGrows, DrawingSteps
  <2>10. Len(Screen) >= 1 /\ Screen[1] = m.number /\ Screen \in Seq(Nat)
    <3>1. Len(d.shown) = 1 /\ d.shown[1] = m.number
      BY <2>8
    <3> QED BY <2>9, <3>1 DEF Follows, Frame
  <2> QED BY <2>10, EmptySeq
<1> QED BY <1>1, LogInvariant, TypeCorrect, PTL

-----------------------------------------------------------------------------
(* The messages that are missing from the middle of the screen.             *)

\* A message missing from the screen was skipped, after the first one drawn.
LEMMA MissingIsSkipped ==
    ASSUME Typed, ~Divides, LogInv, NEW k \in 1 .. Len(chat_messages),
           Missing(Base + k)
    PROVE  /\ Skipped(Drawing[k - 1], Drawing[k], chat_messages[k])
           /\ Drawing[k - 1].shown # << >>
<1> DEFINE n == Len(chat_messages)
           d == Drawing[k - 1]
           e == Drawing[k]
           m == chat_messages[k]
<1>1. n \in Nat /\ Base \in Int /\ m.number = Base + k
  BY NumbersOfLog DEF Typed
<1>2. k - 1 \in 0 .. n /\ k \in 0 .. n /\ n \in k - 1 .. n /\ n \in k .. n /\ n \in 0 .. n
  BY <1>1
<1>3. /\ Screen = Drawing[n].shown
      /\ Frame(d) /\ Frame(e) /\ Frame(Drawing[n])
      /\ Full(d, e, m) \/ Skipped(d, e, m) \/ Shown(d, e, m)
  BY <1>2, DrawingSteps
<1>4. Follows(d, Drawing[n], Base + (k - 1)) /\ Follows(e, Drawing[n], Base + k)
  BY <1>2, DrawingGrows
<1>5. \A i \in 1 .. Len(d.shown) : d.shown[i] <= Base + (k - 1)
  BY <1>2, DrawnSoFar
<1>6. /\ Screen \in Seq(Nat) /\ d.shown \in Seq(Nat) /\ e.shown \in Seq(Nat)
      /\ Len(Screen) \in Nat /\ Len(d.shown) \in Nat /\ Len(e.shown) \in Nat
      /\ DOMAIN Screen = 1 .. Len(Screen)
  BY <1>3 DEF Frame
<1>7. PICK a \in 1 .. Len(Screen), b \in 1 .. Len(Screen) :
         /\ Screen[a] < Base + k /\ Screen[b] > Base + k
         /\ \A i \in 1 .. Len(Screen) : Screen[i] # Base + k
  BY <1>6 DEF Missing
<1> HIDE DEF n, d, e, m
<1>8. ~Full(d, e, m)
  <2> SUFFICES ASSUME Full(d, e, m) PROVE FALSE
    OBVIOUS
  <2>1. Screen = d.shown
    BY <1>3, <1>4 DEF Full, Follows
  <2>2. Screen[b] <= Base + (k - 1)
    BY <1>5, <1>7, <2>1
  <2>3. Screen[b] \in Nat
    BY <1>6, <1>7, ElementOfSeq
  <2> QED BY <1>1, <1>7, <2>2, <2>3
<1>9. ~Shown(d, e, m)
  <2> SUFFICES ASSUME Shown(d, e, m) PROVE FALSE
    OBVIOUS
  <2> DEFINE l == Len(d.shown)
  <2>1. Len(e.shown) = l + 1 /\ e.shown[l + 1] = Base + k
    <3>1. m \in ChatMsg
      BY DEF m, Typed
    <3>2. m.number \in Nat
      BY <3>1 DEF ChatMsg
    <3> QED BY <1>1, <1>6, <3>2, AppendProperties DEF Shown
  <2>2. l + 1 \in 1 .. Len(e.shown) /\ l + 1 \in 1 .. Len(Screen)
    BY <1>3, <1>4, <1>6, <2>1 DEF Follows
  <2>3. Screen[l + 1] = Base + k
    BY <1>3, <1>4, <2>1, <2>2 DEF Follows
  <2> QED BY <1>7, <2>2, <2>3
<1>10. d.shown # << >>
  <2> SUFFICES ASSUME d.shown = << >> PROVE FALSE
    OBVIOUS
  <2>1. e.shown = << >>
    BY <1>3, <1>8, <1>9 DEF Skipped
  <2>2. Screen[a] > Base + k
    BY <1>3, <1>4, <1>6, <1>7, <2>1, EmptySeq DEF Follows
  <2>3. Screen[a] \in Nat
    BY <1>6, <1>7, ElementOfSeq
  <2> QED BY <1>1, <1>7, <2>2, <2>3
<1> QED BY <1>3, <1>8, <1>9, <1>10 DEF d, e, m

\* The first message on the screen is one of the log.
LEMMA FirstIsInLog ==
    ASSUME Typed, ~Divides, LogInv, Screen # << >>
    PROVE  LogIndex(Head(Screen)) \in 1 .. Len(chat_messages)
<1> DEFINE n == Len(chat_messages)
<1>1. n \in Nat /\ Base \in Int /\ 0 \in 0 .. n /\ n \in 0 .. n
  BY NumbersOfLog DEF Typed
<1>2. Screen = Drawing[n].shown /\ Drawing[0] = Start /\ Frame(Drawing[n])
  BY <1>1, DrawingSteps
<1>3. Follows(Start, Drawing[n], Base + 0)
  BY <1>1, <1>2, DrawingGrows
<1>4. Len(Screen) \in Nat /\ Screen \in Seq(Nat) /\ 1 \in 1 .. Len(Screen)
  BY <1>2, EmptySeq DEF Frame
<1>5. Screen[1] > Base + 0
  <2>1. Start.shown = << >>
    BY DEF Start
  <2> QED BY <1>2, <1>3, <1>4, <2>1, EmptySeq DEF Follows
<1>6. Screen[1] <= Base + n
  BY <1>1, <1>2, <1>4, DrawnSoFar
<1>7. Screen[1] \in Nat /\ Head(Screen) = Screen[1]
  BY <1>4, ElementOfSeq
<1>8. Screen[1] - Base \in 1 .. n /\ Base + (Screen[1] - Base) = Screen[1]
  BY <1>1, <1>5, <1>6, <1>7
<1>9. LogIndex(Screen[1]) = Screen[1] - Base
  BY <1>8, NumbersOfLog
<1> QED BY <1>7, <1>8, <1>9

\* What is missing from the middle of the screen is less than the first message
\* drawn needs, whatever the table, the window and the messages.
THEOREM GapsAreBehindLong == Spec => []GapsBehindLong
<1>1. LogInv /\ TypeOK => GapsBehindLong
  <2> DEFINE n == Len(chat_messages)
             needed == LinesNeeded(chat_messages[LogIndex(Head(Screen))])
             g == [k \in 1 .. n |-> IF Missing(chat_messages[k].number)
                                    THEN LinesNeeded(chat_messages[k]) ELSE 0]
             IsSwallowed(f) == f = [k \in 0 .. n |->
                  IF k = 0 THEN 0
                  ELSE f[k - 1] + (IF Missing(chat_messages[k].number)
                                   THEN LinesNeeded(chat_messages[k]) ELSE 0)]
             swallowed == CHOOSE f : IsSwallowed(f)
  <2>1. SUFFICES ASSUME LogInv, TypeOK, ~Divides, Screen # << >>
                 PROVE  swallowed[n] < needed
    BY DEF GapsBehindLong
  <2>2. Typed
    BY <2>1 DEF TypeOK, Typed
  <2>3. n \in Nat /\ DOMAIN chat_messages = 1 .. n
    BY <2>2 DEF Typed
  <2>4. g \in [1 .. n -> Int]
    BY <2>1, <2>2, <2>3, LinesNeededIsPositive
  <2>5. \A k \in 1 .. n : g[k] = IF Missing(chat_messages[k].number)
                                 THEN LinesNeeded(chat_messages[k]) ELSE 0
    OBVIOUS
  <2> HIDE DEF g
  <2>6. ASSUME NEW f PROVE IsSwallowed(f) <=> IsSum(f, g, n)
    <3>1. \A k \in 0 .. n : k # 0 => k \in 1 .. n
      BY <2>3
    <3> HIDE DEF n
    <3> QED BY <2>5, <3>1 DEF IsSum
  <2> HIDE DEF IsSwallowed, n
  <2>7. \E f : IsSwallowed(f)
    BY <2>3, <2>4, <2>6, SumExists
  <2>8. IsSum(swallowed, g, n)
    BY <2>6, <2>7
  <2> HIDE DEF swallowed
  <2>9. /\ swallowed \in [0 .. n -> Int] /\ swallowed[0] = 0
        /\ \A k \in 1 .. n : swallowed[k] = swallowed[k - 1] + g[k]
    <3>1. swallowed \in [0 .. n -> Int]
      BY <2>3, <2>4, <2>8, SumIsTyped
    <3> QED BY <2>3, <2>8, <3>1 DEF IsSum
  <2>10. needed \in Nat
    BY <2>1, <2>2, <2>3, FirstIsInLog, LinesNeededIsPositive DEF n
  <2>11. \A k \in 1 .. n : /\ chat_messages[k].number = Base + k
                           /\ LogIndex(Base + k) = k
                           /\ LinesNeeded(chat_messages[k]) \in Nat
    BY <2>1, <2>2, <2>3, NumbersOfLog, LinesNeededIsPositive DEF n
  <2> DEFINE Within(k) ==
                /\ Drawing[k].shown = << >> => swallowed[k] = 0
                /\ Drawing[k].shown # << >> => swallowed[k] + Drawing[k].skip < needed
             S == {k \in Nat : k <= n => Within(k)}
  <2>12. 0 \in S
    <3>1. Drawing[0] = Start /\ Start.shown = << >>
      BY <2>1, <2>2, DrawingSteps DEF Start
    <3> QED BY <2>9, <3>1
  <2>13. ASSUME NEW k \in S PROVE k + 1 \in S
    <3> SUFFICES ASSUME k + 1 <= n PROVE Within(k + 1)
      OBVIOUS
    <3>1. /\ k \in Nat /\ k + 1 \in 1 .. n /\ (k + 1) - 1 = k /\ k \in 0 .. n
          /\ k + 1 \in 0 .. n /\ n \in k + 1 .. n /\ n \in 0 .. n /\ Within(k)
      BY <2>3
    <3> DEFINE m == chat_messages[k + 1]
    <3>2. PICK d : d = Drawing[k]
      OBVIOUS
    <3>3. PICK e : e = Drawing[k + 1]
      OBVIOUS
    <3>4. /\ Frame(d) /\ Frame(e) /\ Frame(Drawing[n]) /\ Screen = Drawing[n].shown
          /\ Full(d, e, m) \/ Skipped(d, e, m) \/ Shown(d, e, m)
      BY <2>1, <2>2, <3>1, <3>2, <3>3, DrawingSteps DEF n
    <3>5. /\ m.number = Base + (k + 1) /\ LogIndex(Base + (k + 1)) = k + 1
          /\ LinesNeeded(m) \in Nat
      BY <2>11, <3>1
    <3>6. swallowed[k] \in Int /\ d.skip \in Nat /\ e.skip \in Nat
      BY <2>9, <3>1, <3>4 DEF Frame
    <3>7. CASE Missing(Base + (k + 1))
      <4>1. Skipped(d, e, m) /\ d.shown # << >>
        BY <2>1, <2>2, <3>1, <3>2, <3>3, <3>7, MissingIsSkipped DEF n
      <4>2. swallowed[k + 1] = swallowed[k] + LinesNeeded(m)
        BY <2>5, <2>9, <3>1, <3>5, <3>7
      <4>3. swallowed[k] + d.skip < needed
        BY <3>1, <3>2, <4>1
      <4> HIDE DEF m, needed
      <4>4. e.shown # << >> /\ swallowed[k + 1] + e.skip < needed
        BY <2>10, <3>5, <3>6, <4>1, <4>2, <4>3 DEF Skipped
      <4> QED BY <3>3, <4>4
    <3>8. CASE ~Missing(Base + (k + 1))
      <4>1. swallowed[k + 1] = swallowed[k]
        BY <2>5, <2>9, <3>1, <3>5, <3>6, <3>8
      <4>2. CASE Full(d, e, m)
        BY <3>1, <3>2, <3>3, <4>1, <4>2 DEF Full
      <4>3. CASE Skipped(d, e, m)
        <5>1. e.shown = d.shown /\ e.skip <= d.skip
          BY <3>5, <3>6, <4>3 DEF Skipped
        <5>2. d.shown # << >> => swallowed[k] + e.skip < needed
          <6> SUFFICES ASSUME d.shown # << >> PROVE swallowed[k] + e.skip < needed
            OBVIOUS
          <6>1. swallowed[k] + d.skip < needed
            BY <3>1, <3>2
          <6> HIDE DEF needed, m
          <6> QED BY <2>10, <3>6, <5>1, <6>1
        <5> QED BY <3>1, <3>2, <3>3, <4>1, <5>1, <5>2
      <4>4. CASE Shown(d, e, m)
        <5>1. e.skip = d.skip /\ e.shown = Append(d.shown, m.number) /\ m.number \in Nat
          <6>1. m \in ChatMsg
            BY <2>2, <3>1 DEF Typed, n
          <6> QED BY <4>4, <6>1 DEF Shown, ChatMsg
        <5>2. d.shown \in Seq(Nat) /\ e.shown # << >> /\ Len(e.shown) = Len(d.shown) + 1
          <6>1. d.shown \in Seq(Nat) /\ Len(d.shown) \in Nat
            BY <3>4 DEF Frame
          <6>2. Len(e.shown) = Len(d.shown) + 1 /\ e.shown \in Seq(Nat)
            BY <5>1, <6>1, AppendProperties
          <6>3. e.shown # << >>
            BY <6>1, <6>2, EmptySeq
          <6> QED BY <6>1, <6>2, <6>3
        <5>3. CASE d.shown # << >>
          BY <3>1, <3>2, <3>3, <4>1, <5>1, <5>2, <5>3
        <5>4. CASE d.shown = << >>
          <6>1. Len(e.shown) = 1 /\ e.shown[1] = m.number
            BY <5>1, <5>2, <5>4, AppendProperties
          <6>2. Follows(e, Drawing[n], Base + (k + 1))
            BY <2>1, <2>2, <3>1, <3>3, DrawingGrows DEF n
          <6>3. Screen[1] = m.number /\ Screen \in Seq(Nat)
            BY <3>4, <6>1, <6>2 DEF Follows, Frame
          <6>4. Head(Screen) = m.number
            BY <2>1, <6>3
          <6>5. needed = LinesNeeded(m)
            BY <3>5, <6>4
          <6>6. swallowed[k + 1] = 0 /\ d.skip < LinesNeeded(m)
            BY <3>1, <3>2, <4>1, <4>4, <5>4 DEF Shown
          <6> HIDE DEF needed, m
          <6> QED BY <3>3, <3>6, <5>1, <5>2, <6>5, <6>6
        <5> QED BY <5>3, <5>4
      <4> QED BY <3>4, <4>2, <4>3, <4>4
    <3> QED BY <3>7, <3>8
  <2>14. S = Nat
    <3> HIDE DEF S
    <3>1. S \subseteq Nat
      BY DEF S
    <3> QED BY <2>12, <2>13, <3>1, SetInduction
  <2>15. Within(n)
    <3>1. n \in S /\ n <= n
      BY <2>3, <2>14
    <3> QED BY <3>1
  <2>16. Drawing[n].shown # << >> /\ Drawing[n].skip \in Nat
    <3>1. n \in 0 .. n
      BY <2>3
    <3> QED BY <2>1, <2>2, <3>1, DrawingSteps DEF Frame, n
  <2>17. swallowed[n] \in Int
    BY <2>3, <2>9
  <2> HIDE DEF needed
  <2> QED BY <2>10, <2>15, <2>16, <2>17
<1> QED BY <1>1, LogInvariant, TypeCorrect, PTL
=============================================================================
