------------------------------- MODULE CmdBuffer -------------------------------
(***************************************************************************)
(* The command lines of src/code/lcommon/cmd.cpp: the tokenizer, the       *)
(* execution of a line and the buffer of lines still to be executed.       *)
(*                                                                         *)
(* Text is a sequence of character codes, without the NUL at its end.      *)
(* Users think in lines of words: the model lets them type such lines,     *)
(* writes them out as text for the code, and keeps them as history.        *)
(***************************************************************************)
EXTENDS CmdTable, SequencesExt

CONSTANTS
    MAX_CMD_TOKENS,
    MAX_CMD_LENGTH,
    MAX_CMD_BUFFER,
    MaxInput, \* characters of a line the chat screen takes
    Bare,     \* words typed as they are
    Quoted,   \* words typed between quotes
    Gaps,     \* blanks typed between words
    Commands, \* the names registered and removed while lines run
    MaxWords, \* bound: words of a line that is typed
    MaxQueued \* bound: lines of the buffer, and words of each

TAB     == 9
NEWLINE == 10
SPACE   == 32
QUOTE   == 34
SLASH   == 47
SEMI    == 59

ASSUME LineAssumption ==
    /\ MAX_CMD_TOKENS \in Nat \ {0}
    /\ MAX_CMD_LENGTH \in Nat \ {0}
    /\ MAX_CMD_BUFFER \in Nat \ {0}
    /\ MaxInput \in Nat /\ MaxInput < MAX_CMD_LENGTH
    /\ MaxWords \in Nat /\ MaxQueued \in Nat
    /\ Commands \subseteq Names
    /\ \A w \in Bare \cup Quoted : HashString(w) \in Nat
    /\ Bare \cup Quoted \cup Gaps \subseteq Seq(Int)
    /\ \A w \in Bare : /\ w # << >> /\ w[1] \notin {QUOTE, SLASH}
                       /\ \A k \in DOMAIN w : w[k] > SPACE /\ w[k] # SEMI
    /\ \A w \in Quoted : \A k \in DOMAIN w : w[k] \notin {QUOTE, SEMI, NEWLINE}
    /\ \A g \in Gaps : g # << >> /\ \A k \in DOMAIN g : g[k] \in {TAB, SPACE}

VARIABLES
    cmd_buffer,   \* its first cmd_buffer_len characters
    calls,        \* what the step just taken executed
    intact,       \* no text was tokenized past the end of cmd_tokenized
    queued,       \* history: the lines in the buffer
    asked         \* history: the lines the step was to execute

lineVars == <<cmd_buffer, calls, intact, queued, asked>>
cmdVars  == <<tableVars, lineVars>>

LineInit ==
    /\ TableInit
    /\ cmd_buffer = << >>
    /\ calls = << >>
    /\ intact = TRUE
    /\ queued = << >>
    /\ asked = << >>

-----------------------------------------------------------------------------
(* The tokenizer. *)

\* The first position from p on whose character passes, or the one after the
\* last.
FirstFrom(text, p, Passes(_)) ==
    CHOOSE q \in p .. Len(text) + 1 :
        /\ q <= Len(text) => Passes(text[q])
        /\ \A k \in p .. q - 1 : ~Passes(text[k])

\* Blanks and control characters part words, but not between quotes.
IsBlank(c)  == c <= SPACE
NotBlank(c) == ~IsBlank(c)
IsQuote(c)  == c = QUOTE

\* The word at q, and where to go on.
WordAt(text, q) ==
    IF IsQuote(text[q])
    THEN LET e == FirstFrom(text, q + 1, IsQuote)
         IN  [word |-> SubSeq(text, q + 1, e - 1),
              next |-> IF e <= Len(text) THEN e + 1 ELSE e]
    ELSE LET e == FirstFrom(text, q, IsBlank)
         IN  [word |-> SubSeq(text, q, e - 1), next |-> e]

\* Mutant: a word ends at a blank, quoted or not.
Cmd_TokenizeStringBlanks(text) ==
    LET start == IF text # << >> /\ text[1] = SLASH THEN 2 ELSE 1
        scan[k \in 0 .. MAX_CMD_TOKENS] ==
            IF k = 0 THEN [pos |-> start, argv |-> << >>]
            ELSE LET q == FirstFrom(text, scan[k - 1].pos, NotBlank)
                     e == FirstFrom(text, q, IsBlank)
                 IN  IF q > Len(text) THEN scan[k - 1]
                     ELSE [pos |-> e, argv |-> Append(scan[k - 1].argv, SubSeq(text, q, e - 1))]
    IN  scan[MAX_CMD_TOKENS].argv

\* Mutant: the end of the text is not looked for before a word is begun.
Cmd_TokenizeStringPastEnd(text) ==
    LET start == IF text # << >> /\ text[1] = SLASH THEN 2 ELSE 1
        scan[k \in 0 .. MAX_CMD_TOKENS] ==
            IF k = 0 THEN [pos |-> start, argv |-> << >>]
            ELSE LET q == FirstFrom(text, scan[k - 1].pos, NotBlank)
                     w == IF q > Len(text) THEN [word |-> << >>, next |-> q] ELSE WordAt(text, q)
                 IN  [pos |-> w.next, argv |-> Append(scan[k - 1].argv, w.word)]
    IN  scan[MAX_CMD_TOKENS].argv

\* cmd_argv: at most MAX_CMD_TOKENS words; what follows them is ignored.
Cmd_TokenizeString(text) ==
    LET start == IF text # << >> /\ text[1] = SLASH THEN 2 ELSE 1
        scan[k \in 0 .. MAX_CMD_TOKENS] ==
            IF k = 0 THEN [pos |-> start, argv |-> << >>]
            ELSE LET q == FirstFrom(text, scan[k - 1].pos, NotBlank)
                     w == WordAt(text, q)
                 IN  IF q > Len(text) THEN scan[k - 1]
                     ELSE [pos |-> w.next, argv |-> Append(scan[k - 1].argv, w.word)]
    IN  scan[MAX_CMD_TOKENS].argv

\* The words, each with a NUL, as they are written to cmd_tokenized.
Stored(argv) == FlattenSeq([k \in DOMAIN argv |-> Append(argv[k], 0)])

\* cmd_tokenized has MAX_CMD_LENGTH bytes, and nothing stops at its end.
Overruns(text) == Len(Stored(Cmd_TokenizeString(text))) > MAX_CMD_LENGTH

Cut(s, n) == IF Len(s) <= n THEN s ELSE SubSeq(s, 1, n)

\* The words after the first, with a blank between them, as far as they fit.
Cmd_Args(argv) ==
    LET Copied(s, t) == Cut(s \o t, MAX_CMD_LENGTH - 1)
        args[k \in 1 .. Len(argv)] ==
            IF k = 1 THEN << >>
            ELSE Copied(IF k > 2 THEN Copied(args[k - 1], <<SPACE>>) ELSE << >>, argv[k])
    IN  args[Len(argv)]

-----------------------------------------------------------------------------
(* Execution. *)

Call(func, argv) == [func |-> func, argv |-> argv, args |-> Cmd_Args(argv)]

\* What executing a text calls: nothing, the function of its first word, or,
\* with NULL, Cmd_ErrorCallback.
Cmd_ExecuteString(text) ==
    LET argv == Cmd_TokenizeString(text)
    IN  IF argv = << >> THEN << >>
        ELSE <<Call(Cmd_FindCommand(argv[1]), argv)>>

\* Texts are executed in order. What the program does once one of them overran
\* is undefined, and the model ends there.
ExecuteStrings(texts) ==
    \E n \in 0 .. Len(texts) :
        /\ \A k \in 1 .. n : ~Overruns(texts[k])
        /\ n < Len(texts) => Overruns(texts[n + 1])
        /\ intact' = (n = Len(texts))
        /\ calls' = FlattenSeq([k \in 1 .. n |-> Cmd_ExecuteString(texts[k])])

Cbuf_Init == cmd_buffer' = << >> /\ queued' = << >>

\* Mutant: a text that fits exactly leaves no room for the NUL.
FitsExactly(text) == Len(cmd_buffer) + Len(text) <= MAX_CMD_BUFFER

\* The NUL at the end has its place, too.
Fits(text) == Len(cmd_buffer) + Len(text) < MAX_CMD_BUFFER

Cbuf_AddText(text) ==
    IF Fits(text) THEN cmd_buffer' = cmd_buffer \o text ELSE UNCHANGED cmd_buffer

Cbuf_InsertText(text) ==
    IF Fits(text) THEN cmd_buffer' = text \o cmd_buffer ELSE UNCHANGED cmd_buffer

Ends(c) == c \in {NEWLINE, SEMI}

\* Lines end at a newline or a semicolon, quoted or not; the last may not end.
BufferLines ==
    LET reads[k \in 0 .. Len(cmd_buffer)] ==
            IF k = 0 THEN [line |-> << >>, lines |-> << >>]
            ELSE LET s == reads[k - 1]
                     c == cmd_buffer[k]
                 IN  IF Ends(c)
                     THEN [line |-> << >>, lines |-> Append(s.lines, s.line)]
                     ELSE [s EXCEPT !.line = Append(@, c)]
        all == reads[Len(cmd_buffer)]
    IN  IF all.line = << >> THEN all.lines ELSE Append(all.lines, all.line)

\* The commands called add no text themselves: none of the program's does.
Cbuf_Execute ==
    /\ ExecuteStrings(BufferLines)
    /\ asked' = queued
    /\ Cbuf_Init

-----------------------------------------------------------------------------
(* What is typed. *)

\* The quote that ends a line's last word may be left out.
Words == [text : Bare, quoted : {FALSE}] \cup [text : Quoted, quoted : {TRUE}]
Lines(n) ==
    {line \in [slash : BOOLEAN, words : BoundedSeq(Words, n), gap : Gaps, open : BOOLEAN] :
        line.open => line.words # << >> /\ Last(line.words).quoted}

TextOf(line) ==
    LET n == Len(line.words)
        Shown(w, open) == IF ~w.quoted THEN w.text
                          ELSE <<QUOTE>> \o w.text \o IF open THEN << >> ELSE <<QUOTE>>
    IN  (IF line.slash THEN <<SLASH>> ELSE << >>)
        \o FlattenSeq([k \in 1 .. n |-> Shown(line.words[k], line.open /\ k = n)
                                         \o IF k < n THEN line.gap ELSE << >>])

Typed  == {line \in Lines(MaxWords) : line.slash /\ Len(TextOf(line)) <= MaxInput}
Script == Lines(MaxQueued)

\* From the chat screen, where a line starts with a slash.  The buffer plays no
\* part in it, and bound: is empty.
ExecuteTyped(line) ==
    /\ queued = << >>
    /\ ExecuteStrings(<<TextOf(line)>>)
    /\ asked' = <<line>>
    /\ UNCHANGED <<cmd_buffer, queued>>

\* A text starts a line of the buffer, and ends it.
AddLine(line, end) ==
    /\ cmd_buffer # << >> => Ends(cmd_buffer[Len(cmd_buffer)])
    /\ Cbuf_AddText(TextOf(line) \o end)
    /\ queued' = IF cmd_buffer' # cmd_buffer THEN Append(queued, line) ELSE queued

InsertLine(line, end) ==
    /\ Cbuf_InsertText(TextOf(line) \o end)
    /\ queued' = IF cmd_buffer' # cmd_buffer THEN <<line>> \o queued ELSE queued

-----------------------------------------------------------------------------
NothingRuns == calls' = << >> /\ asked' = << >> /\ UNCHANGED intact

Executes ==
    /\ ~dangling
    /\ \/ \E line \in Typed : ExecuteTyped(line)
       \/ Cbuf_Execute
    /\ UNCHANGED tableVars

Fills ==
    /\ NothingRuns
    /\ \/ \E line \in Script :
            /\ Len(queued) < MaxQueued
            /\ \/ \E end \in {<<NEWLINE>>, <<SEMI>>} : AddLine(line, end) \/ InsertLine(line, end)
               \/ AddLine(line, << >>)
       \/ Cbuf_Init
    /\ UNCHANGED tableVars

\* The table's steps. Cmd_Init clears the buffer as well.
Cmd_Init == Cleared /\ Cbuf_Init /\ NothingRuns

LineNext ==
    /\ intact
    /\ \/ Executes
       \/ Fills
       \/ Cmd_Init
       \/ /\ ~dangling
          /\ \/ Cmd_Shutdown
             \/ /\ UNCHANGED dangling
                /\ \E name \in Commands : \/ \E func \in Funcs : Cmd_AddCommand(name, func)
                                          \/ Cmd_RemoveCommand(name)
          /\ NothingRuns
          /\ UNCHANGED <<cmd_buffer, queued>>

LineSpec == LineInit /\ [][LineNext]_cmdVars

-----------------------------------------------------------------------------
(* What was typed is what runs. *)

\* What a user who typed a line expects of it.
Expected(line) ==
    LET words == [k \in DOMAIN line.words |-> line.words[k].text]
        argv  == Cut(words, MAX_CMD_TOKENS)
        args  == FlattenSeq([k \in 1 .. Len(argv) - 1 |->
                                (IF k > 1 THEN <<SPACE>> ELSE << >>) \o argv[k + 1]])
    IN  IF words = << >> THEN << >>
        ELSE <<[func |-> IF words[1] \in Names THEN registered[words[1]] ELSE NULL,
                argv |-> argv, args |-> args]>>

\* Every line that was typed, or was in the buffer, runs once, in order, unless
\* cmd_tokenized was overrun, and then those before: the command registered under
\* its first word is called with the words that were typed, quoted blanks, empty
\* words and a last one whose quote was not closed included, up to their limit,
\* and with all of them as Cmd_Args; and nothing else is called.  Between quotes,
\* too, a semicolon would end a line of the buffer, and no line has one here.
RunsWhatWasTyped ==
    \E n \in 0 .. Len(asked) :
        /\ intact => n = Len(asked)
        /\ calls = FlattenSeq([k \in 1 .. n |-> Expected(asked[k])])

\* cmd_tokenized is overrun by no line shorter than MAX_CMD_LENGTH, the "max
\* single command line length" of cmd.h: by none from the chat screen, whose lines
\* are.  A longer line of the buffer, which holds more, can overrun it: nothing
\* asks for its length.
TokensFit ==
    intact \/ \E k \in DOMAIN asked : Len(TextOf(asked[k])) >= MAX_CMD_LENGTH

\* The buffer holds its text and a NUL, and the text is the lines that were
\* queued and not refused, in order.
BufferHoldsLines ==
    /\ Len(cmd_buffer) < MAX_CMD_BUFFER
    /\ \E ends \in [DOMAIN queued -> {<<NEWLINE>>, <<SEMI>>, << >>}] :
          cmd_buffer = FlattenSeq([k \in DOMAIN queued |-> TextOf(queued[k]) \o ends[k]])
=============================================================================
