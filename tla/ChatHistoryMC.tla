---------------------------- MODULE ChatHistoryMC ----------------------------
(* An instance of ChatHistory for TLC. *)
EXTENDS ChatHistory

Short == <<FALSE>>
\* Two words, broken at the space and past the line computed for them.
Words == <<FALSE, FALSE, TRUE, FALSE, FALSE, FALSE>>
TwoTexts == {Short, Words}

\* Widths for 0 and for 3 characters of text after a sender of length 1.
Windows == {<<4, 18>>, <<4, 21>>, <<5, 21>>}
=============================================================================
