------------------------------- MODULE MsgBuffer -------------------------------
(***************************************************************************)
(* The message buffer of src/code/lcommon/msg.cpp: values are written to   *)
(* the end of a buffer of maxsize bytes and read back from its front.      *)
(*                                                                         *)
(* data is the part of the buffer that has been written: cursize is its    *)
(* length.  The values written and read are kept, as history, to compare   *)
(* them.  C strings hold no NUL.                                           *)
(***************************************************************************)
EXTENDS Integers, Sequences

CONSTANTS
    MaxSizes,          \* the sizes of buffers
    Ints,              \* C ints written as bytes, shorts and longs
    Strings,           \* strings written, each as its bytes, without the NUL
    Blocks,            \* blocks of bytes written by MSG_WriteData
    MAX_STRING_CHARS,
    MaxReads           \* bound: reads between two calls of Init or Clear

Byte == 0 .. 255

ASSUME MsgAssumption ==
    /\ MaxSizes \subseteq Nat
    /\ Ints \subseteq Int
    /\ Strings \subseteq Seq(Byte \ {0})
    /\ Blocks \subseteq Seq(Byte)
    /\ MAX_STRING_CHARS \in Nat \ {0}
    /\ MaxReads \in Nat

\* C ints have 32 bits.
ASSUME IntAssumption ==
    \A n \in Ints : -2147483647 - 1 <= n /\ n <= 2147483647

VARIABLES
    data,        \* the first cursize bytes
    maxsize,
    readcount,
    overflowed,
    written,     \* history: what was written, and not refused
    got          \* history: what was read, and was there

msgVars == <<data, maxsize, readcount, overflowed, written, got>>

cursize == Len(data)

MsgTypeOK ==
    /\ data \in Seq(Byte)
    /\ maxsize \in MaxSizes
    /\ readcount \in 0 .. cursize
    /\ overflowed \in BOOLEAN

Fresh ==
    /\ data' = << >>
    /\ readcount' = 0
    /\ overflowed' = FALSE
    /\ written' = << >>
    /\ got' = << >>

MsgInit ==
    /\ data = << >>
    /\ maxsize \in MaxSizes
    /\ readcount = 0
    /\ overflowed = FALSE
    /\ written = << >>
    /\ got = << >>

MSG_Init  == Fresh /\ maxsize' \in MaxSizes
MSG_Clear == Fresh /\ UNCHANGED maxsize

-----------------------------------------------------------------------------
(* Writing: all of a value, or nothing and overflowed. *)

Item(kind, value) == [kind |-> kind, value |-> value]

Write(kind, value, bytes, needed) ==
    /\ IF cursize + needed > maxsize
       THEN overflowed' = TRUE /\ UNCHANGED <<data, written>>
       ELSE /\ data' = data \o bytes
            /\ written' = Append(written, Item(kind, value))
            /\ UNCHANGED overflowed
    /\ UNCHANGED <<maxsize, readcount, got>>

\* A byte of a C int, the one that counts units of 2^16, say: ( type >> 16 ) & 0xFF.
ByteOf(n, unit) == (n \div unit) % 256

MSG_WriteByte(n)  == Write("byte", n, <<ByteOf(n, 1)>>, 1)

\* Room is asked for one byte, as in MSG_WriteByte.
MSG_WriteShort(n) == Write("short", n, <<ByteOf(n, 1), ByteOf(n, 256)>>, 1)
MSG_WriteLong(n)  ==
    Write("long", n, <<ByteOf(n, 1), ByteOf(n, 256), ByteOf(n, 65536), ByteOf(n, 16777216)>>, 1)

\* Mutant: the terminating NUL is not counted.
MSG_WriteStringUncounted(s) == Write("string", s, s \o <<0>>, Len(s))

MSG_WriteString(s) == Write("string", s, s \o <<0>>, Len(s) + 1)

\* A NULL pointer is written as a single 0.
MSG_WriteNull == Write("string", << >>, <<0>>, 1)

MSG_WriteData(d) == Write("data", d, d, Len(d))

-----------------------------------------------------------------------------
(* Reading. *)

Read(kind, value, n) ==
    /\ Len(got) < MaxReads
    /\ readcount' = readcount + n
    /\ got' = Append(got, Item(kind, value))
    /\ UNCHANGED <<data, maxsize, overflowed, written>>

\* Too few bytes are left: -1, or zeros, or "", and nothing is consumed.  It is
\* not a value, and not kept.
NothingRead == UNCHANGED msgVars

\* The k-th byte still to be read, from 0.
Next8(k) == data[readcount + k + 1]

MSG_ReadByte ==
    IF readcount + 1 > cursize THEN NothingRead
    ELSE Read("byte", Next8(0), 1)

\* Mutant: the second byte is not checked for.
MSG_ReadShortUnchecked ==
    IF readcount + 1 > cursize THEN NothingRead
    ELSE Read("short", Next8(0), 2)

\* Mutant: a short of which only half is there leaves the cursor behind the half.
MSG_ReadShortHalf ==
    IF readcount + 2 > cursize
    THEN readcount' = cursize /\ UNCHANGED <<data, maxsize, overflowed, written, got>>
    ELSE Read("short", Next8(0) + 256 * Next8(1), 2)

MSG_ReadShort ==
    IF readcount + 2 > cursize THEN NothingRead
    ELSE Read("short", Next8(0) + 256 * Next8(1), 2)

\* The highest byte is the one with the sign of an int.
Signed(b) == IF b >= 128 THEN b - 256 ELSE b

MSG_ReadLong ==
    IF readcount + 4 > cursize THEN NothingRead
    ELSE Read("long", Next8(0) + 256 * Next8(1) + 65536 * Next8(2)
                          + 16777216 * Signed(Next8(3)), 4)

\* The longest string that fits the static buffer.
Truncated(s) ==
    IF Len(s) < MAX_STRING_CHARS THEN s ELSE SubSeq(s, 1, MAX_STRING_CHARS - 1)

\* Up to a NUL, which is read too, or to the end; "" at the end.
MSG_ReadString ==
    IF readcount = cursize THEN NothingRead ELSE
    \E n \in 0 .. cursize - readcount :
        /\ \A k \in 0 .. n - 1 : Next8(k) # 0
        /\ readcount + n < cursize => Next8(n) = 0
        /\ Read("string", Truncated(SubSeq(data, readcount + 1, readcount + n)),
                IF readcount + n < cursize THEN n + 1 ELSE n)

\* A block that is not there is filled with zeros.
MSG_ReadData(n) ==
    IF readcount + n > cursize THEN NothingRead
    ELSE Read("data", SubSeq(data, readcount + 1, readcount + n), n)

-----------------------------------------------------------------------------
MsgWrites ==
    \/ \E n \in Ints : MSG_WriteByte(n) \/ MSG_WriteShort(n) \/ MSG_WriteLong(n)
    \/ \E s \in Strings : MSG_WriteString(s)
    \/ MSG_WriteNull
    \/ \E d \in Blocks : MSG_WriteData(d)

MsgReads ==
    \/ MSG_ReadByte \/ MSG_ReadShort \/ MSG_ReadLong \/ MSG_ReadString
    \/ \E d \in Blocks : MSG_ReadData(Len(d))

MsgNext == MSG_Init \/ MSG_Clear \/ MsgWrites \/ MsgReads

MsgSpec == MsgInit /\ [][MsgNext]_msgVars

-----------------------------------------------------------------------------
(* What the buffer promises. *)

SameKind(a, b) ==
    a.kind = b.kind /\ (a.kind = "data" => Len(a.value) = Len(b.value))

\* What reading a value gives: as many of its bits as were written, and of a
\* string what fits.
Kept(w) ==
    CASE w.kind = "byte"   -> w.value % 256
      [] w.kind = "short"  -> w.value % 65536
      [] w.kind = "string" -> Truncated(w.value)
      [] OTHER             -> w.value

\* A reader that asks for the kinds that were written gets the values that were
\* written, in order, whichever writes in between were refused, however the reads
\* and the writes alternate, and however often it asks for one too early.
ReadBack ==
    \A k \in DOMAIN got :
        (\A j \in 1 .. k : j \in DOMAIN written /\ SameKind(got[j], written[j]))
            => got[k].value = Kept(written[k])

\* The buffer is written past its end by a short or a long at its end, never
\* by a byte, a string or a block, which is all the program writes; nothing is
\* written after that.
OverrunOnlyWide ==
    cursize > maxsize =>
        LET last == written[Len(written)] IN
        \/ last.kind = "short" /\ cursize = maxsize + 1
        \/ last.kind = "long"  /\ cursize <= maxsize + 3
=============================================================================
