---------------------------- MODULE MsgBufferProofs ----------------------------
(***************************************************************************)
(* Proofs about MsgBuffer, for buffers of any size and any values: the     *)
(* bounds of writing, and that what was written is what is read.           *)
(***************************************************************************)
EXTENDS MsgBuffer, SequenceTheorems, TLAPS

\* What is written, as the history has it.
Kinds  == {"byte", "short", "long", "string", "data"}
Items  == [kind : Kinds, value : Ints \cup Strings \cup Blocks \cup {<< >>}]

MsgIInv ==
    /\ MsgTypeOK
    /\ written \in Seq(Items)
    /\ data # << >> => written # << >>
    /\ OverrunOnlyWide

-----------------------------------------------------------------------------
LEMMA BytesOfInts ==
  ASSUME NEW n \in Ints
  PROVE  /\ ByteOf(n, 1) \in Byte /\ ByteOf(n, 256) \in Byte
         /\ ByteOf(n, 65536) \in Byte /\ ByteOf(n, 16777216) \in Byte
  BY MsgAssumption DEF ByteOf, Byte

\* A write that asks for as much room as it takes, or for one byte of the two of
\* a short and the four of a long.
LEMMA WriteKeepsInv ==
  ASSUME MsgIInv, NEW kind \in Kinds, NEW bytes \in Seq(Byte), NEW needed \in Nat,
         NEW value \in Ints \cup Strings \cup Blocks \cup {<< >>},
         \/ needed = Len(bytes)
         \/ needed = 1 /\ kind = "short" /\ Len(bytes) = 2
         \/ needed = 1 /\ kind = "long" /\ Len(bytes) = 4,
         Write(kind, value, bytes, needed)
  PROVE  MsgIInv'
  <1>0. /\ data \in Seq(Byte) /\ Len(data) \in Nat /\ Len(bytes) \in Nat /\ maxsize \in Nat
        /\ readcount \in 0 .. Len(data) /\ written \in Seq(Items)
        /\ UNCHANGED <<maxsize, readcount, got>>
    BY LenProperties, MsgAssumption DEF MsgIInv, MsgTypeOK, cursize, Write
  <1>b. overflowed \in BOOLEAN
    BY Zenon DEF MsgIInv, MsgTypeOK
  <1>1. CASE Len(data) + needed > maxsize
    <2>1. overflowed' = TRUE /\ UNCHANGED <<data, written>>
      BY <1>1 DEF Write, cursize
    <2> QED BY <1>0, <2>1 DEF MsgIInv, MsgTypeOK, OverrunOnlyWide, cursize
  <1>2. CASE ~(Len(data) + needed > maxsize)
    <2> DEFINE item == Item(kind, value)
    <2>1. /\ data' = data \o bytes /\ written' = Append(written, item)
          /\ overflowed' = overflowed
      BY <1>2 DEF Write, cursize
    <2>2. data' \in Seq(Byte) /\ Len(data') = Len(data) + Len(bytes)
      BY <1>0, <2>1, ConcatProperties
    <2>3. item \in Items /\ item.kind = kind
      BY DEF Item, Items
    <2> HIDE DEF item
    <2>4. /\ written' \in Seq(Items) /\ written'[Len(written')] = item
          /\ written' # << >>
      <3>1. written \in Seq(Items) /\ Len(written) \in Nat /\ written' = Append(written, item)
        BY <1>0, <2>1, LenProperties
      <3>2. /\ written' \in Seq(Items) /\ Len(written') = Len(written) + 1
            /\ written'[Len(written) + 1] = item
        BY <2>3, <3>1, AppendProperties
      <3>3. written' # << >>
        BY <3>1, <3>2, EmptySeq
      <3> QED BY <3>2, <3>3
    <2>5. MsgTypeOK'
      <3>1. readcount' \in 0 .. Len(data')
        BY <1>0, <2>2
      <3>2. maxsize' \in MaxSizes
        BY <1>0 DEF MsgIInv, MsgTypeOK
      <3>3. overflowed' \in BOOLEAN
        BY <1>b, <2>1, Zenon
      <3> QED BY <2>2, <3>1, <3>2, <3>3, Zenon DEF MsgTypeOK, cursize
    <2>6. Len(data') > maxsize =>
            \/ kind = "short" /\ Len(data') = maxsize + 1
            \/ kind = "long" /\ Len(data') <= maxsize + 3
      <3> DEFINE l == Len(data)
                 m == Len(bytes)
      <3>1. l \in Nat /\ m \in Nat /\ maxsize \in Nat /\ l + needed <= maxsize
        BY <1>0, <1>2
      <3>2. Len(data') = l + m
        BY <2>2
      <3> HIDE DEF l, m
      <3>3. CASE needed = m
        <4>1. ~(l + m > maxsize)
          BY <3>1, <3>3
        <4> QED BY <3>2, <4>1
      <3>4. CASE needed = 1 /\ kind = "short" /\ m = 2
        <4>1. l + m <= maxsize + 1 /\ l + m \in Nat
          BY <3>1, <3>4
        <4>2. l + m > maxsize => l + m = maxsize + 1
          BY <3>1, <4>1
        <4> QED BY <3>2, <3>4, <4>2
      <3>5. CASE needed = 1 /\ kind = "long" /\ m = 4
        <4>1. l + m <= maxsize + 3
          BY <3>1, <3>5
        <4> QED BY <3>2, <3>5, <4>1
      <3> QED BY <3>3, <3>4, <3>5 DEF m
    <2>7. OverrunOnlyWide'
      BY <1>0, <2>3, <2>4, <2>6 DEF OverrunOnlyWide, cursize
    <2> QED BY <2>4, <2>5, <2>7 DEF MsgIInv
  <1> QED BY <1>1, <1>2

LEMMA WritesKeepInv ==
  ASSUME MsgIInv, MsgWrites
  PROVE  MsgIInv'
  <1>1. ASSUME NEW n \in Ints, MSG_WriteByte(n) PROVE MsgIInv'
    <2>1. <<ByteOf(n, 1)>> \in Seq(Byte) /\ Len(<<ByteOf(n, 1)>>) = 1
      BY BytesOfInts
    <2> QED BY <1>1, <2>1, WriteKeepsInv DEF MSG_WriteByte, Kinds
  <1>2. ASSUME NEW n \in Ints, MSG_WriteShort(n) PROVE MsgIInv'
    <2> DEFINE b == <<ByteOf(n, 1), ByteOf(n, 256)>>
    <2>1. b \in Seq(Byte) /\ Len(b) = 2
      BY BytesOfInts
    <2> QED BY <1>2, <2>1, WriteKeepsInv DEF MSG_WriteShort, Kinds
  <1>3. ASSUME NEW n \in Ints, MSG_WriteLong(n) PROVE MsgIInv'
    <2> DEFINE b == <<ByteOf(n, 1), ByteOf(n, 256), ByteOf(n, 65536), ByteOf(n, 16777216)>>
    <2>1. b \in Seq(Byte) /\ Len(b) = 4
      BY BytesOfInts
    <2>2. Write("long", n, b, 1)
      BY <1>3 DEF MSG_WriteLong
    <2> HIDE DEF b
    <2> QED BY <2>1, <2>2, WriteKeepsInv DEF Kinds
  <1>4. ASSUME NEW s \in Strings, MSG_WriteString(s) PROVE MsgIInv'
    <2>1. s \in Seq(Byte) /\ <<0>> \in Seq(Byte) /\ Len(<<0>>) = 1
      <3>1. s \in Seq(Byte \ {0}) /\ Len(s) \in Nat
        BY MsgAssumption, LenProperties
      <3>2. \A k \in 1 .. Len(s) : s[k] \in Byte
        BY <3>1, ElementOfSeq
      <3>3. s = [k \in 1 .. Len(s) |-> s[k]]
        BY <3>1, SeqDef
      <3> QED BY <3>1, <3>2, <3>3 DEF Byte
    <2>2. s \o <<0>> \in Seq(Byte) /\ Len(s \o <<0>>) = Len(s) + 1 /\ Len(s) + 1 \in Nat
      BY <2>1, ConcatProperties, LenProperties
    <2> QED BY <1>4, <2>2, WriteKeepsInv DEF MSG_WriteString, Kinds
  <1>5. CASE MSG_WriteNull
    <2>1. <<0>> \in Seq(Byte) /\ Len(<<0>>) = 1
      BY DEF Byte
    <2> QED BY <1>5, <2>1, WriteKeepsInv DEF MSG_WriteNull, Kinds
  <1>6. ASSUME NEW d \in Blocks, MSG_WriteData(d) PROVE MsgIInv'
    <2>1. d \in Seq(Byte) /\ Len(d) \in Nat
      BY MsgAssumption, LenProperties
    <2> QED BY <1>6, <2>1, WriteKeepsInv DEF MSG_WriteData, Kinds
  <1> QED BY <1>1, <1>2, <1>3, <1>4, <1>5, <1>6 DEF MsgWrites

\* A read goes on by what it returned, and no further than the end.
LEMMA ReadKeepsInv ==
  ASSUME MsgIInv, NEW kind, NEW value, NEW n \in Nat, readcount + n <= cursize,
         Read(kind, value, n)
  PROVE  MsgIInv'
  <1>1. /\ readcount' = readcount + n
        /\ UNCHANGED <<data, maxsize, overflowed, written>>
    BY DEF Read
  <1>2. data \in Seq(Byte) /\ Len(data) \in Nat /\ readcount \in 0 .. Len(data)
    BY LenProperties DEF MsgIInv, MsgTypeOK, cursize
  <1>3. readcount' \in 0 .. Len(data)
    BY <1>1, <1>2 DEF cursize
  <1> QED BY <1>1, <1>3 DEF MsgIInv, MsgTypeOK, OverrunOnlyWide, cursize

LEMMA ReadsKeepInv ==
  ASSUME MsgIInv, MsgReads
  PROVE  MsgIInv'
  <1>0. cursize \in Nat /\ readcount \in 0 .. cursize
    BY LenProperties DEF MsgIInv, MsgTypeOK, cursize
  <1>1. CASE NothingRead
    BY <1>1 DEF NothingRead, msgVars, MsgIInv, MsgTypeOK, OverrunOnlyWide, cursize
  <1>2. ASSUME MSG_ReadByte, ~NothingRead PROVE MsgIInv'
    BY <1>0, <1>2, ReadKeepsInv DEF MSG_ReadByte
  <1>3. ASSUME MSG_ReadShort, ~NothingRead PROVE MsgIInv'
    BY <1>0, <1>3, ReadKeepsInv DEF MSG_ReadShort
  <1>4. ASSUME MSG_ReadLong, ~NothingRead PROVE MsgIInv'
    BY <1>0, <1>4, ReadKeepsInv DEF MSG_ReadLong
  <1>5. ASSUME MSG_ReadString, ~NothingRead PROVE MsgIInv'
    <2>1. PICK n \in 0 .. cursize - readcount :
             Read("string", Truncated(SubSeq(data, readcount + 1, readcount + n)),
                  IF readcount + n < cursize THEN n + 1 ELSE n)
      BY <1>5 DEF MSG_ReadString
    <2> DEFINE m == IF readcount + n < cursize THEN n + 1 ELSE n
    <2>2. m \in Nat /\ readcount + m <= cursize
      BY <1>0
    <2> HIDE DEF m
    <2>3. Read("string", Truncated(SubSeq(data, readcount + 1, readcount + n)), m)
      BY <2>1 DEF m
    <2> QED BY <2>2, <2>3, ReadKeepsInv
  <1>6. ASSUME NEW d \in Blocks, MSG_ReadData(Len(d)), ~NothingRead PROVE MsgIInv'
    <2>1. Len(d) \in Nat
      BY MsgAssumption, LenProperties
    <2> QED BY <1>0, <1>6, <2>1, ReadKeepsInv DEF MSG_ReadData
  <1> QED BY <1>1, <1>2, <1>3, <1>4, <1>5, <1>6 DEF MsgReads

-----------------------------------------------------------------------------
\* The inductive invariant holds throughout.
THEOREM MsgInvariant == MsgSpec => []MsgIInv
  <1>1. Len(<< >>) = 0 /\ << >> \in Seq(Byte) /\ << >> \in Seq(Items)
    BY EmptySeq
  <1>2. MsgInit => MsgIInv
    <2> SUFFICES ASSUME MsgInit PROVE MsgIInv
      OBVIOUS
    <2>1. MsgTypeOK
      <3>1. data = << >> /\ maxsize \in MaxSizes /\ readcount = 0
        BY DEF MsgInit
      <3>2. overflowed \in BOOLEAN
        BY Zenon DEF MsgInit
      <3>3. readcount \in 0 .. cursize
        BY <1>1, <3>1 DEF cursize
      <3> QED BY <1>1, <3>1, <3>2, <3>3, Zenon DEF MsgTypeOK
    <2>2. OverrunOnlyWide
      BY <1>1, MsgAssumption DEF MsgInit, OverrunOnlyWide, cursize
    <2> QED BY <1>1, <2>1, <2>2 DEF MsgInit, MsgIInv
  <1>3. MsgIInv /\ [MsgNext]_msgVars => MsgIInv'
    <2> SUFFICES ASSUME MsgIInv, [MsgNext]_msgVars PROVE MsgIInv'
      OBVIOUS
    <2>1. CASE MSG_Init \/ MSG_Clear
      <3>1. Fresh /\ maxsize' \in MaxSizes
        BY <2>1 DEF MSG_Init, MSG_Clear, MsgIInv, MsgTypeOK
      <3>2. MsgTypeOK'
        <4>1. data' = << >> /\ readcount' = 0
          BY <3>1 DEF Fresh
        <4>2. overflowed' \in BOOLEAN
          BY <3>1, Zenon DEF Fresh
        <4>3. readcount' \in 0 .. cursize'
          BY <1>1, <4>1 DEF cursize
        <4> QED BY <1>1, <3>1, <4>1, <4>2, <4>3, Zenon DEF MsgTypeOK
      <3>3. OverrunOnlyWide'
        BY <1>1, <3>1, MsgAssumption DEF Fresh, OverrunOnlyWide, cursize
      <3> QED BY <1>1, <3>1, <3>2, <3>3 DEF Fresh, MsgIInv
    <2>2. CASE MsgWrites
      BY <2>2, WritesKeepInv
    <2>3. CASE MsgReads
      BY <2>3, ReadsKeepInv
    <2>4. CASE UNCHANGED msgVars
      BY <2>4 DEF msgVars, MsgIInv, MsgTypeOK, OverrunOnlyWide, cursize
    <2> QED BY <2>1, <2>2, <2>3, <2>4 DEF MsgNext
  <1> QED BY <1>2, <1>3, PTL DEF MsgSpec

\* The reader never gets ahead of what was written.
THEOREM MsgTypeCorrect == MsgSpec => []MsgTypeOK
  <1>1. MsgIInv => MsgTypeOK
    BY DEF MsgIInv
  <1> QED BY <1>1, MsgInvariant, PTL

\* A buffer is overrun by a short or a long at its end, by at most three bytes,
\* and by nothing else.
THEOREM OverrunIsWide == MsgSpec => []OverrunOnlyWide
  <1>1. MsgIInv => OverrunOnlyWide
    BY DEF MsgIInv
  <1> QED BY <1>1, MsgInvariant, PTL

-----------------------------------------------------------------------------
(* Reading back.  Every value that was not refused stands in the buffer,    *)
(* one after the other, as its bytes, and a reader that has asked for what  *)
(* was written stands between two of them.                                  *)

Encoding(w) ==
    CASE w.kind = "byte"   -> <<ByteOf(w.value, 1)>>
      [] w.kind = "short"  -> <<ByteOf(w.value, 1), ByteOf(w.value, 256)>>
      [] w.kind = "long"   -> <<ByteOf(w.value, 1), ByteOf(w.value, 256),
                                ByteOf(w.value, 65536), ByteOf(w.value, 16777216)>>
      [] w.kind = "string" -> w.value \o <<0>>
      [] w.kind = "data"   -> w.value

Sound(w) ==
    \/ w.kind \in {"byte", "short", "long"} /\ w.value \in Ints
    \/ w.kind = "string" /\ w.value \in Strings \cup {<< >>}
    \/ w.kind = "data" /\ w.value \in Blocks

\* The bytes of w stand in the buffer from its a-th byte on.
Stands(w, a) ==
    \A i \in 1 .. Len(Encoding(w)) : data[a + i] = Encoding(w)[i]

\* ends[k] is where the k-th value ends.
Laid(ends) ==
    /\ ends \in [0 .. Len(written) -> 0 .. cursize]
    /\ ends[0] = 0 /\ ends[Len(written)] = cursize
    /\ \A k \in 1 .. Len(written) :
          /\ Sound(written[k])
          /\ ends[k] = ends[k - 1] + Len(Encoding(written[k]))
          /\ Stands(written[k], ends[k - 1])

\* The first k reads asked for the kinds that were written.
Agree(k) == \A j \in 1 .. k : j \in DOMAIN written /\ SameKind(got[j], written[j])

\* What a reader gets that has read everything: a block of no bytes.
Nothing(r) == r.kind = "data" /\ r.value = << >>

Where(ends) ==
    IF Len(got) <= Len(written)
    THEN Agree(Len(got)) => readcount = ends[Len(got)]
    ELSE Agree(Len(written)) =>
            /\ readcount = cursize
            /\ \A j \in Len(written) + 1 .. Len(got) : Nothing(got[j])

Replies == [kind : Kinds, value : Int \cup Seq(Byte)]

ReadInv ==
    /\ got \in Seq(Replies)
    /\ \E ends : Laid(ends) /\ Where(ends)
    /\ ReadBack

\* What is written is put together of bytes.
LEMMA EncodingIsBytes ==
  ASSUME NEW w, Sound(w)
  PROVE  Encoding(w) \in Seq(Byte) /\ Len(Encoding(w)) \in Nat
  <1>1. ASSUME w.kind = "byte" PROVE Encoding(w) \in Seq(Byte)
    <2>1. ByteOf(w.value, 1) \in Byte /\ Encoding(w) = <<ByteOf(w.value, 1)>>
      BY <1>1, BytesOfInts, SMT DEF Sound, Encoding
    <2> QED BY <2>1, SMT
  <1>2. ASSUME w.kind = "short" PROVE Encoding(w) \in Seq(Byte)
    <2>1. /\ ByteOf(w.value, 1) \in Byte /\ ByteOf(w.value, 256) \in Byte
          /\ Encoding(w) = <<ByteOf(w.value, 1), ByteOf(w.value, 256)>>
      BY <1>2, BytesOfInts, SMT DEF Sound, Encoding
    <2> QED BY <2>1, SMT
  <1>3. ASSUME w.kind = "long" PROVE Encoding(w) \in Seq(Byte)
    <2>1. /\ ByteOf(w.value, 1) \in Byte /\ ByteOf(w.value, 256) \in Byte
          /\ ByteOf(w.value, 65536) \in Byte /\ ByteOf(w.value, 16777216) \in Byte
          /\ Encoding(w) = <<ByteOf(w.value, 1), ByteOf(w.value, 256),
                             ByteOf(w.value, 65536), ByteOf(w.value, 16777216)>>
      BY <1>3, BytesOfInts, SMT DEF Sound, Encoding
    <2> QED BY <2>1, SMT
  <1>4. ASSUME w.kind = "string" PROVE Encoding(w) \in Seq(Byte)
    <2>1. w.value \in Seq(Byte)
      <3>1. w.value \in Seq(Byte \ {0})
        BY <1>4, EmptySeq, MsgAssumption DEF Sound
      <3> QED BY <3>1, SeqMonotonic
    <2>2. Encoding(w) = w.value \o <<0>> /\ <<0>> \in Seq(Byte)
      BY <1>4 DEF Encoding, Byte
    <2> QED BY <2>1, <2>2, ConcatProperties
  <1>5. ASSUME w.kind = "data" PROVE Encoding(w) \in Seq(Byte)
    BY <1>5, MsgAssumption DEF Sound, Encoding
  <1> QED BY <1>1, <1>2, <1>3, <1>4, <1>5, LenProperties DEF Sound

\* The C int arithmetic: what is put together again of an int's bytes.
LEMMA IntsOfBytes ==
  ASSUME NEW n \in Ints
  PROVE  /\ ByteOf(n, 1) = n % 256
         /\ ByteOf(n, 1) + 256 * ByteOf(n, 256) = n % 65536
         /\ ByteOf(n, 1) + 256 * ByteOf(n, 256) + 65536 * ByteOf(n, 65536)
               + 16777216 * Signed(ByteOf(n, 16777216)) = n
  <1>1. n \in Int /\ -2147483648 <= n /\ n <= 2147483647
    BY SMT, MsgAssumption, IntAssumption
  <1>2. ByteOf(n, 1) = n % 256
    BY <1>1, SMT DEF ByteOf
  <1>3. ByteOf(n, 1) + 256 * ByteOf(n, 256) = n % 65536
    BY <1>1, SMT DEF ByteOf
  <1>4. ByteOf(n, 1) + 256 * ByteOf(n, 256) + 65536 * ByteOf(n, 65536) = n % 16777216
    BY <1>1, SMT DEF ByteOf
  <1>5. n = 16777216 * (n \div 16777216) + (n % 16777216)
    BY <1>1, SMT
  <1>6. Signed(ByteOf(n, 16777216)) = n \div 16777216
    BY <1>1, SMT DEF ByteOf, Signed
  <1> QED BY <1>1, <1>2, <1>3, <1>4, <1>5, <1>6, SMT DEF ByteOf

\* A read that asks for a value's kind, where its bytes stand, gets the value
\* and goes on to its end.
Decodes(kind, value, n) ==
    \A w : (/\ Sound(w) /\ SameKind(Item(kind, value), w)
            /\ readcount + Len(Encoding(w)) <= cursize /\ Stands(w, readcount))
        => value = Kept(w) /\ n = Len(Encoding(w))

\* What a read may do, as far as the values go: it goes on by n bytes.
Reads(kind, value, n) ==
    /\ Read(kind, value, n)
    /\ kind \in Kinds /\ value \in Int \cup Seq(Byte)
    /\ n \in Nat /\ readcount + n <= cursize
    /\ Decodes(kind, value, n)
    /\ n = 0 => Nothing(Item(kind, value))

\* Bytes of the buffer are bytes.
LEMMA SomeBytes ==
  ASSUME MsgTypeOK, NEW n \in Nat, readcount + n <= cursize
  PROVE  /\ readcount \in Nat
         /\ \A k \in 0 .. n - 1 : Next8(k) \in Byte /\ Next8(k) = data[readcount + (k + 1)]
         /\ LET part == SubSeq(data, readcount + 1, readcount + n)
            IN  /\ part \in Seq(Byte) /\ Len(part) = n
                /\ \A i \in 1 .. n : part[i] = data[readcount + i]
  <1> DEFINE a == readcount
             part == SubSeq(data, a + 1, a + n)
  <1>1. data \in Seq(Byte) /\ Len(data) \in Nat /\ a \in 0 .. Len(data) /\ a + n <= Len(data)
    BY LenProperties DEF MsgTypeOK, cursize
  <1>2. \A k \in 0 .. n - 1 : Next8(k) \in Byte /\ Next8(k) = data[a + (k + 1)]
    <2> TAKE k \in 0 .. n - 1
    <2>1. a + k + 1 = a + (k + 1) /\ a + k + 1 \in 1 .. Len(data)
      BY <1>1
    <2> QED BY <1>1, <2>1, ElementOfSeq DEF Next8
  <1>3. \A i \in a + 1 .. a + n : data[i] \in Byte
    BY <1>1, ElementOfSeq
  <1>4. /\ part \in Seq(Byte) /\ Len(part) = IF a + 1 <= a + n THEN (a + n) - (a + 1) + 1 ELSE 0
        /\ \A i \in 1 .. (a + n) - (a + 1) + 1 : part[i] = data[a + 1 + i - 1]
    BY <1>1, <1>3, SubSeqProperties
  <1>5. ASSUME NEW i \in 1 .. n PROVE part[i] = data[a + i]
    <2>1. i \in 1 .. (a + n) - (a + 1) + 1 /\ a + 1 + i - 1 = a + i
      BY <1>1
    <2> QED BY <1>4, <2>1
  <1> HIDE DEF part
  <1>6. Len(part) = n
    BY <1>1, <1>4
  <1> QED BY <1>1, <1>2, <1>4, <1>5, <1>6 DEF part

LEMMA StringDecodes ==
  ASSUME MsgTypeOK, NEW n \in 0 .. cursize - readcount,
         \A k \in 0 .. n - 1 : Next8(k) # 0,
         readcount + n < cursize => Next8(n) = 0
  PROVE  Decodes("string", Truncated(SubSeq(data, readcount + 1, readcount + n)),
                 IF readcount + n < cursize THEN n + 1 ELSE n)
  <1> DEFINE a == readcount
             part == SubSeq(data, a + 1, a + n)
  <1>1. data \in Seq(Byte) /\ Len(data) \in Nat /\ a \in 0 .. Len(data) /\ n \in Nat
        /\ cursize = Len(data) /\ a + n <= Len(data)
    BY LenProperties DEF MsgTypeOK, cursize
  <1>2. /\ part \in Seq(Byte) /\ Len(part) = n
        /\ \A i \in 1 .. n : part[i] = data[a + i]
    BY <1>1, SomeBytes
  <1> SUFFICES ASSUME NEW w, Sound(w),
                      SameKind(Item("string", Truncated(part)), w),
                      a + Len(Encoding(w)) <= cursize, Stands(w, a)
               PROVE  /\ Truncated(part) = Kept(w)
                      /\ (IF a + n < cursize THEN n + 1 ELSE n) = Len(Encoding(w))
    BY DEF Decodes
  <1> HIDE DEF part
  <1>3. w.kind = "string" /\ w.value \in Seq(Byte \ {0}) /\ w.value \in Seq(Byte)
    <2>1. w.kind = "string"
      BY DEF SameKind, Item
    <2>2. w.value \in Seq(Byte \ {0})
      BY <2>1, EmptySeq, MsgAssumption DEF Sound
    <2> QED BY <2>1, <2>2, SeqMonotonic
  <1> DEFINE s == w.value
             l == Len(s)
  <1>4. /\ l \in Nat /\ Len(Encoding(w)) = l + 1
        /\ \A i \in 1 .. l : data[a + i] = s[i] /\ s[i] # 0
        /\ data[a + l + 1] = 0
    <2>1. <<0>> \in Seq(Byte) /\ Len(<<0>>) = 1 /\ <<0>>[1] = 0
      BY DEF Byte
    <2>2. l \in Nat /\ Encoding(w) = s \o <<0>>
      BY <1>3, LenProperties DEF Encoding
    <2>3. /\ Len(s \o <<0>>) = l + 1
          /\ \A i \in 1 .. l + 1 : (s \o <<0>>)[i] = IF i <= l THEN s[i] ELSE <<0>>[i - l]
      BY <1>3, <2>1, ConcatProperties
    <2>4. \A i \in 1 .. l + 1 : data[a + i] = IF i <= l THEN s[i] ELSE 0
      <3>1. \A i \in 1 .. l + 1 : data[a + i] = (s \o <<0>>)[i]
        BY <2>2, <2>3 DEF Stands
      <3>2. \A i \in 1 .. l + 1 : i <= l \/ i - l = 1
        BY <2>2
      <3> QED BY <2>1, <2>3, <3>1, <3>2
    <2>5. \A i \in 1 .. l : s[i] # 0
      BY <1>3, ElementOfSeq
    <2>6. data[a + l + 1] = 0
      <3>1. l + 1 \in 1 .. l + 1 /\ ~(l + 1 <= l) /\ a + (l + 1) = a + l + 1
        BY <1>1, <2>2
      <3> QED BY <2>4, <3>1
    <2>7. \A i \in 1 .. l : data[a + i] = s[i]
      BY <2>2, <2>4
    <2> QED BY <2>2, <2>3, <2>5, <2>6, <2>7
  <1> HIDE DEF l, s
  <1>5. n = l
    <2>1. CASE n > l
      <3>1. l \in 0 .. n - 1 /\ Next8(l) = data[a + l + 1]
        BY <1>1, <1>4, <2>1 DEF Next8
      <3> QED BY <1>4, <3>1
    <2>2. CASE n < l
      <3>1. a + n < cursize /\ n + 1 \in 1 .. l /\ a + (n + 1) = a + n + 1
        BY <1>1, <1>4, <2>2
      <3>2. Next8(n) = data[a + n + 1] /\ Next8(n) = 0
        BY <3>1 DEF Next8
      <3>3. data[a + (n + 1)] = s[n + 1] /\ s[n + 1] # 0
        BY <1>4, <3>1
      <3> QED BY <3>1, <3>2, <3>3
    <2> QED BY <1>1, <1>4, <2>1, <2>2
  <1>6. a + n < cursize
    BY <1>1, <1>4, <1>5
  <1>7. part = s
    BY <1>2, <1>3, <1>4, <1>5, SeqEqual DEF l, s
  <1> QED BY <1>3, <1>4, <1>5, <1>6, <1>7 DEF Kept, s

LEMMA ByteDecodes ==
  ASSUME MsgTypeOK, readcount + 1 <= cursize
  PROVE  Next8(0) \in Byte /\ Decodes("byte", Next8(0), 1)
  <1>1. Next8(0) \in Byte /\ Next8(0) = data[readcount + 1]
    <2>1. 0 \in 0 .. 1 - 1 /\ 0 + 1 = 1
      OBVIOUS
    <2> QED BY <2>1, SomeBytes
  <1>2. SUFFICES ASSUME NEW w, Sound(w), SameKind(Item("byte", Next8(0)), w),
                        Stands(w, readcount)
                 PROVE  Next8(0) = Kept(w) /\ 1 = Len(Encoding(w))
    BY <1>1 DEF Decodes
  <1>3. w.kind = "byte" /\ w.value \in Ints
    BY <1>2 DEF SameKind, Item, Sound
  <1>4. Encoding(w) = <<ByteOf(w.value, 1)>>
    BY <1>3 DEF Encoding
  <1>5. data[readcount + 1] = ByteOf(w.value, 1)
    BY <1>2, <1>4 DEF Stands
  <1>6. ByteOf(w.value, 1) = w.value % 256
    BY <1>3, IntsOfBytes
  <1> QED BY <1>1, <1>3, <1>4, <1>5, <1>6 DEF Kept

LEMMA ShortDecodes ==
  ASSUME MsgTypeOK, readcount + 2 <= cursize
  PROVE  /\ Next8(0) + 256 * Next8(1) \in Int
         /\ Decodes("short", Next8(0) + 256 * Next8(1), 2)
  <1> DEFINE value == Next8(0) + 256 * Next8(1)
  <1>1. /\ Next8(0) \in Byte /\ Next8(0) = data[readcount + 1]
        /\ Next8(1) \in Byte /\ Next8(1) = data[readcount + 2]
    <2>1. 0 \in 0 .. 2 - 1 /\ 0 + 1 = 1 /\ 1 \in 0 .. 2 - 1 /\ 1 + 1 = 2
      OBVIOUS
    <2> QED BY <2>1, SomeBytes
  <1>2. value \in Int
    <2>1. \A b, c \in Byte : b + 256 * c \in Int
      BY DEF Byte
    <2> QED BY <1>1, <2>1
  <1> HIDE DEF value
  <1>3. SUFFICES ASSUME NEW w, Sound(w), SameKind(Item("short", value), w),
                        Stands(w, readcount)
                 PROVE  value = Kept(w) /\ 2 = Len(Encoding(w))
    BY <1>2 DEF Decodes, value
  <1>4. w.kind = "short" /\ w.value \in Ints
    BY <1>3 DEF SameKind, Item, Sound
  <1>5. Encoding(w) = <<ByteOf(w.value, 1), ByteOf(w.value, 256)>>
    BY <1>4 DEF Encoding
  <1>6. data[readcount + 1] = ByteOf(w.value, 1) /\ data[readcount + 2] = ByteOf(w.value, 256)
    BY <1>3, <1>5 DEF Stands
  <1>7. ByteOf(w.value, 1) + 256 * ByteOf(w.value, 256) = w.value % 65536
    BY <1>4, IntsOfBytes
  <1>8. value = w.value % 65536
    BY <1>1, <1>6, <1>7 DEF value
  <1> QED BY <1>4, <1>5, <1>8 DEF Kept

LEMMA LongDecodes ==
  ASSUME MsgTypeOK, readcount + 4 <= cursize
  PROVE  LET value == Next8(0) + 256 * Next8(1) + 65536 * Next8(2)
                         + 16777216 * Signed(Next8(3))
         IN  value \in Int /\ Decodes("long", value, 4)
  <1> DEFINE value == Next8(0) + 256 * Next8(1) + 65536 * Next8(2)
                         + 16777216 * Signed(Next8(3))
  <1>1. /\ Next8(0) \in Byte /\ Next8(0) = data[readcount + 1]
        /\ Next8(1) \in Byte /\ Next8(1) = data[readcount + 2]
        /\ Next8(2) \in Byte /\ Next8(2) = data[readcount + 3]
        /\ Next8(3) \in Byte /\ Next8(3) = data[readcount + 4]
    <2>1. /\ 0 \in 0 .. 4 - 1 /\ 0 + 1 = 1 /\ 1 \in 0 .. 4 - 1 /\ 1 + 1 = 2
          /\ 2 \in 0 .. 4 - 1 /\ 2 + 1 = 3 /\ 3 \in 0 .. 4 - 1 /\ 3 + 1 = 4
      OBVIOUS
    <2> QED BY <2>1, SomeBytes
  <1>2. value \in Int
    <2>1. \A b \in Byte : b \in Int /\ Signed(b) \in Int
      BY DEF Byte, Signed
    <2>2. \A b, c, d, e \in Int : b + 256 * c + 65536 * d + 16777216 * e \in Int
      BY SMT
    <2>3. /\ Next8(0) \in Int /\ Next8(1) \in Int /\ Next8(2) \in Int
          /\ Signed(Next8(3)) \in Int
      BY <1>1, <2>1
    <2> QED BY <2>2, <2>3, SMT
  <1> HIDE DEF value
  <1>3. ASSUME NEW w, Sound(w), SameKind(Item("long", value), w), Stands(w, readcount)
        PROVE  value = Kept(w) /\ 4 = Len(Encoding(w))
    <2>1. w.kind = "long" /\ w.value \in Ints
      BY <1>3 DEF SameKind, Item, Sound
    <2> DEFINE b0 == ByteOf(w.value, 1)
               b1 == ByteOf(w.value, 256)
               b2 == ByteOf(w.value, 65536)
               b3 == ByteOf(w.value, 16777216)
    <2>2. Encoding(w) = <<b0, b1, b2, b3>>
      BY <2>1, SMT DEF Encoding
    <2>3. b0 + 256 * b1 + 65536 * b2 + 16777216 * Signed(b3) = w.value
      BY <2>1, IntsOfBytes, SMT
    <2> HIDE DEF b0, b1, b2, b3
    <2>4. /\ data[readcount + 1] = b0 /\ data[readcount + 2] = b1
          /\ data[readcount + 3] = b2 /\ data[readcount + 4] = b3
      BY <1>3, <2>2, SMT DEF Stands
    <2>5. value = w.value
      BY <1>1, <2>3, <2>4, SMT DEF value
    <2> QED BY <2>1, <2>2, <2>5 DEF Kept
  <1>4. Decodes("long", value, 4)
    BY <1>3 DEF Decodes
  <1> QED BY <1>2, <1>4, SMT DEF value

LEMMA DataDecodes ==
  ASSUME MsgTypeOK, NEW n \in Nat, readcount + n <= cursize
  PROVE  Decodes("data", SubSeq(data, readcount + 1, readcount + n), n)
  <1> DEFINE part == SubSeq(data, readcount + 1, readcount + n)
  <1>1. /\ part \in Seq(Byte) /\ Len(part) = n
        /\ \A i \in 1 .. n : part[i] = data[readcount + i]
    BY SomeBytes
  <1> HIDE DEF part
  <1>2. ASSUME NEW w, Sound(w), SameKind(Item("data", part), w), Stands(w, readcount)
        PROVE  part = Kept(w) /\ n = Len(Encoding(w))
    <2>1. w.kind = "data" /\ w.value \in Seq(Byte) /\ Len(w.value) = n
      BY <1>1, <1>2, MsgAssumption DEF SameKind, Item, Sound
    <2>2. Encoding(w) = w.value
      BY <2>1 DEF Encoding
    <2>3. \A i \in 1 .. n : part[i] = w.value[i]
      BY <1>1, <1>2, <2>1, <2>2 DEF Stands
    <2>4. part = w.value
      BY <1>1, <2>1, <2>3, SeqEqual
    <2> QED BY <2>1, <2>2, <2>4 DEF Kept
  <1> QED BY <1>2 DEF Decodes, part

LEMMA ReadsDecode ==
  ASSUME MsgTypeOK, MsgReads, ~NothingRead
  PROVE  \E kind, value, n : Reads(kind, value, n)
  <1>0. cursize \in Nat /\ readcount \in 0 .. cursize
    BY LenProperties DEF MsgTypeOK, cursize
  <1>1. ASSUME MSG_ReadByte PROVE \E kind, value, n : Reads(kind, value, n)
    <2>1. readcount + 1 <= cursize /\ Read("byte", Next8(0), 1)
      BY <1>0, <1>1 DEF MSG_ReadByte
    <2>2. Next8(0) \in Int /\ Decodes("byte", Next8(0), 1)
      BY <2>1, ByteDecodes DEF Byte
    <2> QED BY <2>1, <2>2 DEF Reads, Kinds
  <1>2. ASSUME MSG_ReadShort PROVE \E kind, value, n : Reads(kind, value, n)
    <2> DEFINE value == Next8(0) + 256 * Next8(1)
    <2>1. readcount + 2 <= cursize /\ Read("short", value, 2)
      BY <1>0, <1>2 DEF MSG_ReadShort
    <2>2. value \in Int /\ Decodes("short", value, 2)
      BY <2>1, ShortDecodes
    <2> HIDE DEF value
    <2> QED BY <2>1, <2>2 DEF Reads, Kinds
  <1>3. ASSUME MSG_ReadLong PROVE \E kind, value, n : Reads(kind, value, n)
    <2> DEFINE value == Next8(0) + 256 * Next8(1) + 65536 * Next8(2)
                            + 16777216 * Signed(Next8(3))
    <2>1. readcount + 4 <= cursize /\ Read("long", value, 4)
      BY <1>0, <1>3, SMT DEF MSG_ReadLong
    <2>2. value \in Int /\ Decodes("long", value, 4)
      BY <2>1, LongDecodes, SMT
    <2> HIDE DEF value
    <2> QED BY <2>1, <2>2 DEF Reads, Kinds
  <1>4. ASSUME MSG_ReadString PROVE \E kind, value, n : Reads(kind, value, n)
    <2>1. readcount # cursize
      BY <1>4 DEF MSG_ReadString
    <2>2. PICK n \in 0 .. cursize - readcount :
             /\ \A k \in 0 .. n - 1 : Next8(k) # 0
             /\ readcount + n < cursize => Next8(n) = 0
             /\ Read("string", Truncated(SubSeq(data, readcount + 1, readcount + n)),
                     IF readcount + n < cursize THEN n + 1 ELSE n)
      BY <1>4, <2>1 DEF MSG_ReadString
    <2> DEFINE part  == SubSeq(data, readcount + 1, readcount + n)
               value == Truncated(part)
               m     == IF readcount + n < cursize THEN n + 1 ELSE n
    <2>3. m \in Nat /\ m # 0 /\ readcount + m <= cursize
      BY <1>0, <2>1
    <2>4. n \in Nat /\ readcount + n <= cursize
      BY <1>0
    <2>5. part \in Seq(Byte)
      BY <2>4, SomeBytes
    <2>6. Decodes("string", value, m)
      BY <2>2, StringDecodes
    <2> HIDE DEF part, m
    <2>7. value \in Seq(Byte)
      <3>1. CASE Len(part) < MAX_STRING_CHARS
        BY <2>5, <3>1 DEF Truncated
      <3>2. CASE ~(Len(part) < MAX_STRING_CHARS)
        <4>1. MAX_STRING_CHARS - 1 \in Nat /\ Len(part) \in Nat
              /\ \A i \in 1 .. MAX_STRING_CHARS - 1 : i \in 1 .. Len(part)
          BY <2>5, <3>2, MsgAssumption, LenProperties
        <4>2. \A i \in 1 .. MAX_STRING_CHARS - 1 : part[i] \in Byte
          BY <2>5, <4>1, ElementOfSeq
        <4>3. SubSeq(part, 1, MAX_STRING_CHARS - 1) \in Seq(Byte)
          BY <4>1, <4>2, SubSeqProperties
        <4> QED BY <3>2, <4>3 DEF Truncated
      <3> QED BY <3>1, <3>2
    <2>8. Read("string", value, m)
      BY <2>2 DEF part, m
    <2> HIDE DEF value
    <2> QED BY <2>3, <2>6, <2>7, <2>8 DEF Reads, Kinds
  <1>5. ASSUME NEW d \in Blocks, MSG_ReadData(Len(d))
        PROVE  \E kind, value, n : Reads(kind, value, n)
    <2> DEFINE n     == Len(d)
               value == SubSeq(data, readcount + 1, readcount + n)
    <2>1. n \in Nat
      BY MsgAssumption, LenProperties
    <2>2. readcount + n <= cursize /\ Read("data", value, n)
      BY <1>0, <1>5, <2>1 DEF MSG_ReadData
    <2>3. value \in Seq(Byte) /\ Len(value) = n /\ Decodes("data", value, n)
      BY <2>1, <2>2, SomeBytes, DataDecodes
    <2> HIDE DEF n, value
    <2>4. n = 0 => value = << >>
      BY <2>3, EmptySeq
    <2> QED BY <2>1, <2>2, <2>3, <2>4 DEF Reads, Kinds, Nothing, Item
  <1> QED BY <1>1, <1>2, <1>3, <1>4, <1>5 DEF MsgReads

LEMMA ReadStep ==
  ASSUME MsgIInv, ReadInv, NEW kind, NEW value, NEW n, Reads(kind, value, n)
  PROVE  ReadInv'
  <1> DEFINE item == Item(kind, value)
             g == Len(got)
             w == Len(written)
  <1>0. PICK ends : Laid(ends) /\ Where(ends)
    BY DEF ReadInv
  <1>1. /\ readcount' = readcount + n /\ got' = Append(got, item)
        /\ data' = data /\ written' = written
        /\ n \in Nat /\ readcount + n <= cursize /\ Decodes(kind, value, n)
        /\ n = 0 => Nothing(item)
    BY DEF Reads, Read
  <1>2. /\ got \in Seq(Replies) /\ written \in Seq(Items) /\ g \in Nat /\ w \in Nat
        /\ cursize \in Nat /\ readcount \in 0 .. cursize
    BY LenProperties DEF ReadInv, MsgIInv, MsgTypeOK, cursize
  <1>3. item \in Replies /\ item.kind = kind /\ item.value = value
    BY DEF Reads, Item, Replies
  <1> HIDE DEF item
  <1>4. /\ got' \in Seq(Replies) /\ Len(got') = g + 1 /\ got'[g + 1] = item
        /\ \A j \in 1 .. g : got'[j] = got[j]
    BY <1>1, <1>2, <1>3, AppendProperties
  <1>5. DOMAIN written = 1 .. w /\ DOMAIN got = 1 .. g /\ DOMAIN got' = 1 .. g + 1
    BY <1>2, <1>4, LenProperties
  <1> HIDE DEF g, w
  <1>6. \A j \in 1 .. w : /\ Sound(written[j])
                          /\ ends[j] = ends[j - 1] + Len(Encoding(written[j]))
                          /\ Stands(written[j], ends[j - 1])
    BY <1>0 DEF Laid, w
  <1>7. ends \in [0 .. w -> 0 .. cursize] /\ ends[w] = cursize
    BY <1>0 DEF Laid, w
  <1>8. Laid(ends)'
    BY <1>0, <1>1 DEF Laid, Stands, cursize
  <1>9. ASSUME NEW k \in 0 .. g, \A j \in 1 .. k : j \in DOMAIN written' /\ SameKind(got'[j], written'[j])
        PROVE  Agree(k)
    <2> SUFFICES ASSUME NEW j \in 1 .. k
                 PROVE  j \in DOMAIN written /\ SameKind(got[j], written[j])
      BY DEF Agree
    <2>1. j \in 1 .. g
      BY <1>2
    <2> QED BY <1>1, <1>4, <1>9, <2>1
  <1>10. CASE g < w
    <2>1. ASSUME \A j \in 1 .. g + 1 : j \in DOMAIN written' /\ SameKind(got'[j], written'[j])
          PROVE  readcount' = ends[g + 1] /\ value = Kept(written[g + 1])
      <3>1. Agree(g)
        BY <1>2, <1>9, <2>1
      <3>2. readcount = ends[g]
        BY <1>0, <1>10, <3>1, <1>2 DEF Where, g, w
      <3>3. g + 1 \in 1 .. w /\ (g + 1) - 1 = g
        BY <1>2, <1>10
      <3>4. /\ Sound(written[g + 1]) /\ Stands(written[g + 1], readcount)
            /\ ends[g + 1] = readcount + Len(Encoding(written[g + 1]))
        BY <1>6, <3>2, <3>3
      <3>5. ends[g + 1] <= cursize
        BY <1>2, <1>7, <3>3
      <3>6. SameKind(item, written[g + 1])
        BY <1>1, <1>2, <1>4, <2>1
      <3>7. value = Kept(written[g + 1]) /\ n = Len(Encoding(written[g + 1]))
        BY <1>1, <3>4, <3>5, <3>6 DEF Decodes, item
      <3> QED BY <1>1, <3>4, <3>7
    <2>2. Where(ends)'
      <3>1. Len(got') <= Len(written')
        BY <1>1, <1>2, <1>4, <1>10 DEF w
      <3> QED BY <1>4, <2>1, <3>1 DEF Where, Agree
    <2>3. ReadBack'
      <3> SUFFICES ASSUME NEW k \in 1 .. g + 1,
                          \A j \in 1 .. k : j \in DOMAIN written' /\ SameKind(got'[j], written'[j])
                   PROVE  got'[k].value = Kept(written'[k])
        BY <1>5 DEF ReadBack
      <3>1. CASE k = g + 1
        BY <1>1, <1>3, <1>4, <2>1, <3>1
      <3>2. CASE k \in 1 .. g
        BY <1>1, <1>2, <1>4, <1>5, <1>9, <3>2 DEF ReadInv, ReadBack, Agree
      <3> QED BY <1>2, <3>1, <3>2
    <2> QED BY <1>4, <1>8, <2>2, <2>3 DEF ReadInv
  <1>11. CASE g >= w
    <2>1. ASSUME \A j \in 1 .. w : j \in DOMAIN written' /\ SameKind(got'[j], written'[j])
          PROVE  /\ readcount' = cursize
                 /\ \A j \in w + 1 .. g + 1 : Nothing(got'[j])
      <3>1. Agree(w)
        BY <1>2, <1>9, <1>11, <2>1
      <3>2. readcount = cursize /\ \A j \in w + 1 .. g : Nothing(got[j])
        <4>1. CASE g = w
          BY <1>0, <1>2, <1>7, <3>1, <4>1 DEF Where, g, w
        <4>2. CASE g > w
          BY <1>0, <1>2, <3>1, <4>2 DEF Where, g, w
        <4> QED BY <1>2, <1>11, <4>1, <4>2
      <3>3. n = 0
        BY <1>1, <1>2, <3>2
      <3>4. Nothing(item) /\ readcount' = cursize
        BY <1>1, <1>2, <3>2, <3>3
      <3>5. ASSUME NEW j \in w + 1 .. g + 1 PROVE Nothing(got'[j])
        <4>1. CASE j = g + 1
          BY <1>4, <3>4, <4>1
        <4>2. CASE j \in w + 1 .. g
          <5>1. j \in 1 .. g
            BY <1>2, <4>2
          <5> QED BY <1>4, <3>2, <4>2, <5>1
        <4> QED BY <1>2, <4>1, <4>2
      <3> QED BY <3>4, <3>5
    <2>2. Where(ends)'
      <3>1. ~(Len(got') <= Len(written')) /\ Len(got') = g + 1 /\ Len(written') = w
        BY <1>1, <1>2, <1>4, <1>11 DEF w
      <3>2. cursize' = cursize
        BY <1>1 DEF cursize
      <3> QED BY <2>1, <3>1, <3>2 DEF Where, Agree
    <2>3. ReadBack'
      <3> SUFFICES ASSUME NEW k \in 1 .. g + 1,
                          \A j \in 1 .. k : j \in DOMAIN written' /\ SameKind(got'[j], written'[j])
                   PROVE  got'[k].value = Kept(written'[k])
        BY <1>5 DEF ReadBack
      <3>1. k \in 1 .. w
        BY <1>1, <1>5
      <3>2. k \in 1 .. g
        BY <1>2, <1>11, <3>1
      <3> QED BY <1>1, <1>2, <1>4, <1>5, <1>9, <3>2 DEF ReadInv, ReadBack, Agree
    <2> QED BY <1>4, <1>8, <2>2, <2>3 DEF ReadInv
  <1> QED BY <1>2, <1>10, <1>11

LEMMA WriteStep ==
  ASSUME MsgIInv, ReadInv, NEW kind, NEW value, NEW bytes, NEW needed,
         Sound(Item(kind, value)), bytes = Encoding(Item(kind, value)),
         Item(kind, value) \in Items,
         Write(kind, value, bytes, needed)
  PROVE  ReadInv'
  <1> DEFINE item == Item(kind, value)
             g == Len(got)
             w == Len(written)
             c == Len(data)
  <1>0. PICK ends : Laid(ends) /\ Where(ends)
    BY DEF ReadInv
  <1>1. readcount' = readcount /\ got' = got
    BY DEF Write
  <1>2. /\ got \in Seq(Replies) /\ written \in Seq(Items) /\ data \in Seq(Byte)
        /\ g \in Nat /\ w \in Nat /\ c \in Nat
        /\ DOMAIN written = 1 .. w /\ DOMAIN got = 1 .. g
    BY LenProperties DEF ReadInv, MsgIInv, MsgTypeOK
  <1>3. CASE data' = data /\ written' = written
    <2>1. Laid(ends)'
      BY <1>0, <1>3 DEF Laid, Stands, cursize
    <2>2. Where(ends)'
      BY <1>0, <1>1, <1>3 DEF Where, Agree, cursize
    <2> QED BY <1>1, <1>3, <2>1, <2>2 DEF ReadInv, ReadBack
  <1>4. CASE data' = data \o bytes /\ written' = Append(written, item)
    <2>1. /\ bytes \in Seq(Byte) /\ Len(bytes) \in Nat /\ bytes = Encoding(item)
          /\ Sound(item) /\ item \in Items
      BY EncodingIsBytes
    <2> HIDE DEF item
    <2>2. /\ data' \in Seq(Byte) /\ Len(data') = c + Len(bytes)
          /\ \A i \in 1 .. c : data'[i] = data[i]
          /\ \A i \in 1 .. Len(bytes) : data'[c + i] = bytes[i]
      <3>1. /\ Len(data') = c + Len(bytes) /\ data' \in Seq(Byte)
            /\ \A i \in 1 .. c + Len(bytes) : data'[i] = IF i <= c THEN data[i] ELSE bytes[i - c]
        BY <1>2, <1>4, <2>1, ConcatProperties
      <3>2. \A i \in 1 .. c : data'[i] = data[i]
        BY <1>2, <2>1, <3>1
      <3>3. ASSUME NEW i \in 1 .. Len(bytes) PROVE data'[c + i] = bytes[i]
        <4>1. c + i \in 1 .. c + Len(bytes) /\ ~(c + i <= c) /\ (c + i) - c = i
          BY <1>2, <2>1
        <4> QED BY <3>1, <4>1
      <3> QED BY <3>1, <3>2, <3>3
    <2>3. /\ written' \in Seq(Items) /\ Len(written') = w + 1 /\ written'[w + 1] = item
          /\ \A j \in 1 .. w : written'[j] = written[j]
          /\ DOMAIN written' = 1 .. w + 1
      BY <1>2, <1>4, <2>1, AppendProperties, LenProperties
    <2> HIDE DEF g, w, c
    <2>0. PICK more : more = [k \in 0 .. w + 1 |-> IF k <= w THEN ends[k] ELSE c + Len(bytes)]
      OBVIOUS
    <2>4. /\ ends \in [0 .. w -> 0 .. c] /\ ends[0] = 0 /\ ends[w] = c
          /\ \A j \in 1 .. w : /\ Sound(written[j])
                               /\ ends[j] = ends[j - 1] + Len(Encoding(written[j]))
                               /\ Stands(written[j], ends[j - 1])
      BY <1>0 DEF Laid, w, c, cursize
    <2>5. /\ more[w + 1] = c + Len(bytes)
          /\ \A k \in 0 .. w : more[k] = ends[k] /\ more[k] \in 0 .. c
      BY <1>2, <2>0, <2>4
    <2>6. more \in [0 .. w + 1 -> 0 .. c + Len(bytes)]
      BY <1>2, <2>0, <2>1, <2>4
    <2>7. Laid(more)'
      <3>1. ASSUME NEW k \in 1 .. w + 1
            PROVE  /\ Sound(written'[k])
                   /\ more[k] = more[k - 1] + Len(Encoding(written'[k]))
                   /\ \A i \in 1 .. Len(Encoding(written'[k])) :
                         data'[more[k - 1] + i] = Encoding(written'[k])[i]
        <4>1. CASE k = w + 1
          <5>1. k - 1 = w /\ w \in 0 .. w
            BY <1>2, <4>1
          <5>2. more[k - 1] = c
            BY <2>4, <2>5, <5>1
          <5> QED BY <2>1, <2>2, <2>3, <2>5, <4>1, <5>2
        <4>2. CASE k \in 1 .. w
          <5>1. k - 1 \in 0 .. w /\ k \in 0 .. w
            BY <1>2, <4>2
          <5> DEFINE e == Encoding(written[k])
                     a == ends[k - 1]
          <5>2. /\ more[k] = ends[k] /\ more[k - 1] = a /\ written'[k] = written[k]
                /\ Sound(written[k]) /\ ends[k] = a + Len(e) /\ Stands(written[k], a)
            BY <2>3, <2>4, <2>5, <4>2, <5>1
          <5>3. Len(e) \in Nat /\ a \in Nat /\ a + Len(e) <= c
            BY <2>4, <4>2, <5>1, <5>2, EncodingIsBytes
          <5>4. \A i \in 1 .. Len(e) : data[a + i] = e[i]
            BY <5>2 DEF Stands
          <5> HIDE DEF e, a
          <5>5. \A i \in 1 .. Len(e) : a + i \in 1 .. c
            BY <1>2, <5>3
          <5>6. \A i \in 1 .. Len(e) : data'[a + i] = e[i]
            BY <2>2, <5>4, <5>5
          <5> QED BY <5>2, <5>6 DEF e
        <4> QED BY <1>2, <4>1, <4>2
      <3>2. more[0] = 0
        BY <1>2, <2>4, <2>5
      <3> QED BY <2>2, <2>3, <2>5, <2>6, <3>1, <3>2 DEF Laid, Stands, cursize
    <2>8. ASSUME NEW k \in 0 .. w, \A j \in 1 .. k : j \in DOMAIN written' /\ SameKind(got[j], written'[j])
          PROVE  Agree(k)
      <3> SUFFICES ASSUME NEW j \in 1 .. k
                   PROVE  j \in DOMAIN written /\ SameKind(got[j], written[j])
        BY DEF Agree
      <3>1. j \in 1 .. w
        BY <1>2
      <3> QED BY <1>2, <2>3, <2>8, <3>1
    \* A reader that was ahead has asked for what is written now only if that is
    \* a block of no bytes.
    <2>9. ASSUME g > w, \A j \in 1 .. w + 1 : j \in DOMAIN written' /\ SameKind(got[j], written'[j])
          PROVE  /\ readcount = c /\ Len(bytes) = 0 /\ got[w + 1].value = Kept(item)
                 /\ \A j \in w + 1 .. g : Nothing(got[j])
      <3>1. Agree(w)
        BY <1>2, <2>8, <2>9
      <3>2. readcount = c /\ \A j \in w + 1 .. g : Nothing(got[j])
        BY <1>0, <1>2, <2>9, <3>1 DEF Where, g, w, c, cursize
      <3>3. Nothing(got[w + 1]) /\ SameKind(got[w + 1], item)
        BY <1>2, <2>3, <2>9, <3>2
      <3>4. item.kind = "data" /\ got[w + 1].value = << >> /\ Len(item.value) = 0
        BY <2>1, <3>3, EmptySeq DEF Nothing, SameKind, Sound
      <3>5. item.value \in Seq(Byte) /\ Encoding(item) = item.value
        BY <2>1, <3>4, MsgAssumption DEF Sound, Encoding
      <3>6. item.value = << >>
        BY <3>4, <3>5, EmptySeq
      <3>7. Kept(item) = item.value
        BY <3>4 DEF Kept
      <3> QED BY <2>1, <3>2, <3>4, <3>5, <3>6, <3>7
    <2>10. Where(more)'
      <3>1. CASE g <= w
        <4>1. ASSUME \A j \in 1 .. g : j \in DOMAIN written' /\ SameKind(got[j], written'[j])
              PROVE  readcount = more[g]
          <5>1. Agree(g)
            BY <1>2, <2>8, <3>1, <4>1
          <5>2. readcount = ends[g]
            BY <1>0, <3>1, <5>1 DEF Where, g, w
          <5> QED BY <1>2, <2>5, <3>1, <5>2
        <4>2. Len(got') = g /\ Len(got') <= Len(written')
          BY <1>1, <1>2, <2>3, <3>1 DEF g
        <4> QED BY <1>1, <4>1, <4>2 DEF Where, Agree
      <3>2. CASE g = w + 1
        <4>1. Len(got') = g /\ Len(got') <= Len(written')
          BY <1>1, <1>2, <2>3, <3>2 DEF g
        <4>2. ASSUME \A j \in 1 .. g : j \in DOMAIN written' /\ SameKind(got[j], written'[j])
              PROVE  readcount = more[g]
          <5>1. /\ g > w
                /\ \A j \in 1 .. w + 1 : j \in DOMAIN written' /\ SameKind(got[j], written'[j])
            BY <1>2, <3>2, <4>2
          <5>2. readcount = c /\ Len(bytes) = 0
            BY <2>9, <5>1
          <5> QED BY <1>2, <2>5, <3>2, <5>2
        <4> QED BY <1>1, <4>1, <4>2 DEF Where, Agree
      <3>3. CASE g > w + 1
        <4>1. Len(got') = g /\ ~(Len(got') <= Len(written')) /\ Len(written') = w + 1
          BY <1>1, <1>2, <2>3, <3>3 DEF g
        <4>2. ASSUME \A j \in 1 .. w + 1 : j \in DOMAIN written' /\ SameKind(got[j], written'[j])
              PROVE  readcount = Len(data') /\ \A j \in w + 2 .. g : Nothing(got[j])
          BY <1>2, <2>2, <2>9, <3>3, <4>2
        <4>3. (w + 1) + 1 = w + 2
          BY <1>2
        <4> QED BY <1>1, <4>1, <4>2, <4>3 DEF Where, Agree, cursize
      <3> QED BY <1>2, <3>1, <3>2, <3>3
    <2>11. ReadBack'
      <3> SUFFICES ASSUME NEW k \in 1 .. g,
                          \A j \in 1 .. k : j \in DOMAIN written' /\ SameKind(got[j], written'[j])
                   PROVE  got[k].value = Kept(written'[k])
        BY <1>1, <1>2 DEF ReadBack
      <3>1. CASE k \in 1 .. w
        BY <1>2, <2>3, <2>8, <3>1 DEF ReadInv, ReadBack, Agree
      <3>2. CASE k = w + 1
        BY <1>2, <2>3, <2>9, <3>2
      <3>3. CASE k > w + 1
        <4>1. k \in DOMAIN written'
          OBVIOUS
        <4> QED BY <1>2, <2>3, <3>3, <4>1
      <3> QED BY <1>2, <3>1, <3>2, <3>3
    <2> QED BY <1>1, <1>2, <2>7, <2>10, <2>11 DEF ReadInv
  <1> QED BY <1>3, <1>4 DEF Write

LEMMA WritesKeepReadInv ==
  ASSUME MsgIInv, ReadInv, MsgWrites
  PROVE  ReadInv'
  <1>1. ASSUME NEW kind \in Kinds, NEW value \in Ints \cup Strings \cup Blocks \cup {<< >>},
               Sound(Item(kind, value)),
               NEW needed, Write(kind, value, Encoding(Item(kind, value)), needed)
        PROVE  ReadInv'
    <2>1. Item(kind, value) \in Items
      BY DEF Item, Items
    <2> QED BY <1>1, <2>1, WriteStep
  <1>2. ASSUME NEW n \in Ints, MSG_WriteByte(n) PROVE ReadInv'
    <2>1. /\ Sound(Item("byte", n))
          /\ Encoding(Item("byte", n)) = <<ByteOf(n, 1)>>
      BY DEF Sound, Encoding, Item
    <2> QED BY <1>1, <1>2, <2>1 DEF MSG_WriteByte, Kinds
  <1>3. ASSUME NEW n \in Ints, MSG_WriteShort(n) PROVE ReadInv'
    <2>1. /\ Sound(Item("short", n))
          /\ Encoding(Item("short", n)) = <<ByteOf(n, 1), ByteOf(n, 256)>>
      BY DEF Sound, Encoding, Item
    <2> QED BY <1>1, <1>3, <2>1 DEF MSG_WriteShort, Kinds
  <1>4. ASSUME NEW n \in Ints, MSG_WriteLong(n) PROVE ReadInv'
    <2> DEFINE b == <<ByteOf(n, 1), ByteOf(n, 256), ByteOf(n, 65536), ByteOf(n, 16777216)>>
    <2>1. Sound(Item("long", n))
      BY DEF Sound, Item
    <2>2. Encoding(Item("long", n)) = b
      BY SMT DEF Encoding, Item
    <2>3. Write("long", n, b, 1)
      BY <1>4, SMT DEF MSG_WriteLong
    <2> HIDE DEF b
    <2> QED BY <1>1, <2>1, <2>2, <2>3 DEF Kinds
  <1>5. ASSUME NEW s \in Strings, MSG_WriteString(s) PROVE ReadInv'
    <2>1. /\ Sound(Item("string", s))
          /\ Encoding(Item("string", s)) = s \o <<0>>
      BY DEF Sound, Encoding, Item
    <2> QED BY <1>1, <1>5, <2>1 DEF MSG_WriteString, Kinds
  <1>6. CASE MSG_WriteNull
    <2>1. /\ Sound(Item("string", << >>))
          /\ Encoding(Item("string", << >>)) = << >> \o <<0>>
      BY DEF Sound, Encoding, Item
    <2>2. << >> \o <<0>> = <<0>>
      BY ConcatEmptySeq
    <2> QED BY <1>1, <1>6, <2>1, <2>2 DEF MSG_WriteNull, Kinds
  <1>7. ASSUME NEW d \in Blocks, MSG_WriteData(d) PROVE ReadInv'
    <2>1. Sound(Item("data", d)) /\ Encoding(Item("data", d)) = d
      BY DEF Sound, Encoding, Item
    <2> QED BY <1>1, <1>7, <2>1 DEF MSG_WriteData, Kinds
  <1> QED BY <1>2, <1>3, <1>4, <1>5, <1>6, <1>7 DEF MsgWrites

\* An empty buffer, of which nothing has been read.
Empty == data = << >> /\ readcount = 0 /\ written = << >> /\ got = << >>

LEMMA EmptyReadInv == Empty => ReadInv
  <1> SUFFICES ASSUME Empty PROVE ReadInv
    OBVIOUS
  <1> USE DEF Empty
  <1>1. Len(data) = 0 /\ Len(written) = 0 /\ Len(got) = 0 /\ got \in Seq(Replies)
    BY EmptySeq
  <1>2. PICK ends : ends = [k \in {0} |-> 0]
    OBVIOUS
  <1>3. 0 .. 0 = {0} /\ 1 .. 0 = {}
    OBVIOUS
  <1>4. Laid(ends)
    BY <1>1, <1>2, <1>3 DEF Laid, cursize
  <1>5. Where(ends)
    BY <1>1, <1>2 DEF Where
  <1>6. ReadBack
    BY <1>1, <1>3, LenProperties DEF ReadBack
  <1> QED BY <1>1, <1>4, <1>5, <1>6 DEF ReadInv

\* What was written is what is read, in order, whatever sizes the buffers have,
\* whichever writes are refused, however reads and writes alternate, and however
\* often a value is asked for too early.
THEOREM WhatIsWrittenIsRead == MsgSpec => []ReadBack
  <1>1. MsgInit => ReadInv
    BY EmptyReadInv DEF MsgInit, Empty
  <1>2. MsgIInv /\ ReadInv /\ [MsgNext]_msgVars => ReadInv'
    <2> SUFFICES ASSUME MsgIInv, ReadInv, [MsgNext]_msgVars PROVE ReadInv'
      OBVIOUS
    <2>1. CASE MSG_Init \/ MSG_Clear
      <3>1. Empty'
        BY <2>1 DEF MSG_Init, MSG_Clear, Fresh, Empty
      <3> QED BY <3>1, EmptyReadInv, PTL
    <2>2. CASE MsgWrites
      BY <2>2, WritesKeepReadInv
    <2>3. CASE MsgReads /\ ~NothingRead
      <3>1. PICK kind, value, n : Reads(kind, value, n)
        BY <2>3, ReadsDecode DEF MsgIInv
      <3> QED BY <3>1, ReadStep
    <2>4. CASE UNCHANGED msgVars
      BY <2>4 DEF msgVars, ReadInv, Laid, Stands, Where, Agree, ReadBack, cursize
    <2> QED BY <2>1, <2>2, <2>3, <2>4 DEF MsgNext, NothingRead
  <1>3. ReadInv => ReadBack
    BY DEF ReadInv
  <1> QED BY <1>1, <1>2, <1>3, MsgInvariant, PTL DEF MsgSpec
=============================================================================
