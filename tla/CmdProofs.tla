-------------------------------- MODULE CmdProofs --------------------------------
(***************************************************************************)
(* Proofs about CmdTable, for every set of names and of functions, every   *)
(* number of buckets and every hash function, and about CmdBuffer, for all *)
(* words and limits: the tokenizer, the buffer's lines, and what they run. *)
(***************************************************************************)
EXTENDS CmdBuffer, SequenceTheorems, WellFoundedInduction, TLAPS

-----------------------------------------------------------------------------
(* Chains. *)

LEMMA SeqPrepended ==
  ASSUME NEW S, NEW s \in Seq(S), NEW e \in S
  PROVE  /\ <<e>> \o s \in Seq(S)
         /\ Len(<<e>> \o s) = Len(s) + 1
         /\ (<<e>> \o s)[1] = e
         /\ \A k \in 1 .. Len(s) : (<<e>> \o s)[k + 1] = s[k]
  <1>1. <<e>> \in Seq(S) /\ Len(<<e>>) = 1 /\ <<e>>[1] = e
    OBVIOUS
  <1>2. /\ <<e>> \o s \in Seq(S)
        /\ Len(<<e>> \o s) = 1 + Len(s)
        /\ \A k \in 1 .. 1 + Len(s) :
              (<<e>> \o s)[k] = IF k <= 1 THEN <<e>>[k] ELSE s[k - 1]
    BY <1>1, ConcatProperties
  <1>3. Len(s) \in Nat
    BY LenProperties
  <1> QED BY <1>1, <1>2, <1>3

LEMMA Unlinked ==
  ASSUME NEW s \in Seq(Cmd), NEW k \in 1 .. Len(s)
  PROVE  /\ Without(s, k) \in Seq(Cmd)
         /\ Len(Without(s, k)) = Len(s) - 1
         /\ \A j \in 1 .. Len(s) - 1 : Without(s, k)[j] = IF j < k THEN s[j] ELSE s[j + 1]
  <1> DEFINE u == SubSeq(s, 1, k - 1)
             v == SubSeq(s, k + 1, Len(s))
  <1>0. Len(s) \in Nat /\ \A j \in 1 .. Len(s) : s[j] \in Cmd
    BY LenProperties, ElementOfSeq
  <1>1. /\ u \in Seq(Cmd) /\ Len(u) = k - 1
        /\ \A j \in 1 .. k - 1 : u[j] = s[j]
    BY <1>0, SubSeqProperties
  <1>2. /\ v \in Seq(Cmd) /\ Len(v) = Len(s) - k
        /\ \A j \in 1 .. Len(s) - k : v[j] = s[k + j]
    BY <1>0, SubSeqProperties
  <1> HIDE DEF u, v
  <1>3. /\ u \o v \in Seq(Cmd)
        /\ Len(u \o v) = Len(u) + Len(v)
        /\ \A j \in 1 .. Len(u) + Len(v) :
              (u \o v)[j] = IF j <= Len(u) THEN u[j] ELSE v[j - Len(u)]
    BY <1>1, <1>2, ConcatProperties
  <1>4. \A j \in 1 .. Len(s) - 1 : (u \o v)[j] = IF j < k THEN s[j] ELSE s[j + 1]
    <2> TAKE j \in 1 .. Len(s) - 1
    <2>1. CASE j < k
      BY <1>0, <1>1, <1>2, <1>3, <2>1
    <2>2. CASE ~(j < k)
      <3>1. j - (k - 1) \in 1 .. Len(s) - k /\ k + (j - (k - 1)) = j + 1
        BY <1>0, <2>2
      <3>2. v[j - (k - 1)] = s[j + 1]
        BY <1>2, <3>1
      <3>3. j \in 1 .. Len(u) + Len(v) /\ ~(j <= Len(u)) /\ j - Len(u) = j - (k - 1)
        BY <1>0, <1>1, <1>2, <2>2
      <3>4. (u \o v)[j] = v[j - (k - 1)]
        BY <1>3, <3>3
      <3> QED BY <2>2, <3>2, <3>4
    <2> QED BY <2>1, <2>2
  <1>5. Len(u \o v) = Len(s) - 1
    BY <1>0, <1>1, <1>2, <1>3
  <1>6. Without(s, k) = u \o v
    BY DEF Without, u, v
  <1> QED BY <1>3, <1>4, <1>5, <1>6

LEMMA BucketInRange == \A name \in Names : Bucket(name) \in Buckets
  BY TableAssumption DEF Bucket, Buckets

-----------------------------------------------------------------------------
(* The inductive invariant: a name is in its chain once, with the function it *)
(* was registered with, or not at all.                                        *)

In(chain, name)     == \E k \in 1 .. Len(chain) : chain[k].name = name
Single(chain)       == \A j, k \in 1 .. Len(chain) : chain[j].name = chain[k].name => j = k
Holds(chain, name, func) ==
    IF func = NULL THEN ~In(chain, name)
    ELSE \E k \in 1 .. Len(chain) : chain[k].name = name /\ chain[k].func = func

TableIInv ==
    /\ TableTypeOK
    /\ \A b \in Buckets : Single(cmd_buckets[b])
    /\ \A name \in Names : Holds(cmd_buckets[Bucket(name)], name, registered[name])

\* A look-up finds what the chain holds.
LEMMA FindFinds ==
  ASSUME NEW name \in Names, NEW func \in Funcs \cup {NULL},
         cmd_buckets[Bucket(name)] \in Seq(Cmd), Single(cmd_buckets[Bucket(name)]),
         Holds(cmd_buckets[Bucket(name)], name, func)
  PROVE  Cmd_FindCommand(name) = func
  <1> DEFINE chain == cmd_buckets[Bucket(name)]
             hits  == Hits(chain, name)
  <1>0. chain \in Seq(Cmd) /\ DOMAIN chain = 1 .. Len(chain) /\ Len(chain) \in Nat
    BY LenProperties
  <1>1. CASE func = NULL
    <2>1. hits = {}
      BY <1>0, <1>1 DEF Hits, Holds, In
    <2> QED BY <1>1, <2>1 DEF Cmd_FindCommand
  <1>2. CASE func # NULL
    <2>1. PICK k \in 1 .. Len(chain) : chain[k].name = name /\ chain[k].func = func
      BY <1>2 DEF Holds
    <2>2. hits = {k}
      BY <1>0, <2>1 DEF Hits, Single
    <2>3. (CHOOSE j \in hits : IsFirst(j, hits)) = k
      BY <1>0, <2>2 DEF IsFirst
    <2> QED BY <2>1, <2>2, <2>3 DEF Cmd_FindCommand
  <1> QED BY <1>1, <1>2

LEMMA InvIsMap == TableIInv => TableIsMap
  BY FindFinds, BucketInRange DEF TableIInv, TableTypeOK, TableIsMap

-----------------------------------------------------------------------------
LEMMA EmptyTable ==
  /\ TableInit => TableIInv
  /\ Cleared => TableIInv'
  <1>1. \A name \in Names : Holds(<< >>, name, NULL)
    BY DEF Holds, In
  <1>2. Single(<< >>) /\ << >> \in Seq(Cmd)
    BY DEF Single
  <1>3. ASSUME TableInit PROVE TableIInv
    <2>1. TableTypeOK
      BY <1>2, <1>3 DEF TableInit, TableTypeOK
    <2> QED BY <1>1, <1>2, <1>3, <2>1, BucketInRange DEF TableInit, TableIInv
  <1>4. ASSUME Cleared PROVE TableIInv'
    <2>1. TableTypeOK'
      BY <1>2, <1>4 DEF Cleared, TableTypeOK
    <2> QED BY <1>1, <1>2, <1>4, <2>1, BucketInRange DEF Cleared, TableIInv
  <1> QED BY <1>3, <1>4

LEMMA AddKeepsInv ==
  ASSUME TableIInv, UNCHANGED dangling, NEW name \in Names, NEW func \in Funcs,
         Cmd_AddCommand(name, func)
  PROVE  TableIInv'
  <1> DEFINE b == Bucket(name)
             e == [name |-> name, func |-> func]
             s == cmd_buckets[b]
  <1>0. /\ b \in Buckets /\ s \in Seq(Cmd) /\ e \in Cmd /\ Len(s) \in Nat /\ Single(s)
        /\ registered[name] \in Funcs \cup {NULL} /\ func # NULL
    BY BucketInRange, LenProperties, TableAssumption DEF TableIInv, TableTypeOK, Cmd
  <1>1. CASE Cmd_FindCommand(name) # NULL
    BY <1>1 DEF Cmd_AddCommand, TableIInv, TableTypeOK
  <1>2. CASE Cmd_FindCommand(name) = NULL
    <2>1. registered[name] = NULL /\ ~In(s, name)
      BY <1>0, <1>2, FindFinds DEF TableIInv, Holds
    <2> DEFINE t == <<e>> \o s
    <2>2. /\ cmd_buckets' = [cmd_buckets EXCEPT ![b] = t]
          /\ registered' = [registered EXCEPT ![name] = func]
      BY <1>2 DEF Cmd_AddCommand
    <2>3. /\ t \in Seq(Cmd) /\ Len(t) = Len(s) + 1 /\ t[1] = e
          /\ \A k \in 1 .. Len(s) : t[k + 1] = s[k]
      BY <1>0, SeqPrepended
    <2> HIDE DEF t
    <2>4. TableTypeOK'
      BY <1>0, <2>2, <2>3 DEF TableIInv, TableTypeOK
    <2>5. \A k \in 1 .. Len(t) : k = 1 \/ (k - 1 \in 1 .. Len(s) /\ t[k] = s[k - 1])
      <3> TAKE k \in 1 .. Len(t)
      <3>1. k = 1 \/ (k - 1 \in 1 .. Len(s) /\ (k - 1) + 1 = k)
        BY <1>0, <2>3
      <3> QED BY <2>3, <3>1
    <2>6. Single(t)
      <3>1. \A k \in 1 .. Len(s) : s[k].name # name
        BY <2>1 DEF In
      <3>2. ASSUME NEW j \in 1 .. Len(t), NEW k \in 1 .. Len(t), t[j].name = t[k].name
            PROVE  j = k
        <4>1. t[1].name = name
          BY <2>3
        <4>2. CASE j = 1 \/ k = 1
          BY <2>5, <3>1, <3>2, <4>1, <4>2
        <4>3. CASE j # 1 /\ k # 1
          <5>1. j - 1 \in 1 .. Len(s) /\ k - 1 \in 1 .. Len(s) /\ s[j - 1].name = s[k - 1].name
            BY <2>5, <3>2, <4>3
          <5>2. j - 1 = k - 1
            BY <1>0, <5>1 DEF Single
          <5> QED BY <5>2
        <4> QED BY <4>2, <4>3
      <3> QED BY <3>2 DEF Single
    <2>7. \A n \in Names : n # name => \A f \in Funcs \cup {NULL} : Holds(s, n, f) => Holds(t, n, f)
      <3> SUFFICES ASSUME NEW n \in Names, n # name, NEW f \in Funcs \cup {NULL}, Holds(s, n, f)
                   PROVE  Holds(t, n, f)
        OBVIOUS
      <3>1. CASE f = NULL
        <4>1. t[1].name = name
          BY <2>3
        <4>2. \A k \in 1 .. Len(s) : s[k].name # n
          BY <3>1 DEF Holds, In
        <4>3. \A k \in 1 .. Len(t) : t[k].name # n
          BY <2>5, <4>1, <4>2
        <4> QED BY <3>1, <4>3 DEF Holds, In
      <3>2. CASE f # NULL
        <4>1. PICK k \in 1 .. Len(s) : s[k].name = n /\ s[k].func = f
          BY <3>2 DEF Holds
        <4>2. k + 1 \in 1 .. Len(t) /\ t[k + 1] = s[k]
          BY <1>0, <2>3
        <4> QED BY <3>2, <4>1, <4>2 DEF Holds
      <3> QED BY <3>1, <3>2
    <2>8. Holds(t, name, func)
      BY <1>0, <2>3 DEF Holds
    <2>9. \A c \in Buckets : Single(cmd_buckets'[c])
      BY <1>0, <2>2, <2>6 DEF TableIInv, TableTypeOK
    <2>10. \A n \in Names : Holds(cmd_buckets'[Bucket(n)], n, registered'[n])
      <3> TAKE n \in Names
      <3>0. /\ Bucket(n) \in Buckets /\ registered[n] \in Funcs \cup {NULL}
            /\ Holds(cmd_buckets[Bucket(n)], n, registered[n])
        BY BucketInRange DEF TableIInv, TableTypeOK
      <3>1. CASE n = name
        <4>1. cmd_buckets'[b] = t /\ registered'[name] = func
          BY <1>0, <2>2 DEF TableIInv, TableTypeOK
        <4> QED BY <2>8, <3>1, <4>1
      <3>2. CASE n # name
        <4>1. registered'[n] = registered[n]
          BY <2>2, <3>2 DEF TableIInv, TableTypeOK
        <4>2. cmd_buckets'[Bucket(n)] = IF Bucket(n) = b THEN t ELSE cmd_buckets[Bucket(n)]
          BY <1>0, <2>2, <3>0 DEF TableIInv, TableTypeOK
        <4> QED BY <2>7, <3>0, <3>2, <4>1, <4>2
      <3> QED BY <3>1, <3>2
    <2> QED BY <2>4, <2>9, <2>10 DEF TableIInv
  <1> QED BY <1>1, <1>2

LEMMA RemoveKeepsInv ==
  ASSUME TableIInv, UNCHANGED dangling, NEW name \in Names, Cmd_RemoveCommand(name)
  PROVE  TableIInv'
  <1> DEFINE b == Bucket(name)
             s == cmd_buckets[b]
  <1>0. b \in Buckets /\ s \in Seq(Cmd) /\ Len(s) \in Nat /\ DOMAIN s = 1 .. Len(s) /\ Single(s)
    BY BucketInRange, LenProperties DEF TableIInv, TableTypeOK
  <1>1. registered' = [registered EXCEPT ![name] = NULL]
    BY DEF Cmd_RemoveCommand
  <1>2. PICK t \in Seq(Cmd) :
           /\ cmd_buckets' = [cmd_buckets EXCEPT ![b] = t]
           /\ Single(t)
           /\ ~In(t, name)
           /\ \A n \in Names \ {name}, f \in Funcs \cup {NULL} : Holds(s, n, f) => Holds(t, n, f)
    <2>1. CASE Hits(s, name) = {} /\ UNCHANGED cmd_buckets
      <3>1. ~In(s, name)
        BY <1>0, <2>1 DEF Hits, In
      <3>2. cmd_buckets' = [cmd_buckets EXCEPT ![b] = s]
        BY <2>1 DEF TableIInv, TableTypeOK
      <3> QED BY <1>0, <3>1, <3>2
    <2>2. CASE ~(Hits(s, name) = {} /\ UNCHANGED cmd_buckets)
      <3>1. PICK k \in Hits(s, name) :
               cmd_buckets' = [cmd_buckets EXCEPT ![b] = Without(s, k)]
        BY <2>2 DEF Cmd_RemoveCommand
      <3>2. k \in 1 .. Len(s) /\ s[k].name = name
        BY <1>0, <3>1 DEF Hits
      <3> DEFINE t == Without(s, k)
      <3>3. /\ t \in Seq(Cmd) /\ Len(t) = Len(s) - 1
            /\ \A j \in 1 .. Len(s) - 1 : t[j] = IF j < k THEN s[j] ELSE s[j + 1]
        BY <1>0, <3>2, Unlinked
      <3> HIDE DEF t
      <3> DEFINE old(j) == IF j < k THEN j ELSE j + 1
      <3>9. ASSUME NEW j \in 1 .. Len(t)
            PROVE  old(j) \in 1 .. Len(s) /\ old(j) # k /\ t[j] = s[old(j)]
        BY <1>0, <3>2, <3>3
      <3>4. Single(t)
        <4>1. ASSUME NEW i \in 1 .. Len(t), NEW j \in 1 .. Len(t), t[i].name = t[j].name
              PROVE  i = j
          <5>1. old(i) = old(j)
            <6> HIDE DEF old
            <6> QED BY <1>0, <3>9, <4>1 DEF Single
          <5> QED BY <1>0, <3>2, <3>3, <5>1
        <4> QED BY <4>1 DEF Single
      <3> HIDE DEF old
      <3>5. ~In(t, name)
        <4>1. ASSUME NEW j \in 1 .. Len(t) PROVE t[j].name # name
          BY <1>0, <3>2, <3>9 DEF Single
        <4> QED BY <4>1 DEF In
      <3>6. ASSUME NEW n \in Names \ {name}, NEW f \in Funcs \cup {NULL}, Holds(s, n, f)
            PROVE  Holds(t, n, f)
        <4>1. CASE f = NULL
          <5>1. \A j \in 1 .. Len(s) : s[j].name # n
            BY <3>6, <4>1 DEF Holds, In
          <5>2. ASSUME NEW j \in 1 .. Len(t) PROVE t[j].name # n
            BY <3>9, <5>1
          <5> QED BY <4>1, <5>2 DEF Holds, In
        <4>2. CASE f # NULL
          <5>1. PICK j \in 1 .. Len(s) : s[j].name = n /\ s[j].func = f
            BY <3>6, <4>2 DEF Holds
          <5>2. j # k
            BY <3>2, <3>6, <5>1
          <5>3. \E i \in 1 .. Len(t) : t[i] = s[j]
            <6>1. CASE j < k
              BY <1>0, <3>2, <3>3, <6>1
            <6>2. CASE j > k
              <7>1. j - 1 \in 1 .. Len(t) /\ ~(j - 1 < k) /\ (j - 1) + 1 = j
                BY <1>0, <3>2, <3>3, <6>2
              <7> QED BY <3>3, <7>1
            <6> QED BY <1>0, <3>2, <5>2, <6>1, <6>2
          <5> QED BY <4>2, <5>1, <5>3 DEF Holds
        <4> QED BY <4>1, <4>2
      <3> QED BY <3>1, <3>3, <3>4, <3>5, <3>6 DEF t
    <2> QED BY <2>1, <2>2
  <1>3. TableTypeOK'
    BY <1>0, <1>1, <1>2 DEF TableIInv, TableTypeOK
  <1>4. \A c \in Buckets : Single(cmd_buckets'[c])
    BY <1>0, <1>2 DEF TableIInv, TableTypeOK
  <1>5. \A n \in Names : Holds(cmd_buckets'[Bucket(n)], n, registered'[n])
    <2> TAKE n \in Names
    <2>0. /\ Bucket(n) \in Buckets /\ registered[n] \in Funcs \cup {NULL}
          /\ Holds(cmd_buckets[Bucket(n)], n, registered[n])
      BY BucketInRange DEF TableIInv, TableTypeOK
    <2>2. cmd_buckets'[Bucket(n)] = IF Bucket(n) = b THEN t ELSE cmd_buckets[Bucket(n)]
      BY <1>0, <1>2, <2>0 DEF TableIInv, TableTypeOK
    <2>3. registered'[n] = IF n = name THEN NULL ELSE registered[n]
      BY <1>1 DEF TableIInv, TableTypeOK
    <2>4. CASE n = name
      BY <1>2, <2>2, <2>3, <2>4 DEF Holds
    <2>5. CASE n # name
      BY <1>2, <2>0, <2>2, <2>3, <2>5
    <2> QED BY <2>4, <2>5
  <1> QED BY <1>3, <1>4, <1>5 DEF TableIInv

-----------------------------------------------------------------------------
\* The inductive invariant holds throughout.
THEOREM TableInvariant == TableSpec => []TableIInv
  <1>1. TableInit => TableIInv
    BY EmptyTable
  <1>2. TableIInv /\ [TableNext]_tableVars => TableIInv'
    <2> SUFFICES ASSUME TableIInv, [TableNext]_tableVars PROVE TableIInv'
      OBVIOUS
    <2>1. ASSUME NEW name \in Names, NEW func \in Funcs, UNCHANGED dangling,
                 Cmd_AddCommand(name, func)
          PROVE  TableIInv'
      BY <2>1, AddKeepsInv
    <2>2. ASSUME NEW name \in Names, UNCHANGED dangling, Cmd_RemoveCommand(name)
          PROVE  TableIInv'
      BY <2>2, RemoveKeepsInv
    <2>3. CASE Cmd_Shutdown
      BY <2>3 DEF Cmd_Shutdown, TableIInv, TableTypeOK
    <2>4. CASE Cleared
      BY <2>4, EmptyTable
    <2>5. CASE UNCHANGED tableVars
      BY <2>5 DEF tableVars, TableIInv, TableTypeOK
    <2> QED BY <2>1, <2>2, <2>3, <2>4, <2>5 DEF TableNext
  <1> QED BY <1>1, <1>2, PTL DEF TableSpec

\* The types of the table.
THEOREM TableTypeCorrect == TableSpec => []TableTypeOK
  <1>1. TableIInv => TableTypeOK
    BY DEF TableIInv
  <1> QED BY <1>1, TableInvariant, PTL

\* The hash table is a map, whatever names collide.
THEOREM TableCorrect == TableSpec => []TableIsMap
  <1> QED BY InvIsMap, TableInvariant, PTL

-----------------------------------------------------------------------------
(* Induction over a set of numbers, and the least of one.                   *)

LEMMA LeastNumber ==
  ASSUME NEW T, T \subseteq Nat, T # {}
  PROVE  \E x \in T : \A y \in T : x <= y
  <1> DEFINE R == OpToRel(<, Nat)
  <1>1. IsWellFoundedOn(R, Nat)
    BY NatLessThanWellFounded, Zenon
  <1>2. \A x, y \in Nat : <<y, x>> \in R <=> y < x
    BY Zenon DEF OpToRel
  <1> HIDE DEF R
  <1>3. PICK x \in T : \A y \in T : ~ (<<y, x>> \in R)
    BY <1>1, WFMin
  <1>4. \A y \in T : ~(y < x)
    BY <1>2, <1>3
  <1> QED BY <1>4

LEMMA SetInduction ==
  ASSUME NEW S, S \subseteq Nat, 0 \in S, \A n \in S : n + 1 \in S
  PROVE  S = Nat
  <1> DEFINE T == Nat \ S
  <1>1. SUFFICES ASSUME T # {} PROVE FALSE
    OBVIOUS
  <1>2. PICK x \in T : \A y \in T : x <= y
    <2>1. T \subseteq Nat
      OBVIOUS
    <2> HIDE DEF T
    <2> QED BY <1>1, <2>1, LeastNumber
  <1>3. x - 1 \in Nat /\ x - 1 < x /\ x - 1 \notin T
    BY <1>2
  <1> QED BY <1>3

-----------------------------------------------------------------------------
(* Sequences put one after the other.  Flat(s)[k] is the first k of them.   *)

LEMMA IsASequence ==
  ASSUME NEW S, NEW n \in Nat, NEW f \in [1 .. n -> S]
  PROVE  f \in Seq(S) /\ Len(f) = n
  OBVIOUS

Joined(u, v) == u \o v

IsFlat(f, s) ==
    f = [k \in 1 .. Len(s) |-> IF k = 1 THEN s[k] ELSE Joined(f[k - 1], s[k])]

Flat(s) == CHOOSE f : IsFlat(f, s)

LEMMA FlatExists ==
  ASSUME NEW s, Len(s) \in Nat
  PROVE  \E f : IsFlat(f, s)
  <1> DEFINE S == {n \in Nat : \E f : f = [k \in 1 .. n |-> IF k = 1 THEN s[k] ELSE Joined(f[k - 1], s[k])]}
  <1>1. 0 \in S
    <2> DEFINE f == [k \in 1 .. 0 |-> 0]
    <2>1. f = [k \in 1 .. 0 |-> IF k = 1 THEN s[k] ELSE Joined(f[k - 1], s[k])]
      OBVIOUS
    <2> HIDE DEF f
    <2> QED BY <2>1
  <1>2. ASSUME NEW n \in S PROVE n + 1 \in S
    <2>1. PICK f : f = [k \in 1 .. n |-> IF k = 1 THEN s[k] ELSE Joined(f[k - 1], s[k])]
      OBVIOUS
    <2>2. PICK h : h = [k \in 1 .. n + 1 |->
                          IF k <= n THEN f[k] ELSE IF k = 1 THEN s[k] ELSE Joined(f[n], s[k])]
      OBVIOUS
    <2>3. PICK e : e = [k \in 1 .. n + 1 |-> IF k = 1 THEN s[k] ELSE Joined(h[k - 1], s[k])]
      OBVIOUS
    <2>4. ASSUME NEW k \in 1 .. n + 1 PROVE h[k] = e[k]
      <3>1. CASE k = 1
        BY <2>1, <2>2, <2>3, <3>1
      <3>2. CASE k \in 2 .. n
        <4>1. k - 1 \in 1 .. n /\ k - 1 \in 1 .. n + 1 /\ k - 1 <= n
          BY <3>2
        <4> QED BY <2>1, <2>2, <2>3, <3>2, <4>1
      <3>3. CASE k = n + 1 /\ k # 1
        <4>1. k - 1 = n /\ n \in 1 .. n + 1 /\ ~(k <= n)
          BY <3>3
        <4> QED BY <2>2, <2>3, <3>3, <4>1
      <3> QED BY <3>1, <3>2, <3>3
    <2>5. h = [k \in 1 .. n + 1 |-> h[k]] /\ e = [k \in 1 .. n + 1 |-> e[k]]
      BY <2>2, <2>3
    <2>6. h = e
      BY <2>4, <2>5
    <2>7. h = [k \in 1 .. n + 1 |-> IF k = 1 THEN s[k] ELSE Joined(h[k - 1], s[k])]
      BY <2>3, <2>6
    <2> QED BY <2>7
  <1>3. S = Nat
    <2> HIDE DEF S
    <2>1. S \subseteq Nat
      BY DEF S
    <2> QED BY <1>1, <1>2, <2>1, SetInduction
  <1> QED BY <1>3 DEF IsFlat

LEMMA FlatSteps ==
  ASSUME NEW S, NEW s \in Seq(Seq(S))
  PROVE  /\ FlattenSeq(s) = IF s = << >> THEN << >> ELSE Flat(s)[Len(s)]
         /\ s # << >> => Flat(s)[1] = s[1]
         /\ \A k \in 2 .. Len(s) : Flat(s)[k] = Flat(s)[k - 1] \o s[k]
         /\ \A k \in 1 .. Len(s) : Flat(s)[k] \in Seq(S)
         /\ FlattenSeq(s) \in Seq(S)
  <1>1. Len(s) \in Nat /\ (Len(s) = 0 <=> s = << >>) /\ \A k \in 1 .. Len(s) : s[k] \in Seq(S)
    BY LenProperties, EmptySeq, ElementOfSeq
  <1>2. FlattenSeq(s) = IF s = << >> THEN << >> ELSE Flat(s)[Len(s)]
    <2>1. FlattenSeq(s) = IF Len(s) = 0 THEN s ELSE Flat(s)[Len(s)]
      BY DEF FlattenSeq, Flat, IsFlat, Joined
    <2> QED BY <1>1, <2>1
  <1>3. IsFlat(Flat(s), s)
    BY <1>1, FlatExists DEF Flat
  <1>4. /\ s # << >> => Flat(s)[1] = s[1]
        /\ \A k \in 2 .. Len(s) : Flat(s)[k] = Flat(s)[k - 1] \o s[k]
    <2> DEFINE f == Flat(s)
    <2> HIDE DEF f
    <2>1. f = [k \in 1 .. Len(s) |-> IF k = 1 THEN s[k] ELSE Joined(f[k - 1], s[k])]
      BY <1>3 DEF IsFlat, f
    <2>2. \A k \in 2 .. Len(s) : k \in 1 .. Len(s) /\ k # 1
      BY <1>1
    <2>3. \A k \in 2 .. Len(s) : f[k] = Joined(f[k - 1], s[k])
      BY <2>1, <2>2
    <2>4. s # << >> => f[1] = s[1]
      BY <1>1, <2>1
    <2> QED BY <2>3, <2>4 DEF Joined, f
  <1>5. \A k \in 1 .. Len(s) : Flat(s)[k] \in Seq(S)
    <2> DEFINE f == Flat(s)
               T == {k \in Nat : k + 1 <= Len(s) => f[k + 1] \in Seq(S)}
    <2>1. 0 \in T
      BY <1>1, <1>4
    <2> HIDE DEF f
    <2>2. ASSUME NEW k \in T PROVE k + 1 \in T
      <3> SUFFICES ASSUME (k + 1) + 1 <= Len(s) PROVE f[(k + 1) + 1] \in Seq(S)
        OBVIOUS
      <3>1. (k + 1) + 1 \in 2 .. Len(s) /\ ((k + 1) + 1) - 1 = k + 1 /\ f[k + 1] \in Seq(S)
            /\ (k + 1) + 1 \in 1 .. Len(s)
        BY <1>1
      <3>2. f[(k + 1) + 1] = f[k + 1] \o s[(k + 1) + 1]
        BY <1>4, <3>1 DEF f
      <3> QED BY <1>1, <3>1, <3>2, ConcatProperties
    <2>3. T = Nat
      <3> HIDE DEF T
      <3>1. T \subseteq Nat
        BY DEF T
      <3> QED BY <2>1, <2>2, <3>1, SetInduction
    <2>4. ASSUME NEW k \in 1 .. Len(s) PROVE f[k] \in Seq(S)
      <3>1. k - 1 \in Nat /\ (k - 1) + 1 = k
        BY <1>1
      <3>2. k - 1 \in T
        BY <2>3, <3>1
      <3> QED BY <3>1, <3>2
    <2> QED BY <2>4 DEF f
  <1>6. FlattenSeq(s) \in Seq(S)
    <2>1. CASE s = << >>
      BY <1>2, <2>1
    <2>2. CASE s # << >>
      <3>1. Len(s) \in 1 .. Len(s)
        BY <1>1, <2>2
      <3> QED BY <1>2, <1>5, <2>2, <3>1
    <2> QED BY <2>1, <2>2
  <1> QED BY <1>2, <1>4, <1>5, <1>6

LEMMA FlattenEmpty == FlattenSeq(<< >>) = << >>
  BY EmptySeq DEF FlattenSeq

LEMMA FlattenAppend ==
  ASSUME NEW S, NEW s \in Seq(Seq(S)), NEW x \in Seq(S)
  PROVE  FlattenSeq(Append(s, x)) = FlattenSeq(s) \o x
  <1> DEFINE t == Append(s, x)
             n == Len(s)
  <1>1. /\ t \in Seq(Seq(S)) /\ n \in Nat /\ Len(t) = n + 1 /\ t[n + 1] = x
        /\ \A k \in 1 .. n : t[k] = s[k]
        /\ t # << >> /\ (n = 0 <=> s = << >>)
    <2>1. t \in Seq(Seq(S)) /\ n \in Nat /\ Len(t) = n + 1 /\ t[n + 1] = x
          /\ \A k \in 1 .. n : t[k] = s[k]
      BY AppendProperties, LenProperties
    <2> HIDE DEF t
    <2> QED BY <2>1, EmptySeq
  <1> HIDE DEF t, n
  <1>2. /\ FlattenSeq(t) = Flat(t)[n + 1] /\ Flat(t)[1] = t[1]
        /\ \A k \in 2 .. n + 1 : Flat(t)[k] = Flat(t)[k - 1] \o t[k]
    BY <1>1, FlatSteps
  <1>3. /\ FlattenSeq(s) = IF n = 0 THEN << >> ELSE Flat(s)[n]
        /\ n # 0 => Flat(s)[1] = s[1]
        /\ \A k \in 2 .. n : Flat(s)[k] = Flat(s)[k - 1] \o s[k]
    BY <1>1, FlatSteps DEF n
  <1> DEFINE T == {k \in Nat : k + 1 <= n => Flat(t)[k + 1] = Flat(s)[k + 1]}
  <1>4. 0 \in T
    BY <1>1, <1>2, <1>3
  <1>5. ASSUME NEW k \in T PROVE k + 1 \in T
    <2> SUFFICES ASSUME (k + 1) + 1 <= n
                 PROVE  Flat(t)[(k + 1) + 1] = Flat(s)[(k + 1) + 1]
      OBVIOUS
    <2>1. /\ (k + 1) + 1 \in 2 .. n /\ (k + 1) + 1 \in 2 .. n + 1
          /\ ((k + 1) + 1) - 1 = k + 1 /\ (k + 1) + 1 \in 1 .. n
          /\ Flat(t)[k + 1] = Flat(s)[k + 1]
      BY <1>1
    <2> DEFINE j == (k + 1) + 1
    <2>2. Flat(t)[j] = Flat(t)[j - 1] \o t[j]
      BY <1>2, <2>1
    <2>3. Flat(s)[j] = Flat(s)[j - 1] \o s[j]
      BY <1>3, <2>1
    <2>4. t[j] = s[j] /\ Flat(t)[j - 1] = Flat(s)[j - 1]
      BY <1>1, <2>1
    <2> QED BY <2>2, <2>3, <2>4, Zenon
  <1>6. T = Nat
    <2> HIDE DEF T
    <2>1. T \subseteq Nat
      BY DEF T
    <2> QED BY <1>4, <1>5, <2>1, SetInduction
  <1>7. CASE n = 0
    <2>1. FlattenSeq(t) = x /\ FlattenSeq(s) = << >>
      BY <1>1, <1>2, <1>3, <1>7
    <2> QED BY <2>1, ConcatEmptySeq DEF t
  <1>8. CASE n # 0
    <2>1. n - 1 \in Nat /\ (n - 1) + 1 = n /\ n + 1 \in 2 .. n + 1 /\ (n + 1) - 1 = n
      BY <1>1, <1>8
    <2>2. n - 1 \in T
      BY <1>6, <2>1
    <2>3. Flat(t)[n] = Flat(s)[n]
      BY <2>1, <2>2
    <2> QED BY <1>1, <1>2, <1>3, <1>8, <2>1, <2>3 DEF t
  <1> QED BY <1>7, <1>8

LEMMA JoinedInAnyOrder ==
  ASSUME NEW S, NEW a \in Seq(S), NEW b \in Seq(S), NEW c \in Seq(S)
  PROVE  Joined(Joined(a, b), c) = Joined(a, Joined(b, c))
  <1> DEFINE u == (a \o b) \o c
             v == a \o (b \o c)
             l == Len(a)
             m == Len(b)
             n == Len(c)
  <1>1. l \in Nat /\ m \in Nat /\ n \in Nat
    BY LenProperties
  <1>2. /\ a \o b \in Seq(S) /\ Len(a \o b) = l + m
        /\ \A i \in 1 .. l + m : (a \o b)[i] = IF i <= l THEN a[i] ELSE b[i - l]
    BY ConcatProperties
  <1>3. /\ b \o c \in Seq(S) /\ Len(b \o c) = m + n
        /\ \A i \in 1 .. m + n : (b \o c)[i] = IF i <= m THEN b[i] ELSE c[i - m]
    BY ConcatProperties
  <1>4. /\ u \in Seq(S) /\ Len(u) = (l + m) + n
        /\ \A i \in 1 .. (l + m) + n : u[i] = IF i <= l + m THEN (a \o b)[i] ELSE c[i - (l + m)]
    BY <1>2, ConcatProperties
  <1>5. /\ v \in Seq(S) /\ Len(v) = l + (m + n)
        /\ \A i \in 1 .. l + (m + n) : v[i] = IF i <= l THEN a[i] ELSE (b \o c)[i - l]
    BY <1>3, ConcatProperties
  <1> HIDE DEF u, v, l, m, n
  <1>6. Len(u) = Len(v)
    BY <1>1, <1>4, <1>5
  <1>7. ASSUME NEW i \in 1 .. Len(u) PROVE u[i] = v[i]
    <2>1. i \in 1 .. (l + m) + n /\ i \in 1 .. l + (m + n)
      BY <1>1, <1>4, <1>5
    <2>2. CASE i <= l
      <3>1. i \in 1 .. l + m /\ i <= l + m
        BY <1>1, <2>1, <2>2
      <3> QED BY <1>2, <1>4, <1>5, <2>1, <2>2, <3>1
    <2>3. CASE ~(i <= l) /\ i <= l + m
      <3>1. i \in 1 .. l + m /\ i - l \in 1 .. m + n /\ i - l <= m
        BY <1>1, <2>1, <2>3
      <3> QED BY <1>2, <1>3, <1>4, <1>5, <2>1, <2>3, <3>1
    <2>4. CASE ~(i <= l + m)
      <3>1. ~(i <= l) /\ i - l \in 1 .. m + n /\ ~(i - l <= m) /\ (i - l) - m = i - (l + m)
        BY <1>1, <2>1, <2>4
      <3> QED BY <1>3, <1>4, <1>5, <2>1, <2>4, <3>1
    <2> QED BY <2>2, <2>3, <2>4
  <1>8. u = v
    BY <1>4, <1>5, <1>6, <1>7, SeqEqual
  <1> QED BY <1>8, Zenon DEF u, v, Joined

LEMMA FlattenPrepend ==
  ASSUME NEW S, NEW s \in Seq(Seq(S)), NEW x \in Seq(S)
  PROVE  FlattenSeq(<<x>> \o s) = x \o FlattenSeq(s)
  <1> DEFINE t == <<x>> \o s
             n == Len(s)
  <1>1. /\ t \in Seq(Seq(S)) /\ n \in Nat /\ Len(t) = n + 1 /\ t[1] = x
        /\ \A k \in 1 .. n : t[k + 1] = s[k] /\ s[k] \in Seq(S)
        /\ t # << >> /\ (n = 0 <=> s = << >>)
    <2>1. <<x>> \in Seq(Seq(S)) /\ Len(<<x>>) = 1 /\ <<x>>[1] = x
      OBVIOUS
    <2>2. /\ t \in Seq(Seq(S)) /\ n \in Nat /\ Len(t) = 1 + n
          /\ \A k \in 1 .. 1 + n : t[k] = IF k <= 1 THEN <<x>>[k] ELSE s[k - 1]
      BY <2>1, ConcatProperties, LenProperties
    <2> HIDE DEF t
    <2>3. /\ n \in Nat /\ Len(t) = n + 1 /\ t[1] = x
          /\ \A k \in 1 .. n : t[k + 1] = s[k]
      BY <2>1, <2>2
    <2> QED BY <2>2, <2>3, EmptySeq, ElementOfSeq
  <1> HIDE DEF t, n
  <1>2. /\ FlattenSeq(t) = Flat(t)[n + 1] /\ Flat(t)[1] = x
        /\ \A k \in 1 .. n : Flat(t)[k + 1] = Flat(t)[k] \o s[k]
    <2>1. /\ FlattenSeq(t) = Flat(t)[n + 1] /\ Flat(t)[1] = t[1]
          /\ \A k \in 2 .. n + 1 : Flat(t)[k] = Flat(t)[k - 1] \o t[k]
      BY <1>1, FlatSteps
    <2>2. \A k \in 1 .. n : k + 1 \in 2 .. n + 1 /\ (k + 1) - 1 = k
      BY <1>1
    <2> QED BY <1>1, <2>1, <2>2
  <1>3. /\ FlattenSeq(s) = IF n = 0 THEN << >> ELSE Flat(s)[n]
        /\ n # 0 => Flat(s)[1] = s[1]
        /\ \A k \in 2 .. n : Flat(s)[k] = Flat(s)[k - 1] \o s[k]
        /\ \A k \in 1 .. n : Flat(s)[k] \in Seq(S)
    BY <1>1, FlatSteps DEF n
  <1> DEFINE T == {k \in Nat : k + 1 <= n => Flat(t)[k + 2] = x \o Flat(s)[k + 1]}
  <1>4. 0 \in T
    <2> SUFFICES ASSUME 1 <= n PROVE Flat(t)[2] = x \o Flat(s)[1]
      OBVIOUS
    <2>1. 1 \in 1 .. n /\ 1 + 1 = 2 /\ n # 0
      BY <1>1
    <2>2. Flat(t)[2] = Flat(t)[1] \o s[1]
      BY <1>2, <2>1
    <2>3. Flat(t)[1] = x /\ Flat(s)[1] = s[1]
      BY <1>2, <1>3, <2>1
    <2> QED BY <2>2, <2>3, Zenon
  <1>5. ASSUME NEW k \in T PROVE k + 1 \in T
    <2> SUFFICES ASSUME (k + 1) + 1 <= n
                 PROVE  Flat(t)[(k + 1) + 2] = x \o Flat(s)[(k + 1) + 1]
      OBVIOUS
    <2>1. /\ k + 2 \in 2 .. n /\ k + 2 \in 1 .. n /\ k + 1 \in 1 .. n
          /\ (k + 2) - 1 = k + 1 /\ (k + 2) + 1 = (k + 1) + 2 /\ (k + 1) + 1 = k + 2
          /\ k + 1 <= n
      BY <1>1
    <2>2. Flat(t)[k + 2] = x \o Flat(s)[k + 1]
      BY <2>1
    <2>3. Flat(t)[(k + 1) + 2] = Flat(t)[k + 2] \o s[k + 2]
      BY <1>2, <2>1
    <2>4. Flat(s)[(k + 1) + 1] = Flat(s)[k + 1] \o s[k + 2]
      BY <1>3, <2>1
    <2>5. Flat(s)[k + 1] \in Seq(S) /\ s[k + 2] \in Seq(S)
      BY <1>1, <1>3, <2>1
    <2>6. (x \o Flat(s)[k + 1]) \o s[k + 2] = x \o (Flat(s)[k + 1] \o s[k + 2])
      <3>1. Joined(Joined(x, Flat(s)[k + 1]), s[k + 2]) = Joined(x, Joined(Flat(s)[k + 1], s[k + 2]))
        BY <2>5, JoinedInAnyOrder
      <3> QED BY <3>1, Zenon DEF Joined
    <2> QED BY <2>2, <2>3, <2>4, <2>6, Zenon
  <1>6. T = Nat
    <2> HIDE DEF T
    <2>1. T \subseteq Nat
      BY DEF T
    <2> QED BY <1>4, <1>5, <2>1, SetInduction
  <1>7. CASE n = 0
    <2>1. FlattenSeq(t) = x /\ FlattenSeq(s) = << >>
      BY <1>1, <1>2, <1>3, <1>7
    <2> QED BY <2>1, ConcatEmptySeq DEF t
  <1>8. CASE n # 0
    <2>1. n - 1 \in Nat /\ (n - 1) + 1 = n /\ (n - 1) + 2 = n + 1
      BY <1>1, <1>8
    <2>2. n - 1 \in T
      BY <1>6, <2>1
    <2>3. Flat(t)[n + 1] = x \o Flat(s)[n]
      BY <2>1, <2>2
    <2> QED BY <1>2, <1>3, <1>8, <2>3 DEF t
  <1> QED BY <1>7, <1>8

\* Where the k-th ends.
EndOf(s, k) == IF k = 0 THEN 0 ELSE Len(Flat(s)[k])

LEMMA FlattenAt ==
  ASSUME NEW S, NEW s \in Seq(Seq(S))
  PROVE  /\ \A k \in 0 .. Len(s) : EndOf(s, k) \in 0 .. Len(FlattenSeq(s))
         /\ EndOf(s, 0) = 0 /\ EndOf(s, Len(s)) = Len(FlattenSeq(s))
         /\ \A k \in 1 .. Len(s) :
               /\ EndOf(s, k) = EndOf(s, k - 1) + Len(s[k])
               /\ \A i \in 1 .. Len(s[k]) : FlattenSeq(s)[EndOf(s, k - 1) + i] = s[k][i]
  <1> DEFINE n == Len(s)
             all == FlattenSeq(s)
  <1>1. /\ n \in Nat /\ (n = 0 <=> s = << >>)
        /\ \A k \in 1 .. n : s[k] \in Seq(S) /\ Len(s[k]) \in Nat
    BY LenProperties, EmptySeq, ElementOfSeq
  <1>2. /\ all = IF n = 0 THEN << >> ELSE Flat(s)[n]
        /\ n # 0 => Flat(s)[1] = s[1]
        /\ \A k \in 2 .. n : Flat(s)[k] = Flat(s)[k - 1] \o s[k]
        /\ \A k \in 1 .. n : Flat(s)[k] \in Seq(S) /\ Len(Flat(s)[k]) \in Nat
        /\ all \in Seq(S) /\ Len(all) \in Nat
    BY <1>1, FlatSteps, LenProperties
  <1> HIDE DEF n, all
  <1>3. ASSUME NEW k \in 1 .. n
        PROVE  /\ EndOf(s, k) = EndOf(s, k - 1) + Len(s[k])
               /\ \A i \in 1 .. Len(s[k]) : Flat(s)[k][EndOf(s, k - 1) + i] = s[k][i]
               /\ k > 1 => \A i \in 1 .. EndOf(s, k - 1) : Flat(s)[k][i] = Flat(s)[k - 1][i]
    <2>1. CASE k = 1
      BY <1>1, <1>2, <2>1 DEF EndOf
    <2>2. CASE k > 1
      <3>1. k \in 2 .. n /\ k - 1 \in 1 .. n /\ k # 0 /\ k - 1 # 0
        BY <1>1, <2>2
      <3> DEFINE a == Flat(s)[k - 1]
                 b == s[k]
      <3>2. a \in Seq(S) /\ b \in Seq(S) /\ Flat(s)[k] = a \o b /\ Len(a) \in Nat /\ Len(b) \in Nat
        BY <1>1, <1>2, <3>1
      <3>3. EndOf(s, k) = Len(Flat(s)[k]) /\ EndOf(s, k - 1) = Len(a)
        BY <3>1 DEF EndOf
      <3> HIDE DEF a, b
      <3>4. /\ Len(a \o b) = Len(a) + Len(b)
            /\ \A i \in 1 .. Len(a) + Len(b) :
                  (a \o b)[i] = IF i <= Len(a) THEN a[i] ELSE b[i - Len(a)]
        BY <3>2, ConcatProperties
      <3>5. ASSUME NEW i \in 1 .. Len(b) PROVE (a \o b)[Len(a) + i] = b[i]
        <4>1. Len(a) + i \in 1 .. Len(a) + Len(b) /\ ~(Len(a) + i <= Len(a))
              /\ (Len(a) + i) - Len(a) = i
          BY <3>2
        <4> QED BY <3>4, <4>1
      <3>6. \A i \in 1 .. Len(a) : (a \o b)[i] = a[i]
        BY <3>2, <3>4
      <3> QED BY <3>2, <3>3, <3>4, <3>5, <3>6 DEF a, b
    <2> QED BY <1>1, <2>1, <2>2
  <1>4. \A k \in 0 .. n : EndOf(s, k) \in Nat
    BY <1>1, <1>2 DEF EndOf
  \* What is put together stays as it is.
  <1>5. ASSUME NEW k \in 1 .. n
        PROVE  EndOf(s, k) <= Len(all) /\ \A i \in 1 .. EndOf(s, k) : all[i] = Flat(s)[k][i]
    <2> DEFINE T == {j \in Nat : k + j <= n =>
                       /\ EndOf(s, k) <= EndOf(s, k + j)
                       /\ \A i \in 1 .. EndOf(s, k) : Flat(s)[k + j][i] = Flat(s)[k][i]}
    <2>1. 0 \in T
      <3>1. k + 0 = k /\ EndOf(s, k) \in Nat
        BY <1>1, <1>4
      <3> QED BY <3>1
    <2>2. ASSUME NEW j \in T PROVE j + 1 \in T
      <3> SUFFICES ASSUME k + (j + 1) <= n
                   PROVE  /\ EndOf(s, k) <= EndOf(s, k + (j + 1))
                          /\ \A i \in 1 .. EndOf(s, k) : Flat(s)[k + (j + 1)][i] = Flat(s)[k][i]
        OBVIOUS
      <3>1. /\ k + (j + 1) \in 1 .. n /\ k + (j + 1) > 1 /\ (k + (j + 1)) - 1 = k + j
            /\ k + j \in 1 .. n /\ k + j <= n
        BY <1>1
      <3>2. /\ EndOf(s, k) <= EndOf(s, k + j)
            /\ \A i \in 1 .. EndOf(s, k) : Flat(s)[k + j][i] = Flat(s)[k][i]
        BY <3>1
      <3> DEFINE l == EndOf(s, k + j)
                 m == EndOf(s, k)
      <3>3. /\ EndOf(s, k + (j + 1)) = l + Len(s[k + (j + 1)])
            /\ \A i \in 1 .. l : Flat(s)[k + (j + 1)][i] = Flat(s)[k + j][i]
        BY <1>3, <3>1
      <3>4. l \in Nat /\ m \in Nat /\ Len(s[k + (j + 1)]) \in Nat /\ m <= l
        BY <1>1, <1>4, <3>1, <3>2, SMTT(30)
      <3> HIDE DEF l, m
      <3>5. \A i \in 1 .. m : i \in 1 .. l
        BY <3>4
      <3> QED BY <3>2, <3>3, <3>4, <3>5 DEF m
    <2>3. T = Nat
      <3> HIDE DEF T
      <3>1. T \subseteq Nat
        BY DEF T
      <3> QED BY <2>1, <2>2, <3>1, SetInduction
    <2>4. n - k \in Nat /\ k + (n - k) = n /\ k + (n - k) <= n /\ n # 0
      BY <1>1
    <2>5. n - k \in T
      BY <2>3, <2>4
    <2>6. EndOf(s, n) = Len(all) /\ all = Flat(s)[n]
      BY <1>1, <1>2, <2>4 DEF EndOf
    <2> QED BY <2>4, <2>5, <2>6
  <1>6. EndOf(s, 0) = 0 /\ EndOf(s, n) = Len(all)
    BY <1>1, <1>2, EmptySeq DEF EndOf
  <1>7. \A k \in 0 .. n : EndOf(s, k) \in 0 .. Len(all)
    BY <1>1, <1>2, <1>4, <1>5, <1>6
  <1>8. ASSUME NEW k \in 1 .. n, NEW i \in 1 .. Len(s[k])
        PROVE  all[EndOf(s, k - 1) + i] = s[k][i]
    <2>1. k - 1 \in 0 .. n
      BY <1>1
    <2>2. EndOf(s, k) = EndOf(s, k - 1) + Len(s[k]) /\ EndOf(s, k - 1) \in Nat
      BY <1>3, <1>4, <2>1
    <2>3. EndOf(s, k - 1) + i \in 1 .. EndOf(s, k)
      <3>1. Len(s[k]) \in Nat
        BY <1>1
      <3> QED BY <2>2, <3>1
    <2> QED BY <1>3, <1>5, <2>3
  <1> QED BY <1>3, <1>6, <1>7, <1>8 DEF n, all

-----------------------------------------------------------------------------
(* Recursion, with steps that stay in a set. *)

Recurs(X, base, n, G) ==
    \E f \in [0 .. n -> X] : f[0] = base /\ \A k \in 1 .. n : f[k] = G[k][f[k - 1]]

LEMMA Recursion ==
  ASSUME NEW X, NEW base \in X, NEW n \in Nat, NEW G \in [1 .. n -> [X -> X]]
  PROVE  Recurs(X, base, n, G)
  <1> DEFINE Goes(m, f) == f[0] = base /\ \A k \in 1 .. m : f[k] = G[k][f[k - 1]]
             Reaches(m) == \E f \in [0 .. m -> X] : Goes(m, f)
             S == {m \in Nat : m <= n => Reaches(m)}
  <1>1. 0 \in S
    <2>1. PICK f : f = [k \in 0 .. 0 |-> base]
      OBVIOUS
    <2>2. f \in [0 .. 0 -> X] /\ Goes(0, f)
      BY <2>1
    <2> QED BY <2>2
  <1>2. ASSUME NEW m \in S PROVE m + 1 \in S
    <2> SUFFICES ASSUME m + 1 <= n PROVE Reaches(m + 1)
      <3> HIDE DEF Reaches
      <3> QED OBVIOUS
    <2>0. Reaches(m)
      <3> HIDE DEF Reaches
      <3> QED OBVIOUS
    <2>1. PICK f \in [0 .. m -> X] : Goes(m, f)
      BY <2>0
    <2>2. f[m] \in X /\ m + 1 \in 1 .. n
      OBVIOUS
    <2>3. G[m + 1][f[m]] \in X
      BY <2>2
    <2>4. PICK h : h = [k \in 0 .. m + 1 |-> IF k <= m THEN f[k] ELSE G[m + 1][f[m]]]
      OBVIOUS
    <2>5. h \in [0 .. m + 1 -> X]
      BY <2>3, <2>4
    <2>6. h[0] = base
      BY <2>1, <2>4
    <2>7. ASSUME NEW k \in 1 .. m + 1 PROVE h[k] = G[k][h[k - 1]]
      <3>1. k \in 0 .. m + 1 /\ k - 1 \in 0 .. m + 1 /\ k - 1 <= m
        OBVIOUS
      <3>2. h[k - 1] = f[k - 1]
        BY <2>4, <3>1
      <3>3. CASE k <= m
        BY <2>1, <2>4, <3>1, <3>2, <3>3
      <3>4. CASE ~(k <= m)
        <4>1. k = m + 1 /\ k - 1 = m
          BY <3>4
        <4> QED BY <2>4, <3>1, <3>2, <3>4, <4>1
      <3> QED BY <3>3, <3>4
    <2> QED BY <2>5, <2>6, <2>7
  <1>3. S = Nat
    <2> HIDE DEF S
    <2>1. S \subseteq Nat
      BY DEF S
    <2> QED BY <1>1, <1>2, <2>1, SetInduction
  <1>4. n \in S
    BY <1>3
  <1> QED BY <1>4 DEF Recurs

-----------------------------------------------------------------------------
(* The tokenizer. *)

\* There is a first position with a property, or none to the end.
LEMMA FirstPosition ==
  ASSUME NEW H, NEW n \in Nat, NEW p \in 1 .. n + 1
  PROVE  \E q \in p .. n + 1 : (q <= n => q \in H) /\ \A k \in p .. q - 1 : k \notin H
  <1> DEFINE T == {k \in p .. n : k \in H} \cup {n + 1}
  <1>1. T \subseteq Nat /\ T # {}
    OBVIOUS
  <1>2. PICK q \in T : \A y \in T : q <= y
    <2> HIDE DEF T
    <2> QED BY <1>1, LeastNumber
  <1>3. q \in p .. n + 1 /\ (q <= n => q \in H)
    OBVIOUS
  <1>4. ASSUME NEW k \in p .. q - 1, k \in H PROVE FALSE
    <2>1. k \in T
      BY <1>3, <1>4
    <2> QED BY <1>2, <1>3, <2>1
  <1> QED BY <1>3, <1>4

LEMMA FirstBlank ==
  ASSUME NEW text, Len(text) \in Nat, NEW p \in 1 .. Len(text) + 1
  PROVE  LET q == FirstFrom(text, p, IsBlank)
         IN  /\ q \in p .. Len(text) + 1
             /\ q <= Len(text) => IsBlank(text[q])
             /\ \A k \in p .. q - 1 : ~IsBlank(text[k])
  <1> DEFINE H == {k \in p .. Len(text) : IsBlank(text[k])}
  <1>1. PICK q \in p .. Len(text) + 1 :
           (q <= Len(text) => q \in H) /\ \A k \in p .. q - 1 : k \notin H
    <2> HIDE DEF H
    <2> QED BY FirstPosition
  <1>2. \A k \in p .. q - 1 : k \in p .. Len(text)
    BY <1>1
  <1>3. (q <= Len(text) => IsBlank(text[q])) /\ \A k \in p .. q - 1 : ~IsBlank(text[k])
    BY <1>1, <1>2
  <1> QED BY <1>3 DEF FirstFrom

LEMMA FirstNotBlank ==
  ASSUME NEW text, Len(text) \in Nat, NEW p \in 1 .. Len(text) + 1
  PROVE  LET q == FirstFrom(text, p, NotBlank)
         IN  /\ q \in p .. Len(text) + 1
             /\ q <= Len(text) => NotBlank(text[q])
             /\ \A k \in p .. q - 1 : ~NotBlank(text[k])
  <1> DEFINE H == {k \in p .. Len(text) : NotBlank(text[k])}
  <1>1. PICK q \in p .. Len(text) + 1 :
           (q <= Len(text) => q \in H) /\ \A k \in p .. q - 1 : k \notin H
    <2> HIDE DEF H
    <2> QED BY FirstPosition
  <1>2. \A k \in p .. q - 1 : k \in p .. Len(text)
    BY <1>1
  <1>3. (q <= Len(text) => NotBlank(text[q])) /\ \A k \in p .. q - 1 : ~NotBlank(text[k])
    BY <1>1, <1>2
  <1> QED BY <1>3 DEF FirstFrom

LEMMA FirstQuote ==
  ASSUME NEW text, Len(text) \in Nat, NEW p \in 1 .. Len(text) + 1
  PROVE  LET q == FirstFrom(text, p, IsQuote)
         IN  /\ q \in p .. Len(text) + 1
             /\ q <= Len(text) => IsQuote(text[q])
             /\ \A k \in p .. q - 1 : ~IsQuote(text[k])
  <1> DEFINE H == {k \in p .. Len(text) : IsQuote(text[k])}
  <1>1. PICK q \in p .. Len(text) + 1 :
           (q <= Len(text) => q \in H) /\ \A k \in p .. q - 1 : k \notin H
    <2> HIDE DEF H
    <2> QED BY FirstPosition
  <1>2. \A k \in p .. q - 1 : k \in p .. Len(text)
    BY <1>1
  <1>3. (q <= Len(text) => IsQuote(text[q])) /\ \A k \in p .. q - 1 : ~IsQuote(text[k])
    BY <1>1, <1>2
  <1> QED BY <1>3 DEF FirstFrom

\* And there is no other.
LEMMA FirstBlankIs ==
  ASSUME NEW text, Len(text) \in Nat, NEW p \in 1 .. Len(text) + 1, NEW e \in p .. Len(text) + 1,
         e <= Len(text) => IsBlank(text[e]), \A k \in p .. e - 1 : ~IsBlank(text[k])
  PROVE  FirstFrom(text, p, IsBlank) = e
  <1> DEFINE q == FirstFrom(text, p, IsBlank)
  <1>1. /\ q \in p .. Len(text) + 1
        /\ q <= Len(text) => IsBlank(text[q])
        /\ \A k \in p .. q - 1 : ~IsBlank(text[k])
    BY FirstBlank
  <1> HIDE DEF q
  <1>2. ~(q < e)
    <2> SUFFICES ASSUME q < e PROVE FALSE
      OBVIOUS
    <2>1. q \in p .. e - 1 /\ q <= Len(text)
      BY <1>1
    <2> QED BY <1>1, <2>1
  <1>3. ~(e < q)
    <2> SUFFICES ASSUME e < q PROVE FALSE
      OBVIOUS
    <2>1. e \in p .. q - 1 /\ e <= Len(text)
      BY <1>1
    <2> QED BY <1>1, <2>1
  <1>4. q = e
    BY <1>1, <1>2, <1>3
  <1> QED BY <1>4 DEF q

LEMMA FirstNotBlankIs ==
  ASSUME NEW text, Len(text) \in Nat, NEW p \in 1 .. Len(text) + 1, NEW e \in p .. Len(text) + 1,
         e <= Len(text) => NotBlank(text[e]), \A k \in p .. e - 1 : ~NotBlank(text[k])
  PROVE  FirstFrom(text, p, NotBlank) = e
  <1> DEFINE q == FirstFrom(text, p, NotBlank)
  <1>1. /\ q \in p .. Len(text) + 1
        /\ q <= Len(text) => NotBlank(text[q])
        /\ \A k \in p .. q - 1 : ~NotBlank(text[k])
    BY FirstNotBlank
  <1> HIDE DEF q
  <1>2. ~(q < e)
    <2> SUFFICES ASSUME q < e PROVE FALSE
      OBVIOUS
    <2>1. q \in p .. e - 1 /\ q <= Len(text)
      BY <1>1
    <2> QED BY <1>1, <2>1
  <1>3. ~(e < q)
    <2> SUFFICES ASSUME e < q PROVE FALSE
      OBVIOUS
    <2>1. e \in p .. q - 1 /\ e <= Len(text)
      BY <1>1
    <2> QED BY <1>1, <2>1
  <1>4. q = e
    BY <1>1, <1>2, <1>3
  <1> QED BY <1>4 DEF q

LEMMA FirstQuoteIs ==
  ASSUME NEW text, Len(text) \in Nat, NEW p \in 1 .. Len(text) + 1, NEW e \in p .. Len(text) + 1,
         e <= Len(text) => IsQuote(text[e]), \A k \in p .. e - 1 : ~IsQuote(text[k])
  PROVE  FirstFrom(text, p, IsQuote) = e
  <1> DEFINE q == FirstFrom(text, p, IsQuote)
  <1>1. /\ q \in p .. Len(text) + 1
        /\ q <= Len(text) => IsQuote(text[q])
        /\ \A k \in p .. q - 1 : ~IsQuote(text[k])
    BY FirstQuote
  <1> HIDE DEF q
  <1>2. ~(q < e)
    <2> SUFFICES ASSUME q < e PROVE FALSE
      OBVIOUS
    <2>1. q \in p .. e - 1 /\ q <= Len(text)
      BY <1>1
    <2> QED BY <1>1, <2>1
  <1>3. ~(e < q)
    <2> SUFFICES ASSUME e < q PROVE FALSE
      OBVIOUS
    <2>1. e \in p .. q - 1 /\ e <= Len(text)
      BY <1>1
    <2> QED BY <1>1, <2>1
  <1>4. q = e
    BY <1>1, <1>2, <1>3
  <1> QED BY <1>4 DEF q

\* A word, and how far it reaches.
LEMMA WordReaches ==
  ASSUME NEW text \in Seq(Int), NEW q \in 1 .. Len(text), NotBlank(text[q])
  PROVE  LET w == WordAt(text, q)
         IN  /\ w.word \in Seq(Int)
             /\ w.next \in q + 1 .. Len(text) + 1
             /\ \/ q + Len(w.word) < w.next
                \/ /\ q + Len(w.word) = w.next
                   /\ w.next <= Len(text) => IsBlank(text[w.next])
  <1>1. Len(text) \in Nat /\ q \in Nat
    BY LenProperties
  <1>2. CASE IsQuote(text[q])
    <2> DEFINE e == FirstFrom(text, q + 1, IsQuote)
    <2>1. q + 1 \in 1 .. Len(text) + 1
      BY <1>1
    <2>2. e \in q + 1 .. Len(text) + 1
      BY <1>1, <2>1, FirstQuote
    <2>3. WordAt(text, q) = [word |-> SubSeq(text, q + 1, e - 1),
                             next |-> IF e <= Len(text) THEN e + 1 ELSE e]
      BY <1>2 DEF WordAt
    <2> HIDE DEF e
    <2>4. SubSeq(text, q + 1, e - 1) \in Seq(Int) /\ Len(SubSeq(text, q + 1, e - 1)) = e - 1 - q
      BY <1>1, <2>2, SubSeqProperties
    <2> QED BY <1>1, <2>2, <2>3, <2>4, SMTT(30)
  <1>3. CASE ~IsQuote(text[q])
    <2> DEFINE e == FirstFrom(text, q, IsBlank)
    <2>1. q \in 1 .. Len(text) + 1
      BY <1>1
    <2>2. /\ e \in q .. Len(text) + 1 /\ (e <= Len(text) => IsBlank(text[e]))
      BY <1>1, <2>1, FirstBlank
    <2>3. WordAt(text, q) = [word |-> SubSeq(text, q, e - 1), next |-> e]
      BY <1>3 DEF WordAt
    <2> HIDE DEF e
    <2>4. e # q
      BY <2>2 DEF NotBlank
    <2>5. SubSeq(text, q, e - 1) \in Seq(Int) /\ Len(SubSeq(text, q, e - 1)) = e - q
      BY <1>1, <2>2, SubSeqProperties
    <2> QED BY <1>1, <2>2, <2>3, <2>4, <2>5
  <1> QED BY <1>2, <1>3

LEMMA RecursionIsTyped ==
  ASSUME NEW X, NEW base \in X, NEW n \in Nat, NEW G \in [1 .. n -> [X -> X]],
         NEW h, h[0] = base, \A k \in 1 .. n : h[k - 1] \in X => h[k] = G[k][h[k - 1]]
  PROVE  \A k \in 0 .. n : h[k] \in X
  <1> DEFINE S == {k \in Nat : k <= n => h[k] \in X}
  <1>1. 0 \in S
    OBVIOUS
  <1>2. ASSUME NEW k \in S PROVE k + 1 \in S
    <2> SUFFICES ASSUME k + 1 <= n PROVE h[k + 1] \in X
      OBVIOUS
    <2>1. k + 1 \in 1 .. n /\ (k + 1) - 1 = k /\ h[k] \in X
      OBVIOUS
    <2>2. h[k + 1] = G[k + 1][h[k]]
      BY <2>1
    <2> QED BY <2>1, <2>2
  <1>3. S = Nat
    <2> HIDE DEF S
    <2>1. S \subseteq Nat
      BY DEF S
    <2> QED BY <1>1, <1>2, <2>1, SetInduction
  <1> QED BY <1>3

-----------------------------------------------------------------------------
(* Tokens. *)

Start(text) == IF text # << >> /\ text[1] = SLASH THEN 2 ELSE 1

NextScan(text, s) ==
    LET q == FirstFrom(text, s.pos, NotBlank)
        w == WordAt(text, q)
    IN  IF q > Len(text) THEN s
        ELSE [pos |-> w.next, argv |-> Append(s.argv, w.word)]

IsScan(f, text) ==
    f = [k \in 0 .. MAX_CMD_TOKENS |->
            IF k = 0 THEN [pos |-> Start(text), argv |-> << >>] ELSE NextScan(text, f[k - 1])]

Scan(text) == CHOOSE f : IsScan(f, text)

Scans(text) == [pos : 1 .. Len(text) + 1, argv : Seq(Seq(Int))]

LEMMA ScanSteps ==
  ASSUME NEW text \in Seq(Int)
  PROVE  /\ Cmd_TokenizeString(text) = Scan(text)[MAX_CMD_TOKENS].argv
         /\ Scan(text)[0] = [pos |-> Start(text), argv |-> << >>]
         /\ \A k \in 1 .. MAX_CMD_TOKENS : Scan(text)[k] = NextScan(text, Scan(text)[k - 1])
         /\ \A k \in 0 .. MAX_CMD_TOKENS : Scan(text)[k] \in Scans(text)
  <1> DEFINE n == MAX_CMD_TOKENS
             X == Scans(text)
             base == [pos |-> Start(text), argv |-> << >>]
  <1>1. n \in Nat \ {0} /\ Len(text) \in Nat /\ (Len(text) = 0 <=> text = << >>)
    BY LineAssumption, LenProperties, EmptySeq
  <1>2. base \in X
    <2>1. << >> \in Seq(Seq(Int))
      OBVIOUS
    <2>2. Start(text) \in 1 .. Len(text) + 1
      BY <1>1 DEF Start
    <2> QED BY <2>1, <2>2 DEF Scans
  <1>3. ASSUME NEW s \in X PROVE NextScan(text, s) \in X
    <2> DEFINE q == FirstFrom(text, s.pos, NotBlank)
               w == WordAt(text, q)
    <2>1. s.pos \in 1 .. Len(text) + 1 /\ s.argv \in Seq(Seq(Int))
      BY DEF Scans
    <2>2. q \in s.pos .. Len(text) + 1 /\ (q <= Len(text) => NotBlank(text[q]))
      BY <1>1, <2>1, FirstNotBlank
    <2>3. NextScan(text, s) = IF q > Len(text) THEN s
                              ELSE [pos |-> w.next, argv |-> Append(s.argv, w.word)]
      BY DEF NextScan
    <2> HIDE DEF q
    <2>4. CASE q > Len(text)
      BY <2>3, <2>4
    <2>5. CASE ~(q > Len(text))
      <3>1. q \in 1 .. Len(text) /\ NotBlank(text[q])
        BY <1>1, <2>1, <2>2, <2>5
      <3>2. w.word \in Seq(Int) /\ w.next \in q + 1 .. Len(text) + 1
        BY <3>1, WordReaches
      <3> HIDE DEF w
      <3>3. Append(s.argv, w.word) \in Seq(Seq(Int)) /\ w.next \in 1 .. Len(text) + 1
        BY <1>1, <2>1, <3>1, <3>2, AppendProperties
      <3> QED BY <2>3, <2>5, <3>3 DEF Scans
    <2> QED BY <2>4, <2>5
  <1> HIDE DEF n, X, base
  <1>4. PICK G : G = [k \in 1 .. n |-> [s \in X |-> NextScan(text, s)]]
    OBVIOUS
  <1>5. G \in [1 .. n -> [X -> X]]
    BY <1>3, <1>4
  <1>6. \A k \in 1 .. n, s \in X : G[k][s] = NextScan(text, s)
    BY <1>4
  <1>7. PICK f \in [0 .. n -> X] : f[0] = base /\ \A k \in 1 .. n : f[k] = G[k][f[k - 1]]
    <2>1. n \in Nat
      BY <1>1
    <2>2. Recurs(X, base, n, G)
      BY <1>2, <1>5, <2>1, Recursion
    <2> QED BY <2>2 DEF Recurs
  <1>8. IsScan(f, text)
    <2>1. ASSUME NEW k \in 0 .. n PROVE f[k] = IF k = 0 THEN base ELSE NextScan(text, f[k - 1])
      <3>1. CASE k # 0
        <4>1. k \in 1 .. n /\ k - 1 \in 0 .. n
          BY <1>1, <3>1
        <4> QED BY <1>6, <1>7, <3>1, <4>1
      <3> QED BY <1>7, <3>1
    <2>2. PICK e : e = [k \in 0 .. n |-> IF k = 0 THEN base ELSE NextScan(text, f[k - 1])]
      OBVIOUS
    <2>3. e = [k \in 0 .. n |-> e[k]] /\ f = [k \in 0 .. n |-> f[k]]
      BY <2>2
    <2>4. \A k \in 0 .. n : e[k] = f[k]
      BY <2>1, <2>2
    <2>5. f = e
      BY <2>3, <2>4
    <2> QED BY <2>2, <2>5 DEF IsScan, n, base
  <1>9. IsScan(Scan(text), text)
    BY <1>8 DEF Scan
  <1>10. PICK h : h = Scan(text)
    OBVIOUS
  <1>11. h = [k \in 0 .. n |-> IF k = 0 THEN base ELSE NextScan(text, h[k - 1])]
    BY <1>9, <1>10 DEF IsScan, n, base
  <1>12. h[0] = base /\ \A k \in 1 .. n : h[k] = NextScan(text, h[k - 1])
    <2>1. 0 \in 0 .. n /\ \A k \in 1 .. n : k \in 0 .. n /\ k # 0
      BY <1>1
    <2> QED BY <1>11, <2>1
  <1>13. \A k \in 0 .. n : h[k] \in X
    <2>1. \A k \in 1 .. n : h[k - 1] \in X => h[k] = G[k][h[k - 1]]
      BY <1>6, <1>12
    <2>2. n \in Nat
      BY <1>1
    <2> QED BY <1>2, <1>5, <1>12, <2>1, <2>2, RecursionIsTyped
  <1>14. Cmd_TokenizeString(text) = Scan(text)[MAX_CMD_TOKENS].argv
    BY DEF Cmd_TokenizeString, Scan, IsScan, NextScan, Start
  <1> QED BY <1>10, <1>12, <1>13, <1>14 DEF n, X, base

\* What one more word takes: its characters and a NUL.
LEMMA StoredGrows ==
  /\ Len(Stored(<< >>)) = 0
  /\ \A argv \in Seq(Seq(Int)), w \in Seq(Int) :
        /\ Len(Stored(argv)) \in Nat
        /\ Len(Stored(Append(argv, w))) = Len(Stored(argv)) + Len(w) + 1
  <1>1. Len(Stored(<< >>)) = 0
    <2>1. [k \in DOMAIN << >> |-> Append(<< >>[k], 0)] = << >>
      OBVIOUS
    <2>2. Stored(<< >>) = << >>
      BY <2>1, FlattenEmpty DEF Stored
    <2> QED BY <2>2
  <1>2. ASSUME NEW argv \in Seq(Seq(Int)), NEW w \in Seq(Int)
        PROVE  /\ Len(Stored(argv)) \in Nat
               /\ Len(Stored(Append(argv, w))) = Len(Stored(argv)) + Len(w) + 1
    <2> DEFINE n == Len(argv)
               s == [k \in DOMAIN argv |-> Append(argv[k], 0)]
               x == Append(w, 0)
               more == Append(argv, w)
    <2>1. n \in Nat /\ DOMAIN argv = 1 .. n /\ \A k \in 1 .. n : argv[k] \in Seq(Int)
      BY LenProperties, ElementOfSeq
    <2>2. x \in Seq(Int) /\ Len(x) = Len(w) + 1 /\ Len(w) \in Nat
      BY AppendProperties, LenProperties
    <2>3. /\ more \in Seq(Seq(Int)) /\ Len(more) = n + 1 /\ DOMAIN more = 1 .. n + 1
          /\ more[n + 1] = w /\ \A k \in 1 .. n : more[k] = argv[k]
      BY AppendProperties, LenProperties
    <2>4. s \in Seq(Seq(Int)) /\ Len(s) = n /\ \A k \in 1 .. n : s[k] = Append(argv[k], 0)
      <3>1. \A k \in 1 .. n : Append(argv[k], 0) \in Seq(Int)
        BY <2>1, AppendProperties
      <3>2. s \in [1 .. n -> Seq(Int)]
        BY <2>1, <3>1
      <3> QED BY <2>1, <3>2
    <2> HIDE DEF more
    <2>5. [k \in DOMAIN more |-> Append(more[k], 0)] = Append(s, x)
      <3>1. PICK t : t = [k \in 1 .. n + 1 |-> Append(more[k], 0)]
        OBVIOUS
      <3> HIDE DEF s, x
      <3>2. /\ Append(s, x) \in Seq(Seq(Int)) /\ Len(Append(s, x)) = n + 1
            /\ Append(s, x)[n + 1] = x /\ \A k \in 1 .. n : Append(s, x)[k] = s[k]
        BY <2>2, <2>4, AppendProperties
      <3>3. \A k \in 1 .. n + 1 : t[k] = Append(s, x)[k]
        <4> TAKE k \in 1 .. n + 1
        <4>1. t[k] = Append(more[k], 0)
          BY <3>1
        <4>2. CASE k = n + 1
          BY <2>3, <3>2, <4>1, <4>2 DEF x
        <4>3. CASE k # n + 1
          <5>1. k \in 1 .. n
            BY <2>1, <4>3
          <5> QED BY <2>3, <2>4, <3>2, <4>1, <5>1
        <4> QED BY <4>2, <4>3
      <3>4. t \in Seq(Seq(Int)) /\ Len(t) = n + 1
        <4>1. \A k \in 1 .. n + 1 : Append(more[k], 0) \in Seq(Int)
          BY <2>1, <2>3, ElementOfSeq, AppendProperties
        <4>2. t \in [1 .. n + 1 -> Seq(Int)]
          BY <3>1, <4>1
        <4>3. n + 1 \in Nat
          BY <2>1
        <4> QED BY <4>2, <4>3, IsASequence
      <3>5. t = Append(s, x)
        BY <3>2, <3>3, <3>4, SeqEqual
      <3> QED BY <2>3, <3>1, <3>5
    <2>6. Stored(more) = FlattenSeq(Append(s, x))
      BY <2>5 DEF Stored
    <2>7. FlattenSeq(Append(s, x)) = FlattenSeq(s) \o x /\ FlattenSeq(s) \in Seq(Int)
      <3> HIDE DEF s, x
      <3> QED BY <2>2, <2>4, FlattenAppend, FlatSteps
    <2>8. Len(FlattenSeq(s) \o x) = Len(FlattenSeq(s)) + Len(x) /\ Len(FlattenSeq(s)) \in Nat
      <3> HIDE DEF s, x
      <3> QED BY <2>2, <2>7, ConcatProperties, LenProperties
    <2>9. Stored(argv) = FlattenSeq(s)
      BY DEF Stored
    <2> HIDE DEF s, x, n
    <2> QED BY <2>2, <2>6, <2>7, <2>8, <2>9 DEF more
  <1> QED BY <1>1, <1>2

\* The words of any text, with their NULs, take no more room than it and its
\* NUL.  Up to where the tokenizer is they take no more than the characters
\* before, unless it stands behind a word no blank or quote has ended yet.
LEMMA TokensOfAnyTextFit ==
  ASSUME NEW text \in Seq(Int)
  PROVE  Len(Stored(Cmd_TokenizeString(text))) <= Len(text) + 1
  <1> DEFINE n == MAX_CMD_TOKENS
             l == Len(text)
             room(s) == /\ Len(Stored(s.argv)) <= s.pos
                        /\ s.pos <= l /\ NotBlank(text[s.pos]) => Len(Stored(s.argv)) <= s.pos - 1
             T == {k \in Nat : k <= n => room(Scan(text)[k])}
  <1>1. n \in Nat /\ l \in Nat
    BY LineAssumption, LenProperties
  <1>2. ASSUME NEW k \in 0 .. n
        PROVE  /\ Scan(text)[k].pos \in 1 .. l + 1 /\ Scan(text)[k].argv \in Seq(Seq(Int))
               /\ Len(Stored(Scan(text)[k].argv)) \in Nat
    <2>1. Scan(text)[k].pos \in 1 .. l + 1 /\ Scan(text)[k].argv \in Seq(Seq(Int))
      BY ScanSteps DEF Scans
    <2>2. Len(<< >>) \in Nat /\ << >> \in Seq(Int)
      OBVIOUS
    <2> QED BY <2>1, <2>2, StoredGrows
  <1>3. 0 \in T
    <2>1. /\ Scan(text)[0].argv = << >> /\ Scan(text)[0].pos \in 1 .. l + 1
      <3>1. 0 \in 0 .. n
        BY <1>1
      <3>2. Scan(text)[0].pos \in 1 .. l + 1
        BY <1>2, <3>1
      <3>3. Scan(text)[0].argv = << >>
        <4>1. Scan(text)[0] = [pos |-> Start(text), argv |-> << >>]
          BY ScanSteps
        <4> QED BY <4>1
      <3> QED BY <3>2, <3>3
    <2>2. Len(Stored(Scan(text)[0].argv)) = 0
      BY <2>1, StoredGrows
    <2> QED BY <1>1, <2>1, <2>2
  <1>4. ASSUME NEW k \in T PROVE k + 1 \in T
    <2> SUFFICES ASSUME k + 1 <= n PROVE room(Scan(text)[k + 1])
      OBVIOUS
    <2>1. PICK s, t : s = Scan(text)[k] /\ t = Scan(text)[k + 1]
      OBVIOUS
    <2>2. /\ k + 1 \in 1 .. n /\ (k + 1) - 1 = k /\ k \in 0 .. n /\ k + 1 \in 0 .. n
      BY <1>1
    <2>3. /\ room(s) /\ s.pos \in 1 .. l + 1 /\ s.argv \in Seq(Seq(Int))
          /\ Len(Stored(s.argv)) \in Nat
      BY <1>2, <2>1, <2>2
    <2>4. t = NextScan(text, s)
      BY <2>1, <2>2, ScanSteps
    <2> DEFINE q == FirstFrom(text, s.pos, NotBlank)
               w == WordAt(text, q)
    <2>5. /\ q \in s.pos .. l + 1 /\ (q <= l => NotBlank(text[q]))
          /\ \A j \in s.pos .. q - 1 : ~NotBlank(text[j])
      BY <1>1, <2>3, FirstNotBlank
    <2>6. t = IF q > l THEN s ELSE [pos |-> w.next, argv |-> Append(s.argv, w.word)]
      BY <2>4 DEF NextScan
    <2> HIDE DEF q
    <2>7. CASE q > l
      BY <2>1, <2>3, <2>6, <2>7
    <2>8. CASE ~(q > l)
      <3>1. q \in 1 .. l /\ NotBlank(text[q])
        <4> HIDE DEF l, T, room
        <4>1. PICK p : p = s.pos
          OBVIOUS
        <4>2. p \in 1 .. l + 1 /\ q \in p .. l + 1
          BY <2>3, <2>5, <4>1
        <4>3. q \in 1 .. l
          BY <1>1, <2>8, <4>2
        <4> QED BY <2>5, <4>3
      <3>2. /\ w.word \in Seq(Int) /\ w.next \in q + 1 .. l + 1
            /\ \/ q + Len(w.word) < w.next
               \/ /\ q + Len(w.word) = w.next
                  /\ w.next <= l => IsBlank(text[w.next])
        BY <3>1, WordReaches
      <3> HIDE DEF w, l
      <3>3. Len(Stored(s.argv)) <= q - 1
        <4>1. CASE q = s.pos
          BY <2>3, <3>1, <4>1
        <4>2. CASE q # s.pos
          BY <2>3, <2>5, <3>1, <4>2
        <4> QED BY <4>1, <4>2
      <3>4. /\ t.pos = w.next /\ t.argv = Append(s.argv, w.word)
            /\ Len(Stored(t.argv)) = Len(Stored(s.argv)) + Len(w.word) + 1
            /\ Len(w.word) \in Nat
        BY <2>3, <2>6, <2>8, <3>2, StoredGrows, LenProperties
      <3>5. PICK a, b, c, d : /\ a = Len(Stored(s.argv)) /\ b = Len(w.word)
                             /\ c = w.next /\ d = Len(Stored(t.argv))
        OBVIOUS
      <3>6. /\ a \in Nat /\ b \in Nat /\ c \in Nat /\ q \in Nat
            /\ a <= q - 1 /\ d = a + b + 1 /\ t.pos = c
            /\ q + b < c \/ (q + b = c /\ (c <= l => IsBlank(text[c])))
        <4>1. c \in Nat /\ q \in Nat
          BY <1>1, <3>1, <3>2, <3>5 DEF l
        <4> QED BY <2>3, <3>2, <3>3, <3>4, <3>5, <4>1
      <3>7. d <= c
        BY <3>6
      <3>8. c <= l /\ NotBlank(text[c]) => d <= c - 1
        BY <3>6 DEF NotBlank
      <3> QED BY <2>1, <3>5, <3>6, <3>7, <3>8 DEF l
    <2> QED BY <2>7, <2>8
  <1>5. T = Nat
    <2> HIDE DEF T
    <2>1. T \subseteq Nat
      BY DEF T
    <2> QED BY <1>3, <1>4, <2>1, SetInduction
  <1>6. n \in T
    BY <1>1, <1>5
  <1>7. room(Scan(text)[n]) /\ n \in 0 .. n
    BY <1>1, <1>6
  <1>8. Len(Stored(Scan(text)[n].argv)) <= l + 1
    BY <1>1, <1>2, <1>7
  <1> QED BY <1>8, ScanSteps

-----------------------------------------------------------------------------
(* What is typed. *)

\* The characters that end no line.
Letters == {c \in Int : ~Ends(c)}

AnyLine == [slash : BOOLEAN, words : Seq(Words), gap : Gaps, open : BOOLEAN]

Shown(w, open) ==
    IF ~w.quoted THEN w.text
    ELSE <<QUOTE>> \o w.text \o IF open THEN << >> ELSE <<QUOTE>>

ShownAt(line, k) == Shown(line.words[k], line.open /\ k = Len(line.words))

Piece(line, k) == ShownAt(line, k) \o IF k < Len(line.words) THEN line.gap ELSE << >>

Pieces(line) == [k \in 1 .. Len(line.words) |-> Piece(line, k)]

Lead(line) == IF line.slash THEN <<SLASH>> ELSE << >>

LEMMA TextIsPieces ==
  ASSUME NEW line
  PROVE  TextOf(line) = Lead(line) \o FlattenSeq(Pieces(line))
  BY DEF TextOf, Lead, Pieces, Piece, ShownAt, Shown

LEMMA SeqWider ==
  ASSUME NEW S, NEW T, S \subseteq T, NEW s \in Seq(S)
  PROVE  s \in Seq(T)
  <1>1. Len(s) \in Nat /\ s \in [1 .. Len(s) -> S]
    BY LenProperties
  <1>2. s \in [1 .. Len(s) -> T]
    BY <1>1
  <1> QED BY <1>1, <1>2, IsASequence

LEMMA OfSet ==
  ASSUME NEW S, NEW s \in Seq(Int), \A k \in DOMAIN s : s[k] \in S
  PROVE  s \in Seq(S)
  <1>1. Len(s) \in Nat /\ DOMAIN s = 1 .. Len(s) /\ s \in [1 .. Len(s) -> Int]
    BY LenProperties
  <1>2. s \in [1 .. Len(s) -> S]
    BY <1>1
  <1> QED BY <1>1, <1>2, IsASequence

\* Every word, quote and gap is text without the end of a line.
LEMMA WordsAreText ==
  /\ \A w \in Words :
        /\ w.text \in Seq(Letters) /\ Len(w.text) \in Nat
        /\ w.quoted \in BOOLEAN
        /\ w.text \in Bare \cup Quoted /\ (w.text \in Bare \/ w.quoted) /\ (w.text \in Quoted \/ ~w.quoted)
  /\ \A g \in Gaps : g \in Seq(Letters) /\ Len(g) \in Nat
  /\ <<QUOTE>> \in Seq(Letters) /\ <<SLASH>> \in Seq(Letters) /\ << >> \in Seq(Letters)
  <1>1. QUOTE \in Letters /\ SLASH \in Letters /\ TAB \in Letters /\ SPACE \in Letters
    BY DEF Letters, Ends, QUOTE, SLASH, TAB, SPACE, NEWLINE, SEMI
  <1>2. ASSUME NEW w \in Bare PROVE w \in Seq(Letters)
    <2>1. w \in Seq(Int) /\ \A k \in DOMAIN w : w[k] > SPACE /\ w[k] # SEMI
      BY LineAssumption
    <2>2. \A k \in DOMAIN w : w[k] \in Int
      BY <2>1, ElementOfSeq, LenProperties
    <2>3. \A k \in DOMAIN w : w[k] \in Letters
      BY <2>1, <2>2 DEF Letters, Ends, NEWLINE, SEMI, SPACE
    <2> QED BY <2>1, <2>3, OfSet
  <1>3. ASSUME NEW w \in Quoted PROVE w \in Seq(Letters)
    <2>1. w \in Seq(Int) /\ \A k \in DOMAIN w : w[k] \notin {QUOTE, SEMI, NEWLINE}
      BY LineAssumption
    <2>2. \A k \in DOMAIN w : w[k] \in Int
      BY <2>1, ElementOfSeq, LenProperties
    <2>3. \A k \in DOMAIN w : w[k] \in Letters
      BY <2>1, <2>2 DEF Letters, Ends
    <2> QED BY <2>1, <2>3, OfSet
  <1>4. ASSUME NEW g \in Gaps PROVE g \in Seq(Letters)
    <2>1. g \in Seq(Int) /\ \A k \in DOMAIN g : g[k] \in {TAB, SPACE}
      BY LineAssumption
    <2>2. \A k \in DOMAIN g : g[k] \in Letters
      BY <1>1, <2>1
    <2> QED BY <2>1, <2>2, OfSet
  <1>5. ASSUME NEW w \in Words
        PROVE  /\ w.text \in Seq(Letters) /\ Len(w.text) \in Nat
               /\ w.quoted \in BOOLEAN
               /\ w.text \in Bare \cup Quoted
               /\ (w.text \in Bare \/ w.quoted) /\ (w.text \in Quoted \/ ~w.quoted)
    <2>1. (w.text \in Bare /\ w.quoted = FALSE) \/ (w.text \in Quoted /\ w.quoted = TRUE)
      BY DEF Words
    <2>2. w.text \in Seq(Letters)
      BY <1>2, <1>3, <2>1
    <2> QED BY <2>1, <2>2, LenProperties
  <1>6. \A g \in Gaps : Len(g) \in Nat
    BY <1>4, LenProperties
  <1> QED BY <1>1, <1>4, <1>5, <1>6

LEMMA PiecesAreText ==
  ASSUME NEW line \in AnyLine
  PROVE  /\ Pieces(line) \in Seq(Seq(Letters)) /\ Len(Pieces(line)) = Len(line.words)
         /\ Lead(line) \in Seq(Letters)
         /\ TextOf(line) \in Seq(Letters)
         /\ \A k \in 1 .. Len(line.words) :
               ShownAt(line, k) \in Seq(Letters) /\ line.words[k] \in Words
  <1>1. line.words \in Seq(Words) /\ line.gap \in Gaps /\ line.slash \in BOOLEAN
    BY DEF AnyLine
  <1> DEFINE n == Len(line.words)
  <1>2. n \in Nat /\ \A k \in 1 .. n : line.words[k] \in Words
    BY <1>1, LenProperties, ElementOfSeq
  <1>3. ASSUME NEW w \in Words, NEW open PROVE Shown(w, open) \in Seq(Letters)
    <2>1. w.text \in Seq(Letters) /\ <<QUOTE>> \in Seq(Letters) /\ << >> \in Seq(Letters)
      BY WordsAreText
    <2>2. <<QUOTE>> \o w.text \in Seq(Letters)
      BY <2>1, ConcatProperties
    <2>3. /\ <<QUOTE>> \o w.text \o <<QUOTE>> \in Seq(Letters)
          /\ <<QUOTE>> \o w.text \o << >> \in Seq(Letters)
      BY <2>1, <2>2, ConcatProperties
    <2>4. CASE w.quoted /\ open
      BY <2>3, <2>4 DEF Shown
    <2>5. CASE w.quoted /\ ~open
      BY <2>3, <2>5 DEF Shown
    <2>6. CASE ~w.quoted
      BY <2>1, <2>6 DEF Shown
    <2> QED BY <2>4, <2>5, <2>6
  <1>4. ASSUME NEW k \in 1 .. n PROVE Piece(line, k) \in Seq(Letters)
    <2>1. ShownAt(line, k) \in Seq(Letters)
      BY <1>2, <1>3 DEF ShownAt
    <2>2. (IF k < Len(line.words) THEN line.gap ELSE << >>) \in Seq(Letters)
      BY <1>1, WordsAreText
    <2> QED BY <2>1, <2>2, ConcatProperties DEF Piece
  <1>5. Pieces(line) \in [1 .. n -> Seq(Letters)]
    BY <1>4 DEF Pieces
  <1>6. Pieces(line) \in Seq(Seq(Letters)) /\ Len(Pieces(line)) = n
    BY <1>2, <1>5, IsASequence
  <1>7. Lead(line) \in Seq(Letters)
    BY WordsAreText DEF Lead
  <1>8. TextOf(line) \in Seq(Letters)
    <2>1. FlattenSeq(Pieces(line)) \in Seq(Letters)
      BY <1>6, FlatSteps
    <2> QED BY <1>7, <2>1, TextIsPieces, ConcatProperties
  <1>9. ASSUME NEW k \in 1 .. n PROVE ShownAt(line, k) \in Seq(Letters)
    BY <1>2, <1>3 DEF ShownAt
  <1> QED BY <1>2, <1>6, <1>7, <1>8, <1>9

LEMMA LinesAreLines == Typed \subseteq AnyLine /\ Script \subseteq AnyLine
  <1>1. ASSUME NEW n \in Nat PROVE Lines(n) \subseteq AnyLine
    <2>1. BoundedSeq(Words, n) \subseteq Seq(Words)
      <3> SUFFICES ASSUME NEW s \in BoundedSeq(Words, n) PROVE s \in Seq(Words)
        OBVIOUS
      <3>1. PICK m \in 0 .. n : s \in [1 .. m -> Words]
        BY DEF BoundedSeq, SeqOf
      <3>2. m \in Nat
        OBVIOUS
      <3> QED BY <3>1, <3>2, IsASequence
    <2> QED BY <2>1 DEF Lines, AnyLine
  <1> QED BY <1>1, LineAssumption DEF Typed, Script

-----------------------------------------------------------------------------
(* The buffer and its lines. *)

Terminators == {<<NEWLINE>>, <<SEMI>>, << >>}

\* The lines, each with what ends it.
Ended(lines, ends) == [k \in 1 .. Len(lines) |-> TextOf(lines[k]) \o ends[k]]

\* Only the last line may have no end, and then it is not empty.
EndsAre(lines, ends) ==
    /\ ends \in Seq(Terminators) /\ Len(ends) = Len(lines)
    /\ \A k \in 1 .. Len(lines) :
          ends[k] # << >> \/ (k = Len(lines) /\ TextOf(lines[k]) # << >>)

Held(buffer, lines) ==
    /\ lines \in Seq(AnyLine)
    /\ Len(buffer) < MAX_CMD_BUFFER
    /\ \E ends : EndsAre(lines, ends) /\ buffer = FlattenSeq(Ended(lines, ends))

LEMMA EndedIsText ==
  ASSUME NEW lines \in Seq(AnyLine), NEW ends \in Seq(Terminators), Len(ends) = Len(lines)
  PROVE  /\ Ended(lines, ends) \in Seq(Seq(Int)) /\ Len(Ended(lines, ends)) = Len(lines)
         /\ Len(lines) \in Nat
         /\ \A k \in 1 .. Len(lines) :
               /\ lines[k] \in AnyLine /\ ends[k] \in Terminators
               /\ TextOf(lines[k]) \in Seq(Int) /\ ends[k] \in Seq(Int)
               /\ Ended(lines, ends)[k] = TextOf(lines[k]) \o ends[k]
               /\ Ended(lines, ends)[k] \in Seq(Int)
  <1> DEFINE n == Len(lines)
  <1>1. n \in Nat /\ \A k \in 1 .. n : lines[k] \in AnyLine /\ ends[k] \in Terminators
    BY LenProperties, ElementOfSeq
  <1>2. \A e \in Terminators : e \in Seq(Int)
    <2>1. <<NEWLINE>> \in Seq(Int) /\ <<SEMI>> \in Seq(Int) /\ << >> \in Seq(Int)
      BY DEF NEWLINE, SEMI
    <2> QED BY <2>1 DEF Terminators
  <1>3. \A l \in AnyLine : TextOf(l) \in Seq(Int)
    <2> SUFFICES ASSUME NEW l \in AnyLine PROVE TextOf(l) \in Seq(Int)
      OBVIOUS
    <2>1. TextOf(l) \in Seq(Letters)
      BY PiecesAreText
    <2>2. Letters \subseteq Int
      BY DEF Letters
    <2> QED BY <2>1, <2>2, SeqWider
  <1>4. \A k \in 1 .. n : TextOf(lines[k]) \o ends[k] \in Seq(Int)
    BY <1>1, <1>2, <1>3, ConcatProperties
  <1>5. Ended(lines, ends) \in [1 .. n -> Seq(Int)]
    BY <1>4 DEF Ended
  <1>6. Ended(lines, ends) \in Seq(Seq(Int)) /\ Len(Ended(lines, ends)) = n
    BY <1>1, <1>5, IsASequence
  <1>7. \A k \in 1 .. n : Ended(lines, ends)[k] = TextOf(lines[k]) \o ends[k]
    BY DEF Ended
  <1> QED BY <1>1, <1>2, <1>3, <1>4, <1>6, <1>7

LEMMA HeldIsText ==
  ASSUME NEW b, NEW lines, Held(b, lines)
  PROVE  b \in Seq(Int) /\ Len(b) \in Nat
  <1>1. PICK ends : EndsAre(lines, ends) /\ b = FlattenSeq(Ended(lines, ends))
    BY DEF Held
  <1>2. Ended(lines, ends) \in Seq(Seq(Int))
    BY <1>1, EndedIsText DEF Held, EndsAre
  <1>3. b \in Seq(Int)
    BY <1>1, <1>2, FlatSteps
  <1> QED BY <1>3, LenProperties

LEMMA HeldAppend ==
  ASSUME NEW b, NEW lines, Held(b, lines), NEW line \in AnyLine, NEW end \in Terminators,
         b # << >> => Ends(b[Len(b)]),
         Len(b) + Len(TextOf(line) \o end) < MAX_CMD_BUFFER, TextOf(line) \o end # << >>
  PROVE  Held(b \o (TextOf(line) \o end), Append(lines, line))
  <1> DEFINE x == TextOf(line) \o end
             n == Len(lines)
             more == Append(lines, line)
  <1>1. PICK ends : EndsAre(lines, ends) /\ b = FlattenSeq(Ended(lines, ends))
    BY DEF Held
  <1>2. lines \in Seq(AnyLine) /\ ends \in Seq(Terminators) /\ Len(ends) = n /\ n \in Nat
    BY <1>1, LenProperties DEF Held, EndsAre
  <1> DEFINE e == Append(ends, end)
             s == Ended(lines, ends)
  <1>3. /\ more \in Seq(AnyLine) /\ Len(more) = n + 1 /\ more[n + 1] = line
        /\ \A k \in 1 .. n : more[k] = lines[k]
    BY <1>2, AppendProperties
  <1>4. /\ e \in Seq(Terminators) /\ Len(e) = n + 1 /\ e[n + 1] = end
        /\ \A k \in 1 .. n : e[k] = ends[k]
    BY <1>2, AppendProperties
  <1>5. /\ s \in Seq(Seq(Int)) /\ Len(s) = n
        /\ \A k \in 1 .. n : s[k] = TextOf(lines[k]) \o ends[k] /\ ends[k] \in Terminators
                             /\ lines[k] \in AnyLine
    BY <1>2, EndedIsText
  <1> HIDE DEF more, e, s
  <1>6. x \in Seq(Int) /\ Len(x) \in Nat
    <2>0. n + 1 \in 1 .. Len(more)
      BY <1>2, <1>3
    <2>2. /\ Ended(more, e)[n + 1] = TextOf(more[n + 1]) \o e[n + 1]
          /\ Ended(more, e)[n + 1] \in Seq(Int)
      BY <1>3, <1>4, <2>0, EndedIsText
    <2>1. x \in Seq(Int)
      BY <1>3, <1>4, <2>2, Zenon
    <2> HIDE DEF x
    <2> QED BY <2>1, LenProperties
  <1> HIDE DEF x
  <1>7. Ended(more, e) = Append(s, x)
    <2>1. /\ Ended(more, e) \in Seq(Seq(Int)) /\ Len(Ended(more, e)) = n + 1
          /\ \A k \in 1 .. n + 1 : Ended(more, e)[k] = TextOf(more[k]) \o e[k]
      <3>1. Len(e) = Len(more)
        BY <1>3, <1>4
      <3>2. /\ Ended(more, e) \in Seq(Seq(Int)) /\ Len(Ended(more, e)) = Len(more)
            /\ \A k \in 1 .. Len(more) : Ended(more, e)[k] = TextOf(more[k]) \o e[k]
        BY <1>3, <1>4, <3>1, EndedIsText
      <3> QED BY <1>3, <3>2, Zenon
    <2>2. /\ Append(s, x) \in Seq(Seq(Int)) /\ Len(Append(s, x)) = n + 1
          /\ Append(s, x)[n + 1] = x /\ \A k \in 1 .. n : Append(s, x)[k] = s[k]
      BY <1>5, <1>6, AppendProperties
    <2>3. \A k \in 1 .. n + 1 : Ended(more, e)[k] = Append(s, x)[k]
      <3> TAKE k \in 1 .. n + 1
      <3>1. CASE k = n + 1
        BY <1>3, <1>4, <2>1, <2>2, <3>1 DEF x
      <3>2. CASE k # n + 1
        <4>1. k \in 1 .. n
          BY <1>2, <3>2
        <4>2. Ended(more, e)[k] = TextOf(more[k]) \o e[k]
          BY <2>1
        <4>3. more[k] = lines[k] /\ e[k] = ends[k] /\ Append(s, x)[k] = s[k]
              /\ s[k] = TextOf(lines[k]) \o ends[k]
          BY <1>3, <1>4, <1>5, <2>2, <4>1
        <4> QED BY <4>2, <4>3, Zenon
      <3> QED BY <3>1, <3>2
    <2> QED BY <2>1, <2>2, <2>3, SeqEqual
  <1>8. b \o x = FlattenSeq(Ended(more, e))
    BY <1>1, <1>5, <1>6, <1>7, FlattenAppend DEF s
  <1>9. Len(b \o x) < MAX_CMD_BUFFER
    <2>1. b \in Seq(Int)
      BY <1>1, <1>5, FlatSteps DEF s
    <2>2. Len(b \o x) = Len(b) + Len(x)
      BY <1>6, <2>1, ConcatProperties
    <2> QED BY <2>2 DEF x
  \* A line without an end would have its last character at the buffer's end.
  <1>10. \A k \in 1 .. n : ends[k] # << >>
    <2> SUFFICES ASSUME NEW k \in 1 .. n, ends[k] = << >> PROVE FALSE
      OBVIOUS
    <2>1. k = n /\ TextOf(lines[n]) # << >> /\ n # 0
      BY <1>1, <1>2 DEF EndsAre
    <2> DEFINE t == TextOf(lines[n])
    <2>2. t \in Seq(Letters) /\ Len(t) \in Nat /\ Len(t) # 0 /\ Len(t) \in 1 .. Len(t)
      <3>1. t \in Seq(Letters)
        BY <1>5, <2>1, PiecesAreText
      <3> HIDE DEF t
      <3> QED BY <2>1, <3>1, LenProperties, EmptySeq DEF t
    <2>3. t[Len(t)] \in Letters
      BY <2>2, ElementOfSeq
    <2>4. s[n] = t
      BY <1>5, <2>1, <2>2, ConcatEmptySeq
    <2> HIDE DEF t
    <2>5. /\ EndOf(s, n) = Len(b) /\ n \in 1 .. n
          /\ EndOf(s, n) = EndOf(s, n - 1) + Len(t)
          /\ b[EndOf(s, n - 1) + Len(t)] = t[Len(t)]
      <3>1. n \in 1 .. Len(s)
        BY <1>2, <1>5, <2>1
      <3> QED BY <1>1, <1>5, <2>2, <2>4, <3>1, FlattenAt DEF s
    <2>6. b[Len(b)] = t[Len(t)]
      BY <2>5
    <2>7. b # << >>
      <3>1. Len(b) # 0
        <4>1. EndOf(s, n - 1) \in 0 .. Len(b) /\ Len(b) \in Nat
          <5>1. n - 1 \in 0 .. Len(s)
            BY <1>2, <1>5, <2>1
          <5>2. b \in Seq(Int)
            BY <1>1, <1>5, FlatSteps DEF s
          <5> QED BY <1>1, <1>5, <5>1, <5>2, FlattenAt, LenProperties DEF s
        <4> QED BY <2>2, <2>5, <4>1
      <3> QED BY <3>1
    <2> QED BY <2>3, <2>6, <2>7 DEF Letters
  <1>11. EndsAre(more, e)
    <2>1. ASSUME NEW k \in 1 .. n + 1
          PROVE  e[k] # << >> \/ (k = n + 1 /\ TextOf(more[k]) # << >>)
      <3>1. CASE k = n + 1
        <4>1. end = << >> => TextOf(line) # << >>
          <5> SUFFICES ASSUME end = << >>, TextOf(line) = << >> PROVE FALSE
            OBVIOUS
          <5>1. x = << >> \o << >>
            BY DEF x
          <5> QED BY <5>1 DEF x
        <4> QED BY <1>3, <1>4, <3>1, <4>1
      <3>2. CASE k # n + 1
        <4>1. k \in 1 .. n
          BY <1>2, <3>2
        <4> QED BY <1>4, <1>10, <4>1
      <3> QED BY <3>1, <3>2
    <2> QED BY <1>3, <1>4, <2>1 DEF EndsAre
  <1> QED BY <1>3, <1>8, <1>9, <1>11 DEF Held, x, more

LEMMA HeldPrepend ==
  ASSUME NEW b, NEW lines, Held(b, lines), NEW line \in AnyLine, NEW end \in Terminators,
         end # << >>, Len(b) + Len(TextOf(line) \o end) < MAX_CMD_BUFFER
  PROVE  Held((TextOf(line) \o end) \o b, <<line>> \o lines)
  <1> DEFINE x == TextOf(line) \o end
             n == Len(lines)
             more == <<line>> \o lines
  <1>1. PICK ends : EndsAre(lines, ends) /\ b = FlattenSeq(Ended(lines, ends))
    BY DEF Held
  <1>2. lines \in Seq(AnyLine) /\ ends \in Seq(Terminators) /\ Len(ends) = n /\ n \in Nat
    BY <1>1, LenProperties DEF Held, EndsAre
  <1> DEFINE e == <<end>> \o ends
             s == Ended(lines, ends)
  <1>3. /\ more \in Seq(AnyLine) /\ Len(more) = n + 1 /\ more[1] = line
        /\ \A k \in 1 .. n : more[k + 1] = lines[k]
    BY <1>2, SeqPrepended
  <1>4. /\ e \in Seq(Terminators) /\ Len(e) = n + 1 /\ e[1] = end
        /\ \A k \in 1 .. n : e[k + 1] = ends[k]
    BY <1>2, SeqPrepended
  <1>5. /\ s \in Seq(Seq(Int)) /\ Len(s) = n
        /\ \A k \in 1 .. n : s[k] = TextOf(lines[k]) \o ends[k]
    BY <1>2, EndedIsText
  <1> HIDE DEF more, e, s
  <1>6. x \in Seq(Int) /\ Len(x) \in Nat
    <2>1. 1 \in 1 .. Len(more)
      BY <1>2, <1>3
    <2>2. /\ Ended(more, e)[1] = TextOf(more[1]) \o e[1]
          /\ Ended(more, e)[1] \in Seq(Int)
      BY <1>3, <1>4, <2>1, EndedIsText
    <2>3. x \in Seq(Int)
      BY <1>3, <1>4, <2>2, Zenon
    <2> HIDE DEF x
    <2> QED BY <2>3, LenProperties
  <1> HIDE DEF x
  <1>7. Ended(more, e) = <<x>> \o s
    <2>1. /\ Ended(more, e) \in Seq(Seq(Int)) /\ Len(Ended(more, e)) = n + 1
          /\ \A k \in 1 .. n + 1 : Ended(more, e)[k] = TextOf(more[k]) \o e[k]
      <3>1. Len(e) = Len(more)
        BY <1>3, <1>4
      <3>2. /\ Ended(more, e) \in Seq(Seq(Int)) /\ Len(Ended(more, e)) = Len(more)
            /\ \A k \in 1 .. Len(more) : Ended(more, e)[k] = TextOf(more[k]) \o e[k]
        BY <1>3, <1>4, <3>1, EndedIsText
      <3> QED BY <1>3, <3>2, Zenon
    <2>2. /\ <<x>> \o s \in Seq(Seq(Int)) /\ Len(<<x>> \o s) = n + 1
          /\ (<<x>> \o s)[1] = x /\ \A k \in 1 .. n : (<<x>> \o s)[k + 1] = s[k]
      BY <1>5, <1>6, SeqPrepended
    <2>3. \A k \in 1 .. n + 1 : Ended(more, e)[k] = (<<x>> \o s)[k]
      <3> TAKE k \in 1 .. n + 1
      <3>0. Ended(more, e)[k] = TextOf(more[k]) \o e[k]
        BY <2>1
      <3>1. CASE k = 1
        <4>1. more[k] = line /\ e[k] = end /\ (<<x>> \o s)[k] = x
          BY <1>3, <1>4, <2>2, <3>1
        <4> QED BY <3>0, <4>1, Zenon DEF x
      <3>2. CASE k # 1
        <4>1. PICK j \in 1 .. n : k = j + 1
          <5>1. k - 1 \in 1 .. n /\ k = (k - 1) + 1
            BY <1>2, <3>2
          <5> QED BY <5>1
        <4>2. more[k] = lines[j] /\ e[k] = ends[j] /\ (<<x>> \o s)[k] = s[j]
              /\ s[j] = TextOf(lines[j]) \o ends[j]
          BY <1>3, <1>4, <1>5, <2>2, <4>1
        <4> QED BY <3>0, <4>2, Zenon
      <3> QED BY <3>1, <3>2
    <2> QED BY <2>1, <2>2, <2>3, SeqEqual
  <1>8. x \o b = FlattenSeq(Ended(more, e))
    <2>1. FlattenSeq(<<x>> \o s) = x \o FlattenSeq(s)
      BY <1>5, <1>6, FlattenPrepend
    <2> QED BY <1>1, <1>7, <2>1, Zenon DEF s
  <1>9. Len(x \o b) < MAX_CMD_BUFFER
    <2>1. b \in Seq(Int)
      BY <1>1, <1>5, FlatSteps DEF s
    <2>2. Len(x \o b) = Len(x) + Len(b) /\ Len(b) \in Nat
      BY <1>6, <2>1, ConcatProperties, LenProperties
    <2> QED BY <1>6, <2>2 DEF x
  <1>10. EndsAre(more, e)
    <2>1. ASSUME NEW k \in 1 .. n + 1
          PROVE  e[k] # << >> \/ (k = n + 1 /\ TextOf(more[k]) # << >>)
      <3>1. CASE k = 1
        BY <1>4, <3>1
      <3>2. CASE k # 1
        <4>1. PICK j \in 1 .. n : k = j + 1
          <5>1. k - 1 \in 1 .. n /\ k = (k - 1) + 1
            BY <1>2, <3>2
          <5> QED BY <5>1
        <4>2. ends[j] # << >> \/ (j = n /\ TextOf(lines[j]) # << >>)
          BY <1>1 DEF EndsAre
        <4> QED BY <1>3, <1>4, <4>1, <4>2
      <3> QED BY <3>1, <3>2
    <2> QED BY <1>3, <1>4, <2>1 DEF EndsAre
  <1> QED BY <1>3, <1>8, <1>9, <1>10 DEF Held, x, more

LEMMA HeldEmpty == Held(<< >>, << >>)
  <1>1. Ended(<< >>, << >>) = << >>
    BY DEF Ended
  <1>2. EndsAre(<< >>, << >>)
    BY DEF EndsAre
  <1>3. Len(<< >>) < MAX_CMD_BUFFER /\ << >> \in Seq(AnyLine)
    BY LineAssumption
  <1> QED BY <1>1, <1>2, <1>3, FlattenEmpty DEF Held

-----------------------------------------------------------------------------
\* The buffer's invariant.
LineInv ==
    /\ Held(cmd_buffer, queued)
    /\ asked \in Seq(AnyLine)

LEMMA FillsKeepsHeld ==
  ASSUME LineInv, Fills
  PROVE  Held(cmd_buffer', queued')
  <1>0. Held(cmd_buffer, queued)
    BY DEF LineInv
  <1>1. CASE Cbuf_Init
    BY <1>1, HeldEmpty DEF Cbuf_Init
  <1>2. ASSUME NEW line \in Script, NEW end \in Terminators, AddLine(line, end)
        PROVE  Held(cmd_buffer', queued')
    <2>1. line \in AnyLine
      BY LinesAreLines
    <2> DEFINE x == TextOf(line) \o end
    <2>2. CASE Fits(x) /\ cmd_buffer' # cmd_buffer
      <3>1. cmd_buffer' = cmd_buffer \o x /\ queued' = Append(queued, line)
            /\ (cmd_buffer # << >> => Ends(cmd_buffer[Len(cmd_buffer)]))
        BY <1>2, <2>2 DEF AddLine, Cbuf_AddText
      <3>2. Len(cmd_buffer) + Len(x) < MAX_CMD_BUFFER
        BY <2>2 DEF Fits
      <3>3. x # << >>
        <4> SUFFICES ASSUME x = << >> PROVE FALSE
          OBVIOUS
        <4>1. cmd_buffer \in Seq(Int)
          BY <1>0, HeldIsText
        <4> HIDE DEF x
        <4>2. cmd_buffer \o x = cmd_buffer
          BY <4>1, ConcatEmptySeq
        <4> QED BY <2>2, <3>1, <4>2
      <3> QED BY <1>0, <2>1, <3>1, <3>2, <3>3, HeldAppend
    <2>3. CASE ~Fits(x) \/ cmd_buffer' = cmd_buffer
      <3>1. cmd_buffer' = cmd_buffer /\ queued' = queued
        BY <1>2, <2>3 DEF AddLine, Cbuf_AddText
      <3> QED BY <1>0, <3>1
    <2> QED BY <2>2, <2>3
  <1>3. ASSUME NEW line \in Script, NEW end \in Terminators, end # << >>, InsertLine(line, end)
        PROVE  Held(cmd_buffer', queued')
    <2>1. line \in AnyLine
      BY LinesAreLines
    <2> DEFINE x == TextOf(line) \o end
    <2>2. CASE Fits(x) /\ cmd_buffer' # cmd_buffer
      <3>1. cmd_buffer' = x \o cmd_buffer /\ queued' = <<line>> \o queued
        BY <1>3, <2>2 DEF InsertLine, Cbuf_InsertText
      <3>2. Len(cmd_buffer) + Len(x) < MAX_CMD_BUFFER
        BY <2>2 DEF Fits
      <3> QED BY <1>0, <1>3, <2>1, <3>1, <3>2, HeldPrepend
    <2>3. CASE ~Fits(x) \/ cmd_buffer' = cmd_buffer
      <3>1. cmd_buffer' = cmd_buffer /\ queued' = queued
        BY <1>3, <2>3 DEF InsertLine, Cbuf_InsertText
      <3> QED BY <1>0, <3>1
    <2> QED BY <2>2, <2>3
  <1>4. /\ <<NEWLINE>> \in Terminators /\ <<SEMI>> \in Terminators /\ << >> \in Terminators
        /\ <<NEWLINE>> # << >> /\ <<SEMI>> # << >>
    BY DEF Terminators
  <1>5. \/ Cbuf_Init
        \/ \E line \in Script :
              \/ \E end \in {<<NEWLINE>>, <<SEMI>>} : AddLine(line, end) \/ InsertLine(line, end)
              \/ AddLine(line, << >>)
    BY DEF Fills
  <1>6. CASE \E line \in Script :
                \/ \E end \in {<<NEWLINE>>, <<SEMI>>} : AddLine(line, end) \/ InsertLine(line, end)
                \/ AddLine(line, << >>)
    <2>1. PICK line \in Script :
                \/ \E end \in {<<NEWLINE>>, <<SEMI>>} : AddLine(line, end) \/ InsertLine(line, end)
                \/ AddLine(line, << >>)
      BY <1>6
    <2>2. CASE AddLine(line, << >>)
      BY <1>2, <1>4, <2>2
    <2>3. CASE \E end \in {<<NEWLINE>>, <<SEMI>>} : AddLine(line, end) \/ InsertLine(line, end)
      <3>1. PICK end \in {<<NEWLINE>>, <<SEMI>>} : AddLine(line, end) \/ InsertLine(line, end)
        BY <2>3
      <3>2. end \in Terminators /\ end # << >>
        BY <1>4
      <3> QED BY <1>2, <1>3, <3>1, <3>2
    <2> QED BY <2>1, <2>2, <2>3
  <1> QED BY <1>1, <1>5, <1>6

\* The invariant of the command buffer holds throughout.
THEOREM LineInvariant == LineSpec => []LineInv
  <1>1. LineInit => LineInv
    <2>1. << >> \in Seq(AnyLine)
      OBVIOUS
    <2> QED BY <2>1, HeldEmpty DEF LineInit, LineInv
  <1>2. LineInv /\ [LineNext]_cmdVars => LineInv'
    <2> SUFFICES ASSUME LineInv, [LineNext]_cmdVars PROVE LineInv'
      OBVIOUS
    <2>0. Held(cmd_buffer, queued) /\ asked \in Seq(AnyLine) /\ << >> \in Seq(AnyLine)
      BY DEF LineInv
    <2>1. CASE Executes
      <3>1. ASSUME NEW line \in Typed, ExecuteTyped(line) PROVE LineInv'
        <4>1. <<line>> \in Seq(AnyLine)
          BY LinesAreLines
        <4> QED BY <2>0, <3>1, <4>1 DEF ExecuteTyped, LineInv
      <3>2. ASSUME Cbuf_Execute PROVE LineInv'
        <4>1. queued \in Seq(AnyLine)
          BY <2>0 DEF Held
        <4> QED BY <3>2, <4>1, HeldEmpty DEF Cbuf_Execute, Cbuf_Init, LineInv
      <3> QED BY <2>1, <3>1, <3>2 DEF Executes
    <2>2. CASE Fills
      <3>1. asked' = << >>
        BY <2>2 DEF Fills, NothingRuns
      <3> QED BY <2>0, <2>2, <3>1, FillsKeepsHeld DEF LineInv
    <2>3. CASE Cmd_Init
      BY <2>0, <2>3, HeldEmpty DEF Cmd_Init, Cbuf_Init, NothingRuns, LineInv
    <2>4. CASE NothingRuns /\ UNCHANGED <<cmd_buffer, queued>>
      BY <2>0, <2>4 DEF NothingRuns, LineInv
    <2>5. CASE UNCHANGED cmdVars
      BY <2>0, <2>5 DEF cmdVars, lineVars, LineInv
    <2> QED BY <2>1, <2>2, <2>3, <2>4, <2>5 DEF LineNext
  <1> QED BY <1>1, <1>2, PTL DEF LineSpec

\* The command buffer never overruns, and its text is the lines that were added
\* and not refused, in order.
THEOREM BufferIsItsLines == LineSpec => []BufferHoldsLines
  <1>1. LineInv => BufferHoldsLines
    <2> SUFFICES ASSUME LineInv PROVE BufferHoldsLines
      OBVIOUS
    <2>1. Held(cmd_buffer, queued)
      BY DEF LineInv
    <2>2. PICK ends : EndsAre(queued, ends) /\ cmd_buffer = FlattenSeq(Ended(queued, ends))
      BY <2>1 DEF Held
    <2>3. DOMAIN queued = 1 .. Len(queued)
      BY <2>1, LenProperties DEF Held
    <2>4. ends \in [DOMAIN queued -> {<<NEWLINE>>, <<SEMI>>, << >>}]
      BY <2>2, <2>3, LenProperties DEF EndsAre, Terminators
    <2>5. cmd_buffer = FlattenSeq([k \in DOMAIN queued |-> TextOf(queued[k]) \o ends[k]])
      BY <2>2, <2>3 DEF Ended
    <2> QED BY <2>1, <2>4, <2>5 DEF Held, BufferHoldsLines
  <1> QED BY <1>1, LineInvariant, PTL

-----------------------------------------------------------------------------
(* Where the words of a line stand in its text. *)

\* The end of the k-th word and of the gap after it.
Past(line, k) == Len(Lead(line)) + EndOf(Pieces(line), k)

\* Behind the k-th word.
After(line, k) ==
    IF k = 0 THEN Len(Lead(line)) + 1
    ELSE Past(line, k - 1) + Len(ShownAt(line, k)) + 1

\* There the k-th word and the gap after it are.
Stands(line, k) ==
    LET s == ShownAt(line, k)
        g == IF k < Len(line.words) THEN line.gap ELSE << >>
        text == TextOf(line)
    IN  /\ Past(line, k) = Past(line, k - 1) + Len(s) + Len(g)
        /\ Len(s) \in Nat /\ Len(g) \in Nat
        /\ \A i \in 1 .. Len(s) : text[Past(line, k - 1) + i] = s[i]
        /\ \A i \in 1 .. Len(g) : text[Past(line, k - 1) + Len(s) + i] = g[i]

LEMMA TextAt ==
  ASSUME NEW line \in AnyLine
  PROVE  LET n == Len(line.words)
             text == TextOf(line)
         IN  /\ n \in Nat /\ text \in Seq(Letters) /\ Len(text) \in Nat
             /\ Past(line, 0) = Len(Lead(line)) /\ Past(line, n) = Len(text)
             /\ Len(Lead(line)) = IF line.slash THEN 1 ELSE 0
             /\ \A i \in 1 .. Len(Lead(line)) : text[i] = SLASH
             /\ \A k \in 0 .. n : Past(line, k) \in 0 .. Len(text)
             /\ \A k \in 1 .. n : Stands(line, k)
  <1> DEFINE n == Len(line.words)
             text == TextOf(line)
             f == Lead(line)
             p == Pieces(line)
             all == FlattenSeq(p)
  <1>1. /\ n \in Nat /\ line.words \in Seq(Words) /\ line.gap \in Gaps /\ line.slash \in BOOLEAN
        /\ p \in Seq(Seq(Letters)) /\ Len(p) = n /\ f \in Seq(Letters)
        /\ text \in Seq(Letters) /\ text = f \o all
    BY PiecesAreText, TextIsPieces, LenProperties DEF AnyLine
  <1>2. \A k \in 1 .. n : p[k] = Piece(line, k)
    BY DEF Pieces
  <1>3. f = IF line.slash THEN <<SLASH>> ELSE << >>
    BY DEF Lead
  <1> HIDE DEF text, f, p
  <1>4. all \in Seq(Letters) /\ Len(all) \in Nat /\ Len(f) \in Nat /\ Len(text) \in Nat
    BY <1>1, FlatSteps, LenProperties
  <1>5. /\ \A k \in 0 .. n : EndOf(p, k) \in 0 .. Len(all)
        /\ EndOf(p, 0) = 0 /\ EndOf(p, n) = Len(all)
        /\ \A k \in 1 .. n :
              /\ EndOf(p, k) = EndOf(p, k - 1) + Len(p[k])
              /\ \A i \in 1 .. Len(p[k]) : all[EndOf(p, k - 1) + i] = p[k][i]
    BY <1>1, FlattenAt
  <1> HIDE DEF all
  <1>6. /\ Len(text) = Len(f) + Len(all)
        /\ \A i \in 1 .. Len(f) + Len(all) : text[i] = IF i <= Len(f) THEN f[i] ELSE all[i - Len(f)]
    BY <1>1, <1>4, ConcatProperties
  <1>7. Len(f) = (IF line.slash THEN 1 ELSE 0) /\ \A i \in 1 .. Len(f) : f[i] = SLASH
    BY <1>1, <1>3
  <1>8. \A i \in 1 .. Len(f) : text[i] = SLASH
    BY <1>4, <1>6, <1>7
  <1>9. \A k \in 0 .. n : Past(line, k) = Len(f) + EndOf(p, k)
    BY DEF Past, f, p
  <1>10. /\ Past(line, 0) = Len(f) /\ Past(line, n) = Len(text)
         /\ \A k \in 0 .. n : Past(line, k) \in 0 .. Len(text)
    <2>1. 0 \in 0 .. n /\ n \in 0 .. n
      BY <1>1
    <2>2. Past(line, 0) = Len(f) + 0 /\ Past(line, n) = Len(f) + Len(all)
      BY <1>5, <1>9, <2>1
    <2>3. \A k \in 0 .. n : Len(f) + EndOf(p, k) \in 0 .. Len(f) + Len(all)
      BY <1>4, <1>5
    <2> QED BY <1>4, <1>6, <1>9, <2>2, <2>3
  <1>11. ASSUME NEW k \in 1 .. n PROVE Stands(line, k)
    <2> DEFINE s == ShownAt(line, k)
               g == IF k < n THEN line.gap ELSE << >>
    <2>1. s \in Seq(Letters) /\ g \in Seq(Letters) /\ Len(s) \in Nat /\ Len(g) \in Nat
      <3>1. s \in Seq(Letters) /\ g \in Seq(Letters)
        BY <1>1, PiecesAreText, WordsAreText
      <3> HIDE DEF s, g
      <3> QED BY <3>1, LenProperties
    <2>2. p[k] = s \o g
      BY <1>2, Zenon DEF Piece, n
    <2> HIDE DEF s, g
    <2>3. /\ Len(p[k]) = Len(s) + Len(g)
          /\ \A i \in 1 .. Len(s) + Len(g) : p[k][i] = IF i <= Len(s) THEN s[i] ELSE g[i - Len(s)]
      BY <2>1, <2>2, ConcatProperties
    <2> DEFINE b == EndOf(p, k - 1)
    <2>4. /\ k - 1 \in 0 .. n /\ k \in 0 .. n /\ b \in 0 .. Len(all)
          /\ b + Len(p[k]) \in 0 .. Len(all) /\ EndOf(p, k) = b + Len(p[k])
      <3>1. k - 1 \in 0 .. n /\ k \in 0 .. n
        BY <1>1
      <3> QED BY <1>5, <3>1
    <2>5. \A i \in 1 .. Len(p[k]) : all[b + i] = p[k][i]
      BY <1>5
    <2>6. Past(line, k - 1) = Len(f) + b /\ Past(line, k) = Len(f) + (b + Len(p[k]))
      BY <1>9, <2>4
    <2> HIDE DEF b
    <2>7. ASSUME NEW i \in 1 .. Len(s) + Len(g) PROVE text[(Len(f) + b) + i] = p[k][i]
      <3>1. /\ (Len(f) + b) + i \in 1 .. Len(f) + Len(all) /\ ~((Len(f) + b) + i <= Len(f))
            /\ ((Len(f) + b) + i) - Len(f) = b + i /\ i \in 1 .. Len(p[k])
        BY <1>4, <2>1, <2>3, <2>4
      <3> QED BY <1>6, <2>5, <3>1
    <2>8. ASSUME NEW i \in 1 .. Len(s) PROVE text[(Len(f) + b) + i] = s[i]
      <3>1. i \in 1 .. Len(s) + Len(g) /\ i <= Len(s)
        BY <2>1
      <3> QED BY <2>3, <2>7, <3>1
    <2>9. ASSUME NEW i \in 1 .. Len(g) PROVE text[(Len(f) + b) + Len(s) + i] = g[i]
      <3>1. /\ Len(s) + i \in 1 .. Len(s) + Len(g) /\ ~(Len(s) + i <= Len(s))
            /\ (Len(s) + i) - Len(s) = i
            /\ (Len(f) + b) + (Len(s) + i) = (Len(f) + b) + Len(s) + i
        BY <1>4, <2>1, <2>4
      <3>2. p[k][Len(s) + i] = g[i]
        BY <2>3, <3>1
      <3> QED BY <2>7, <3>1, <3>2
    <2>10. Past(line, k) = Past(line, k - 1) + Len(s) + Len(g)
      BY <1>4, <2>1, <2>3, <2>4, <2>6
    <2>11. /\ \A i \in 1 .. Len(s) : text[Past(line, k - 1) + i] = s[i]
           /\ \A i \in 1 .. Len(g) : text[Past(line, k - 1) + Len(s) + i] = g[i]
      BY <2>6, <2>8, <2>9
    <2> QED BY <2>1, <2>10, <2>11, Zenon DEF Stands, s, g, text, n
  <1> QED BY <1>1, <1>4, <1>7, <1>8, <1>10, <1>11 DEF text, f

LEMMA WordsAreShown ==
  ASSUME NEW w \in Words, NEW open \in BOOLEAN
  PROVE  /\ Len(w.text) \in Nat /\ w.text \in Seq(Int) /\ w.quoted \in BOOLEAN
         /\ w.quoted => /\ Len(Shown(w, open)) = Len(w.text) + IF open THEN 1 ELSE 2
                        /\ Shown(w, open)[1] = QUOTE
                        /\ ~open => Shown(w, open)[Len(w.text) + 2] = QUOTE
                        /\ \A i \in 1 .. Len(w.text) :
                              Shown(w, open)[i + 1] = w.text[i] /\ ~IsQuote(w.text[i])
         /\ ~w.quoted => /\ Shown(w, open) = w.text /\ Len(w.text) # 0
                         /\ \A i \in 1 .. Len(w.text) : ~IsBlank(w.text[i])
                         /\ ~IsQuote(w.text[1])
         /\ Len(Shown(w, open)) \in Nat \ {0} /\ Shown(w, open)[1] # SLASH /\ NotBlank(Shown(w, open)[1])
  <1> DEFINE t == w.text
  <1>1. /\ t \in Seq(Int) /\ Len(t) \in Nat /\ w.quoted \in BOOLEAN
        /\ (w.quoted \/ t \in Bare) /\ (~w.quoted \/ t \in Quoted)
        /\ DOMAIN t = 1 .. Len(t) /\ \A i \in 1 .. Len(t) : t[i] \in Int
    <2>1. t \in Bare \cup Quoted
      BY WordsAreText
    <2>2. t \in Seq(Int)
      BY <2>1, LineAssumption
    <2> QED BY <2>2, WordsAreText, LenProperties, ElementOfSeq
  <1>2. CASE w.quoted
    <2> DEFINE u == <<QUOTE>> \o t
               s == u \o <<QUOTE>>
    <2>1. /\ <<QUOTE>> \in Seq(Int) /\ Len(<<QUOTE>>) = 1 /\ <<QUOTE>>[1] = QUOTE /\ QUOTE \in Nat
      BY DEF QUOTE
    <2>2. /\ u \in Seq(Int) /\ Len(u) = Len(t) + 1 /\ u[1] = QUOTE
          /\ \A i \in 1 .. Len(t) : u[i + 1] = t[i]
      BY <1>1, <2>1, SeqPrepended
    <2> HIDE DEF u
    <2>3. /\ s \in Seq(Int) /\ Len(s) = Len(t) + 2
          /\ \A i \in 1 .. Len(t) + 2 : s[i] = IF i <= Len(t) + 1 THEN u[i] ELSE QUOTE
      <3>1. /\ s \in Seq(Int) /\ Len(s) = Len(u) + 1
            /\ \A i \in 1 .. Len(u) + 1 : s[i] = IF i <= Len(u) THEN u[i] ELSE <<QUOTE>>[i - Len(u)]
        BY <2>1, <2>2, ConcatProperties, SMTT(30)
      <3> HIDE DEF s
      <3>2. ASSUME NEW i \in 1 .. Len(t) + 2 PROVE s[i] = IF i <= Len(t) + 1 THEN u[i] ELSE QUOTE
        <4>1. i \in 1 .. Len(u) + 1 /\ (~(i <= Len(u)) => i - Len(u) = 1)
          BY <1>1, <2>2
        <4> QED BY <2>1, <2>2, <3>1, <4>1
      <3> QED BY <1>1, <2>2, <3>1, <3>2
    <2> HIDE DEF s
    <2>4. /\ ~open => Shown(w, open) = s
          /\ open => Shown(w, open) = u
      <3>1. ~open => Shown(w, open) = s
        BY <1>2 DEF Shown, s, u
      <3>2. open => Shown(w, open) = u \o << >>
        BY <1>2 DEF Shown, u
      <3>3. u \o << >> = u
        BY <2>2, ConcatEmptySeq
      <3> QED BY <3>1, <3>2, <3>3
    <2>5. s[1] = QUOTE /\ s[Len(t) + 2] = QUOTE
      <3>1. /\ 1 \in 1 .. Len(t) + 2 /\ 1 <= Len(t) + 1
            /\ Len(t) + 2 \in 1 .. Len(t) + 2 /\ ~(Len(t) + 2 <= Len(t) + 1)
        BY <1>1
      <3> QED BY <2>2, <2>3, <3>1
    <2>6. ASSUME NEW i \in 1 .. Len(t) PROVE s[i + 1] = t[i] /\ ~IsQuote(t[i])
      <3>1. i + 1 \in 1 .. Len(t) + 2 /\ i + 1 <= Len(t) + 1
        BY <1>1
      <3>2. t[i] # QUOTE
        BY <1>1, <1>2, LineAssumption
      <3> QED BY <2>2, <2>3, <3>1, <3>2 DEF IsQuote
    <2>7. QUOTE # SLASH /\ NotBlank(QUOTE)
      BY DEF QUOTE, SLASH, NotBlank, IsBlank, SPACE
    <2>8. CASE open
      <3>1. Shown(w, open) = u
        BY <2>4, <2>8
      <3>2. \A i \in 1 .. Len(t) : ~IsQuote(t[i])
        BY <2>6
      <3>3. Len(u) \in Nat \ {0}
        BY <1>1, <2>2
      <3> QED BY <1>1, <1>2, <2>2, <2>7, <2>8, <3>1, <3>2, <3>3
    <2>9. CASE ~open
      BY <1>1, <1>2, <2>3, <2>4, <2>5, <2>6, <2>7, <2>9
    <2> QED BY <2>8, <2>9
  <1>3. CASE ~w.quoted
    <2>1. /\ t # << >> /\ t[1] \notin {QUOTE, SLASH}
          /\ \A k \in DOMAIN t : t[k] > SPACE
      BY <1>1, <1>3, LineAssumption
    <2>2. Len(t) # 0 /\ 1 \in 1 .. Len(t)
      BY <1>1, <2>1, EmptySeq
    <2>3. \A i \in 1 .. Len(t) : ~IsBlank(t[i])
      <3> TAKE i \in 1 .. Len(t)
      <3>1. t[i] \in Int /\ t[i] > SPACE
        BY <1>1, <2>1
      <3> QED BY <3>1 DEF IsBlank, SPACE
    <2>4. Shown(w, open) = t
      BY <1>3 DEF Shown
    <2> QED BY <1>1, <1>3, <2>1, <2>2, <2>3, <2>4 DEF IsQuote, NotBlank
  <1> QED BY <1>2, <1>3

LEMMA GapsAreBlank ==
  ASSUME NEW g \in Gaps
  PROVE  Len(g) \in Nat \ {0} /\ \A i \in 1 .. Len(g) : IsBlank(g[i])
  <1>1. g \in Seq(Int) /\ g # << >> /\ \A k \in DOMAIN g : g[k] \in {TAB, SPACE}
    BY LineAssumption
  <1>2. Len(g) \in Nat \ {0} /\ DOMAIN g = 1 .. Len(g)
    BY <1>1, LenProperties, EmptySeq
  <1> QED BY <1>1, <1>2 DEF IsBlank, TAB, SPACE

LEMMA SubSeqIs ==
  ASSUME NEW text, NEW t \in Seq(Int), NEW b \in Nat,
         \A i \in 1 .. Len(t) : text[b + i] = t[i]
  PROVE  SubSeq(text, b + 1, b + Len(t)) = t
  <1>1. Len(t) \in Nat /\ \A i \in 1 .. Len(t) : t[i] \in Int
    BY LenProperties, ElementOfSeq
  <1> DEFINE m == b + 1
             n == b + Len(t)
  <1>2. ASSUME NEW j \in m .. n PROVE text[j] \in Int
    <2>1. j - b \in 1 .. Len(t) /\ b + (j - b) = j
      BY <1>1
    <2> QED BY <1>1, <2>1
  <1>3. /\ m \in Int /\ n \in Int /\ (IF m <= n THEN n - m + 1 ELSE 0) = Len(t) /\ n - m + 1 = Len(t)
        /\ \A i \in 1 .. Len(t) : m + i - 1 = b + i
    BY <1>1
  <1> HIDE DEF m, n
  <1>4. /\ SubSeq(text, m, n) \in Seq(Int)
        /\ Len(SubSeq(text, m, n)) = Len(t)
        /\ \A i \in 1 .. Len(t) : SubSeq(text, m, n)[i] = text[m + i - 1]
    BY <1>2, <1>3, SubSeqProperties
  <1>5. \A i \in 1 .. Len(t) : SubSeq(text, m, n)[i] = t[i]
    BY <1>3, <1>4
  <1>6. SubSeq(text, m, n) = t
    BY <1>4, <1>5, SeqEqual
  <1> QED BY <1>6 DEF m, n

\* At the place of a word the tokenizer reads that word.
LEMMA WordIsRead ==
  ASSUME NEW line \in AnyLine, NEW k \in 1 .. Len(line.words)
  PROVE  LET q == Past(line, k - 1) + 1
         IN  /\ q \in 1 .. Len(TextOf(line)) /\ NotBlank(TextOf(line)[q])
             /\ TextOf(line)[q] # SLASH
             /\ After(line, k) \in q + 1 .. Len(TextOf(line)) + 1
             /\ WordAt(TextOf(line), q) = [word |-> line.words[k].text, next |-> After(line, k)]
  <1> DEFINE n == Len(line.words)
             w == line.words[k]
             open == line.open /\ k = n
             s == Shown(w, open)
             t == w.text
             g == IF k < n THEN line.gap ELSE << >>
  <1>0. PICK text : text = TextOf(line)
    OBVIOUS
  <1>1. /\ n \in Nat /\ text \in Seq(Int) /\ Len(text) \in Nat
        /\ w \in Words /\ line.gap \in Gaps
        /\ Past(line, k - 1) \in 0 .. Len(text) /\ Past(line, k) \in 0 .. Len(text)
        /\ Past(line, n) = Len(text)
    <2>1. n \in Nat /\ text \in Seq(Letters) /\ w \in Words /\ line.gap \in Gaps
      BY <1>0, TextAt, PiecesAreText DEF AnyLine
    <2>2. text \in Seq(Int)
      BY <2>1, SeqWider DEF Letters
    <2>3. k - 1 \in 0 .. n /\ k \in 0 .. n
      BY <2>1
    <2> QED BY <1>0, <2>1, <2>2, <2>3, TextAt
  <1>2. /\ Past(line, k) = Past(line, k - 1) + Len(s) + Len(g)
        /\ \A i \in 1 .. Len(s) : text[Past(line, k - 1) + i] = s[i]
        /\ \A i \in 1 .. Len(g) : text[Past(line, k - 1) + Len(s) + i] = g[i]
    <2>1. Stands(line, k)
      BY TextAt
    <2> QED BY <1>0, <2>1, Zenon DEF Stands, ShownAt
  <1>3. /\ Len(t) \in Nat /\ t \in Seq(Int) /\ w.quoted \in BOOLEAN
        /\ Len(s) \in Nat \ {0} /\ s[1] # SLASH /\ NotBlank(s[1])
    <2>1. open \in BOOLEAN
      BY DEF AnyLine
    <2> HIDE DEF open
    <2> QED BY <1>1, <2>1, WordsAreShown
  <1>4. Len(g) \in Nat /\ (k < n => Len(g) # 0 /\ IsBlank(g[1])) /\ (~(k < n) => Len(g) = 0)
    <2>1. CASE k < n
      <3>1. g = line.gap
        BY <2>1
      <3> HIDE DEF g
      <3>2. 1 \in 1 .. Len(g) /\ Len(g) \in Nat \ {0}
        BY <1>1, <3>1, GapsAreBlank
      <3> QED BY <1>1, <2>1, <3>1, <3>2, GapsAreBlank
    <2>2. CASE ~(k < n)
      BY <2>2
    <2> QED BY <2>1, <2>2
  <1> DEFINE q == Past(line, k - 1) + 1
             a == q + Len(s)
  <1>5. After(line, k) = a
    BY <1>1, <1>3 DEF After, ShownAt
  <1>6. /\ \A i \in 1 .. Len(s) : text[q + (i - 1)] = s[i]
        /\ Len(g) # 0 => text[a] = g[1]
        /\ a + Len(g) = Past(line, k) + 1
    <2>1. PICK b : b = Past(line, k - 1)
      OBVIOUS
    <2>2. b \in Nat
      BY <1>1, <2>1
    <2>3. ASSUME NEW i \in 1 .. Len(s) PROVE text[q + (i - 1)] = s[i]
      <3>1. q + (i - 1) = b + i
        BY <1>3, <2>1, <2>2
      <3> QED BY <1>2, <2>1, <3>1
    <2>4. ASSUME Len(g) # 0 PROVE text[a] = g[1]
      <3>1. a = b + Len(s) + 1 /\ 1 \in 1 .. Len(g)
        BY <1>3, <1>4, <2>1, <2>2, <2>4
      <3> QED BY <1>2, <2>1, <3>1
    <2>5. a + Len(g) = Past(line, k) + 1
      BY <1>2, <1>3, <1>4, <2>1, <2>2
    <2> QED BY <2>3, <2>4, <2>5
  <1> HIDE DEF n, s, g, a
  <1>7. q \in 1 .. Len(text) /\ a \in q + 1 .. Len(text) + 1 /\ a = q + Len(s)
    <2>1. PICK b, c, l, m : /\ b = Past(line, k - 1) /\ c = Past(line, k)
                            /\ l = Len(s) /\ m = Len(g)
      OBVIOUS
    <2>2. /\ b \in Nat /\ c \in 0 .. Len(text) /\ Len(text) \in Nat
          /\ l \in Nat \ {0} /\ m \in Nat
      BY <1>1, <1>3, <1>4, <2>1
    <2>3. q = b + 1 /\ a = b + 1 + l /\ a + m = c + 1
      BY <1>6, <2>1 DEF a
    <2>4. q \in 1 .. Len(text) /\ a \in q + 1 .. Len(text) + 1 /\ a = q + l
      BY <2>2, <2>3
    <2> QED BY <2>1, <2>4
  <1> HIDE DEF q
  <1>8. a <= Len(text) => IsBlank(text[a])
    <2>1. CASE k < n
      BY <1>4, <1>6, <2>1
    <2>2. CASE ~(k < n)
      <3>1. k = n /\ Len(g) = 0
        BY <1>1, <1>4, <2>2 DEF n
      <3>2. a = Len(text) + 1
        <4>1. a + Len(g) = Past(line, n) + 1 /\ Past(line, n) = Len(text)
          BY <1>1, <1>6, <3>1
        <4> QED BY <1>7, <3>1, <4>1
      <3> QED BY <1>1, <3>2
    <2> QED BY <2>1, <2>2
  <1>9. text[q] = s[1]
    <2>1. 1 \in 1 .. Len(s) /\ q + (1 - 1) = q
      BY <1>3, <1>7
    <2> QED BY <1>6, <2>1
  <1>10. CASE w.quoted
    <2>1. /\ Len(s) = Len(t) + (IF open THEN 1 ELSE 2) /\ s[1] = QUOTE
          /\ ~open => s[Len(t) + 2] = QUOTE
          /\ \A i \in 1 .. Len(t) : s[i + 1] = t[i] /\ ~IsQuote(t[i])
          /\ open \in BOOLEAN
      <3>1. open \in BOOLEAN
        BY DEF AnyLine
      <3> HIDE DEF open
      <3> QED BY <1>1, <1>10, <3>1, WordsAreShown DEF s
    <2> DEFINE e == q + Len(t) + 1
    <2> HIDE DEF t, w
    <2>2. /\ e \in q + 1 .. Len(text) + 1 /\ q + 1 \in 1 .. Len(text) + 1
          /\ a = IF e <= Len(text) THEN e + 1 ELSE e
          /\ open <=> ~(e <= Len(text))
      <3>1. Len(text) \in Nat /\ Len(t) \in Nat
        BY <1>1, <1>3
      <3>2. /\ a = q + Len(s) /\ q \in 1 .. Len(text)
            /\ a \in q + 1 .. Len(text) + 1
        BY <1>7
      <3>3. CASE open
        <4>1. a = Len(text) + 1
          <5>1. k = n /\ Len(g) = 0
            BY <1>1, <1>4, <3>3 DEF n
          <5>2. a + Len(g) = Past(line, n) + 1 /\ Past(line, n) = Len(text)
            BY <1>1, <1>6, <5>1
          <5> QED BY <3>2, <5>1, <5>2
        <4>2. a = e
          BY <2>1, <3>1, <3>2, <3>3
        <4> QED BY <3>1, <3>2, <3>3, <4>1, <4>2
      <3>4. CASE ~open
        <4> HIDE DEF open
        <4>1. a = e + 1
          BY <2>1, <3>1, <3>2, <3>4
        <4> QED BY <3>1, <3>2, <3>4, <4>1
      <3> QED BY <3>3, <3>4
    <2> HIDE DEF open
    <2>3. e <= Len(text) => text[e] = QUOTE
      <3> SUFFICES ASSUME e <= Len(text) PROVE text[e] = QUOTE
        OBVIOUS
      <3>0. Len(s) = Len(t) + 2
        BY <2>1, <2>2
      <3>1. Len(t) + 2 \in 1 .. Len(s) /\ q + ((Len(t) + 2) - 1) = e
        BY <1>3, <1>7, <3>0
      <3> QED BY <1>6, <2>1, <2>2, <3>1
    <2>4. ASSUME NEW i \in 1 .. Len(t) PROVE text[q + i] = t[i] /\ ~IsQuote(text[q + i])
      <3>1. i + 1 \in 1 .. Len(s) /\ q + ((i + 1) - 1) = q + i
        BY <1>3, <1>7, <2>1
      <3>2. text[q + i] = s[i + 1]
        BY <1>6, <3>1
      <3> QED BY <2>1, <3>2
    <2>5. \A j \in q + 1 .. e - 1 : ~IsQuote(text[j])
      <3> TAKE j \in q + 1 .. e - 1
      <3>1. j - q \in 1 .. Len(t) /\ q + (j - q) = j
        BY <1>3, <1>7
      <3> QED BY <2>4, <3>1
    <2>6. FirstFrom(text, q + 1, IsQuote) = e
      <3> HIDE DEF e
      <3> QED BY <1>1, <2>2, <2>3, <2>5, FirstQuoteIs DEF IsQuote
    <2>7. SubSeq(text, q + 1, e - 1) = t
      <3>1. q \in Nat /\ q + Len(t) = e - 1
        BY <1>3, <1>7
      <3> HIDE DEF e
      <3>2. \A i \in 1 .. Len(t) : text[q + i] = t[i]
        BY <2>4
      <3>3. SubSeq(text, q + 1, q + Len(t)) = t
        BY <1>1, <1>3, <3>1, <3>2, SubSeqIs
      <3> QED BY <3>1, <3>3
    <2>8. IsQuote(text[q])
      BY <1>9, <2>1 DEF IsQuote
    <2>9. WordAt(text, q) = [word |-> t, next |-> a]
      <3> HIDE DEF e
      <3> QED BY <2>2, <2>6, <2>7, <2>8 DEF WordAt
    <2> QED BY <1>0, <1>3, <1>5, <1>7, <1>9, <2>9 DEF q, t, w
  <1>11. CASE ~w.quoted
    <2>1. /\ s = t /\ ~IsQuote(t[1]) /\ \A i \in 1 .. Len(t) : ~IsBlank(t[i])
      <3>1. open \in BOOLEAN
        BY DEF AnyLine
      <3> HIDE DEF open
      <3> QED BY <1>1, <1>11, <3>1, WordsAreShown DEF s
    <2> HIDE DEF t, w
    <2>2. ASSUME NEW i \in 1 .. Len(t) PROVE text[q + (i - 1)] = t[i]
      BY <1>6, <2>1
    <2>3. \A j \in q .. a - 1 : ~IsBlank(text[j])
      <3> TAKE j \in q .. a - 1
      <3>1. j - q + 1 \in 1 .. Len(t) /\ q + ((j - q + 1) - 1) = j
        BY <1>3, <1>7, <2>1
      <3> QED BY <2>1, <2>2, <3>1
    <2>4. FirstFrom(text, q, IsBlank) = a
      <3>1. q \in 1 .. Len(text) + 1 /\ a \in q .. Len(text) + 1
        <4>1. \A l \in Nat : \A i \in 1 .. l : \A j \in i + 1 .. l + 1 :
                 i \in 1 .. l + 1 /\ j \in i .. l + 1
          OBVIOUS
        <4>2. Len(text) \in Nat /\ q \in 1 .. Len(text) /\ a \in q + 1 .. Len(text) + 1
          BY <1>1, <1>7
        <4> QED BY <4>1, <4>2
      <3>2. a <= Len(text) => IsBlank(text[a])
        BY <1>8
      <3> HIDE DEF q, a
      <3> QED BY <1>1, <2>3, <3>1, <3>2, FirstBlankIs
    <2>5. SubSeq(text, q, a - 1) = t
      <3>1. PICK b \in Nat : q = b + 1 /\ b + Len(t) = a - 1
        <4>1. q - 1 \in Nat /\ q = (q - 1) + 1 /\ (q - 1) + Len(t) = a - 1
          BY <1>3, <1>7, <2>1
        <4> QED BY <4>1
      <3>2. ASSUME NEW i \in 1 .. Len(t) PROVE text[b + i] = t[i]
        <4>1. b + i = q + (i - 1)
          BY <3>1
        <4> QED BY <2>2, <4>1
      <3>3. SubSeq(text, b + 1, b + Len(t)) = t
        BY <1>1, <1>3, <3>2, SubSeqIs
      <3> QED BY <3>1, <3>3
    <2>6. ~IsQuote(text[q])
      BY <1>9, <2>1
    <2>7. WordAt(text, q) = [word |-> t, next |-> a]
      BY <2>4, <2>5, <2>6 DEF WordAt
    <2> QED BY <1>0, <1>3, <1>5, <1>7, <1>9, <2>7 DEF q, t, w
  <1> QED BY <1>3, <1>10, <1>11

\* From behind a word it goes on to the next, or to the end.
LEMMA NextWordIsFound ==
  ASSUME NEW line \in AnyLine, NEW k \in 0 .. Len(line.words)
  PROVE  /\ After(line, k) \in 1 .. Len(TextOf(line)) + 1
         /\ FirstFrom(TextOf(line), After(line, k), NotBlank) = Past(line, k) + 1
         /\ Past(line, k) + 1 > Len(TextOf(line)) <=> k = Len(line.words)
         /\ Start(TextOf(line)) = After(line, 0)
  <1> DEFINE n == Len(line.words)
  <1>0. PICK text, a, p : text = TextOf(line) /\ a = After(line, k) /\ p = Past(line, k)
    OBVIOUS
  <1>1. /\ n \in Nat /\ text \in Seq(Letters) /\ Len(text) \in Nat
        /\ p \in 0 .. Len(text) /\ (k = n => p = Len(text))
        /\ Past(line, 0) = Len(Lead(line)) /\ Len(Lead(line)) \in 0 .. Len(text)
    <2>1. n \in Nat /\ text \in Seq(Letters)
      BY <1>0, TextAt
    <2>2. 0 \in 0 .. n
      BY <2>1
    <2> QED BY <1>0, <2>1, <2>2, TextAt
  <1>2. k # n => p + 1 \in 1 .. Len(text) /\ NotBlank(text[p + 1])
    <2> SUFFICES ASSUME k # n PROVE p + 1 \in 1 .. Len(text) /\ NotBlank(text[p + 1])
      OBVIOUS
    <2>1. k + 1 \in 1 .. n /\ (k + 1) - 1 = k
      BY <1>1
    <2> QED BY <1>0, <2>1, WordIsRead
  <1>3. a \in 1 .. p + 1 /\ \A j \in a .. p : ~NotBlank(text[j])
    <2>1. CASE k = 0
      BY <1>0, <1>1, <2>1 DEF After
    <2>2. CASE k # 0
      <3>1. k \in 1 .. n /\ k - 1 \in 0 .. n
        BY <1>1, <2>2
      <3> DEFINE s == ShownAt(line, k)
                 g == IF k < n THEN line.gap ELSE << >>
      <3>2. PICK b : b = Past(line, k - 1)
        OBVIOUS
      <3>3. Stands(line, k) /\ b \in 0 .. Len(text)
        BY <1>0, <3>1, <3>2, TextAt
      <3>4. /\ p = b + Len(s) + Len(g) /\ Len(s) \in Nat /\ Len(g) \in Nat
            /\ \A i \in 1 .. Len(g) : text[b + Len(s) + i] = g[i]
        BY <1>0, <3>2, <3>3, Zenon DEF Stands
      <3>5. a = b + Len(s) + 1
        BY <1>0, <2>2, <3>2 DEF After
      <3>6. \A i \in 1 .. Len(g) : IsBlank(g[i])
        <4>1. CASE k < n
          <5>1. line.gap \in Gaps
            BY DEF AnyLine
          <5> QED BY <4>1, <5>1, GapsAreBlank
        <4>2. CASE ~(k < n)
          <5>1. g = << >>
            BY <4>2
          <5> HIDE DEF g
          <5>2. Len(g) = 0
            BY <5>1
          <5> QED BY <5>2
        <4> QED BY <4>1, <4>2
      <3> HIDE DEF s, g
      <3>7. a \in 1 .. p + 1
        BY <1>1, <3>3, <3>4, <3>5
      <3>8. ASSUME NEW j \in a .. p PROVE IsBlank(text[j])
        <4>1. j - (b + Len(s)) \in 1 .. Len(g) /\ b + Len(s) + (j - (b + Len(s))) = j
          BY <1>1, <3>3, <3>4, <3>5
        <4>2. text[j] = g[j - (b + Len(s))]
          BY <3>4, <4>1
        <4> QED BY <3>6, <4>1, <4>2
      <3> QED BY <3>7, <3>8 DEF NotBlank
    <2> QED BY <2>1, <2>2
  <1>4. FirstFrom(text, a, NotBlank) = p + 1
    <2>1. /\ a \in 1 .. Len(text) + 1 /\ p + 1 \in a .. Len(text) + 1 /\ (p + 1) - 1 = p
          /\ (p + 1 <= Len(text) => NotBlank(text[p + 1]))
      BY <1>1, <1>2, <1>3
    <2> QED BY <1>1, <1>3, <2>1, FirstNotBlankIs
  <1>5. a \in 1 .. Len(text) + 1 /\ (p + 1 > Len(text) <=> k = n)
    BY <1>1, <1>2, <1>3
  <1>6. Start(text) = After(line, 0)
    <2>1. After(line, 0) = Len(Lead(line)) + 1
      BY DEF After
    <2>2. Len(Lead(line)) = IF line.slash THEN 1 ELSE 0
      BY TextAt
    <2>3. CASE line.slash
      <3>1. 1 \in 1 .. Len(Lead(line)) /\ Len(text) # 0
        BY <1>1, <2>2, <2>3
      <3>2. text[1] = SLASH /\ text # << >>
        BY <1>0, <3>1, TextAt
      <3> QED BY <2>1, <2>2, <2>3, <3>2 DEF Start
    <2>4. CASE ~line.slash
      <3>1. Len(Lead(line)) = 0
        BY <2>2, <2>4
      <3>2. text # << >> => text[1] # SLASH
        <4>1. CASE n = 0
          <5>1. Len(text) = 0
            BY <1>0, <1>1, <3>1, <4>1, TextAt
          <5> QED BY <1>1, <5>1, EmptySeq
        <4>2. CASE n # 0
          <5>1. 1 \in 1 .. n /\ 1 - 1 = 0 /\ Past(line, 0) + 1 = 1
            BY <1>1, <3>1, <4>2
          <5> QED BY <1>0, <5>1, WordIsRead
        <4> QED BY <4>1, <4>2
      <3> QED BY <2>1, <3>1, <3>2 DEF Start
    <2> QED BY <2>3, <2>4
  <1> QED BY <1>0, <1>4, <1>5, <1>6

\* The first k words.
FirstWords(line, k) == [j \in 1 .. k |-> line.words[j].text]

LEMMA FirstWordsGrow ==
  ASSUME NEW line \in AnyLine
  PROVE  /\ \A k \in 0 .. Len(line.words) :
               FirstWords(line, k) \in Seq(Seq(Int)) /\ Len(FirstWords(line, k)) = k
         /\ \A k \in Nat : k + 1 \in 1 .. Len(line.words) =>
               Append(FirstWords(line, k), line.words[k + 1].text) = FirstWords(line, k + 1)
  <1> DEFINE n == Len(line.words)
  <1>1. n \in Nat /\ \A k \in 1 .. n : line.words[k].text \in Seq(Int)
    <2>1. n \in Nat
      BY TextAt
    <2>2. \A k \in 1 .. n : line.words[k] \in Words
      BY PiecesAreText
    <2> QED BY <2>1, <2>2, WordsAreShown
  <1>2. ASSUME NEW k \in 0 .. n
        PROVE  FirstWords(line, k) \in Seq(Seq(Int)) /\ Len(FirstWords(line, k)) = k
    <2>1. \A j \in 1 .. k : j \in 1 .. n
      BY <1>1
    <2>2. FirstWords(line, k) \in [1 .. k -> Seq(Int)]
      BY <1>1, <2>1 DEF FirstWords
    <2>3. k \in Nat
      BY <1>1
    <2> QED BY <2>2, <2>3, IsASequence
  <1>3. ASSUME NEW k \in Nat, k + 1 \in 1 .. n
        PROVE  Append(FirstWords(line, k), line.words[k + 1].text) = FirstWords(line, k + 1)
    <2> DEFINE u == FirstWords(line, k)
               v == FirstWords(line, k + 1)
               w == line.words[k + 1].text
    <2>1. k \in 0 .. n /\ k + 1 \in 0 .. n
      BY <1>1, <1>3
    <2>2. /\ u \in Seq(Seq(Int)) /\ Len(u) = k /\ v \in Seq(Seq(Int)) /\ Len(v) = k + 1
          /\ w \in Seq(Int)
      BY <1>1, <1>2, <1>3, <2>1
    <2>3. /\ \A j \in 1 .. k : u[j] = line.words[j].text
          /\ \A j \in 1 .. k + 1 : v[j] = line.words[j].text
      BY DEF FirstWords
    <2> HIDE DEF u, v
    <2>4. /\ Append(u, w) \in Seq(Seq(Int)) /\ Len(Append(u, w)) = k + 1
          /\ Append(u, w)[k + 1] = w /\ \A j \in 1 .. k : Append(u, w)[j] = u[j]
      BY <2>2, AppendProperties
    <2>5. ASSUME NEW j \in 1 .. k + 1 PROVE Append(u, w)[j] = v[j]
      <3>1. j = k + 1 \/ j \in 1 .. k
        OBVIOUS
      <3> QED BY <2>3, <2>4, <3>1
    <2>6. Append(u, w) = v
      BY <2>2, <2>4, <2>5, SeqEqual
    <2> QED BY <2>6 DEF u, v
  <1> QED BY <1>2, <1>3

\* The words of a line are those that were typed, as many as may be.
LEMMA WordsAreRead ==
  ASSUME NEW line \in AnyLine
  PROVE  Cmd_TokenizeString(TextOf(line)) =
             FirstWords(line, IF MAX_CMD_TOKENS <= Len(line.words) THEN MAX_CMD_TOKENS
                              ELSE Len(line.words))
  <1> DEFINE n == Len(line.words)
             text == TextOf(line)
             S == {k \in Nat : k <= MAX_CMD_TOKENS =>
                     LET m == IF k <= n THEN k ELSE n
                     IN  Scan(text)[k] = [pos |-> After(line, m), argv |-> FirstWords(line, m)]}
  <1>1. n \in Nat /\ MAX_CMD_TOKENS \in Nat /\ text \in Seq(Int)
    <2>1. n \in Nat /\ text \in Seq(Letters)
      BY TextAt
    <2> QED BY <2>1, LineAssumption, SeqWider DEF Letters
  <1>2. 0 \in S
    <2>1. 0 \in 0 .. n /\ 0 <= n
      BY <1>1
    <2>2. Start(text) = After(line, 0)
      BY <2>1, NextWordIsFound
    <2>3. FirstWords(line, 0) = << >>
      BY DEF FirstWords
    <2>4. Scan(text)[0] = [pos |-> Start(text), argv |-> << >>]
      BY <1>1, ScanSteps
    <2> QED BY <2>1, <2>2, <2>3, <2>4
  <1>3. ASSUME NEW k \in S PROVE k + 1 \in S
    <2> SUFFICES ASSUME k + 1 <= MAX_CMD_TOKENS
                 PROVE  LET m == IF k + 1 <= n THEN k + 1 ELSE n
                        IN  Scan(text)[k + 1] = [pos |-> After(line, m), argv |-> FirstWords(line, m)]
      OBVIOUS
    <2>1. k + 1 \in 1 .. MAX_CMD_TOKENS /\ (k + 1) - 1 = k /\ k <= MAX_CMD_TOKENS
      BY <1>1
    <2>2. PICK m : m = IF k <= n THEN k ELSE n
      OBVIOUS
    <2>3. m \in 0 .. n
      BY <1>1, <2>2
    <2>4. PICK s : s = [pos |-> After(line, m), argv |-> FirstWords(line, m)]
      OBVIOUS
    <2>5. Scan(text)[k] = s
      BY <2>1, <2>2, <2>4
    <2>6. Scan(text)[k + 1] = NextScan(text, s)
      <3>1. Scan(text)[k + 1] = NextScan(text, Scan(text)[(k + 1) - 1])
        BY <1>1, <2>1, ScanSteps
      <3> QED BY <2>1, <2>5, <3>1
    <2>7. FirstFrom(text, s.pos, NotBlank) = Past(line, m) + 1
      BY <2>3, <2>4, NextWordIsFound
    <2>8. NextScan(text, s) =
             IF Past(line, m) + 1 > Len(text) THEN s
             ELSE [pos |-> WordAt(text, Past(line, m) + 1).next,
                   argv |-> Append(s.argv, WordAt(text, Past(line, m) + 1).word)]
      BY <2>7 DEF NextScan
    <2>9. Past(line, m) + 1 > Len(text) <=> m = n
      BY <2>3, NextWordIsFound
    <2>10. CASE m = n
      <3>1. Scan(text)[k + 1] = s
        BY <2>6, <2>8, <2>9, <2>10
      <3>2. n = IF k + 1 <= n THEN k + 1 ELSE n
        BY <1>1, <2>2, <2>10
      <3> QED BY <2>4, <2>10, <3>1, <3>2
    <2>11. CASE m # n
      <3>1. m = k /\ k + 1 \in 1 .. n /\ k + 1 <= n
        BY <1>1, <2>2, <2>11
      <3>2. WordAt(text, Past(line, k) + 1) = [word |-> line.words[k + 1].text, next |-> After(line, k + 1)]
        BY <2>1, <3>1, WordIsRead
      <3>3. NextScan(text, s) =
              [pos |-> After(line, k + 1), argv |-> Append(FirstWords(line, k), line.words[k + 1].text)]
        <4>1. PICK w : w = WordAt(text, Past(line, k) + 1)
          OBVIOUS
        <4>2. w.next = After(line, k + 1) /\ w.word = line.words[k + 1].text
          BY <3>2, <4>1
        <4>3. s.argv = FirstWords(line, k)
          BY <2>4, <3>1
        <4>4. NextScan(text, s) = [pos |-> w.next, argv |-> Append(s.argv, w.word)]
          <5>1. ~(Past(line, m) + 1 > Len(text))
            BY <2>9, <2>11
          <5> HIDE DEF text
          <5> QED BY <2>8, <3>1, <4>1, <5>1
        <4> QED BY <4>2, <4>3, <4>4
      <3>4. Append(FirstWords(line, k), line.words[k + 1].text) = FirstWords(line, k + 1)
        BY FirstWordsGrow, <3>1
      <3> QED BY <2>6, <3>1, <3>3, <3>4
    <2> QED BY <2>10, <2>11
  <1>4. S = Nat
    <2> HIDE DEF S
    <2>1. S \subseteq Nat
      BY DEF S
    <2> QED BY <1>2, <1>3, <2>1, SetInduction
  <1>5. MAX_CMD_TOKENS \in S /\ MAX_CMD_TOKENS <= MAX_CMD_TOKENS
    <2> HIDE DEF S
    <2> QED BY <1>1, <1>4
  <1>6. PICK m : m = IF MAX_CMD_TOKENS <= n THEN MAX_CMD_TOKENS ELSE n
    OBVIOUS
  <1>7. Scan(text)[MAX_CMD_TOKENS] = [pos |-> After(line, m), argv |-> FirstWords(line, m)]
    BY <1>5, <1>6
  <1>8. Cmd_TokenizeString(text) = Scan(text)[MAX_CMD_TOKENS].argv
    BY <1>1, ScanSteps
  <1> QED BY <1>6, <1>7, <1>8

-----------------------------------------------------------------------------
(* The arguments as one text. *)

LEMMA CutIs ==
  ASSUME NEW S, NEW s \in Seq(S), NEW n \in Nat
  PROVE  /\ Cut(s, n) \in Seq(S)
         /\ Len(Cut(s, n)) = IF Len(s) <= n THEN Len(s) ELSE n
         /\ Len(Cut(s, n)) \in Nat
         /\ \A i \in 1 .. Len(Cut(s, n)) : Cut(s, n)[i] = s[i]
  <1>1. Len(s) \in Nat /\ \A i \in 1 .. Len(s) : s[i] \in S
    BY LenProperties, ElementOfSeq
  <1>2. CASE Len(s) <= n
    BY <1>1, <1>2 DEF Cut
  <1>3. CASE ~(Len(s) <= n)
    <2>1. /\ SubSeq(s, 1, n) \in Seq(S)
          /\ Len(SubSeq(s, 1, n)) = IF 1 <= n THEN n - 1 + 1 ELSE 0
          /\ \A i \in 1 .. n - 1 + 1 : SubSeq(s, 1, n)[i] = s[1 + i - 1]
      <3>1. \A i \in 1 .. n : s[i] \in S
        BY <1>1, <1>3
      <3> QED BY <3>1, SubSeqProperties
    <2>2. Len(SubSeq(s, 1, n)) = n
      BY <2>1
    <2>3. ASSUME NEW i \in 1 .. n PROVE SubSeq(s, 1, n)[i] = s[i]
      <3>1. i \in 1 .. n - 1 + 1 /\ 1 + i - 1 = i
        OBVIOUS
      <3> QED BY <2>1, <3>1
    <2>4. Cut(s, n) = SubSeq(s, 1, n)
      BY <1>3 DEF Cut
    <2> QED BY <1>3, <2>1, <2>2, <2>3, <2>4
  <1> QED BY <1>2, <1>3

\* What was cut off before would be cut off after.
LEMMA CutOnce ==
  ASSUME NEW S, NEW s \in Seq(S), NEW t \in Seq(S), NEW n \in Nat
  PROVE  Cut(Joined(Cut(s, n), t), n) = Cut(Joined(s, t), n)
  <1> DEFINE c == Cut(s, n)
             u == Joined(c, t)
             v == Joined(s, t)
  <1>1. /\ Len(s) \in Nat /\ Len(t) \in Nat /\ c \in Seq(S)
        /\ Len(c) = IF Len(s) <= n THEN Len(s) ELSE n
        /\ \A i \in 1 .. Len(c) : c[i] = s[i]
    BY CutIs, LenProperties
  <1> HIDE DEF c
  <1>2. /\ u \in Seq(S) /\ Len(u) = Len(c) + Len(t)
        /\ \A i \in 1 .. Len(c) + Len(t) : u[i] = IF i <= Len(c) THEN c[i] ELSE t[i - Len(c)]
    BY <1>1, ConcatProperties DEF Joined
  <1>3. /\ v \in Seq(S) /\ Len(v) = Len(s) + Len(t)
        /\ \A i \in 1 .. Len(s) + Len(t) : v[i] = IF i <= Len(s) THEN s[i] ELSE t[i - Len(s)]
    BY <1>1, ConcatProperties DEF Joined
  <1> HIDE DEF u, v
  <1>4. /\ Cut(u, n) \in Seq(S) /\ Len(Cut(u, n)) = IF Len(u) <= n THEN Len(u) ELSE n
        /\ \A i \in 1 .. Len(Cut(u, n)) : Cut(u, n)[i] = u[i]
    BY <1>2, CutIs
  <1>5. /\ Cut(v, n) \in Seq(S) /\ Len(Cut(v, n)) = IF Len(v) <= n THEN Len(v) ELSE n
        /\ \A i \in 1 .. Len(Cut(v, n)) : Cut(v, n)[i] = v[i]
    BY <1>3, CutIs
  <1>6. CASE Len(s) <= n
    <2>1. c = s
      BY <1>6 DEF c, Cut
    <2> QED BY <2>1 DEF c, u, v
  <1>7. CASE ~(Len(s) <= n)
    <2>1. Len(c) = n /\ Len(Cut(u, n)) = n /\ Len(Cut(v, n)) = n
      BY <1>1, <1>2, <1>3, <1>4, <1>5, <1>7
    <2>2. ASSUME NEW i \in 1 .. n PROVE Cut(u, n)[i] = Cut(v, n)[i]
      <3>1. i \in 1 .. Len(c) + Len(t) /\ i <= Len(c) /\ i \in 1 .. Len(s) + Len(t) /\ i <= Len(s)
            /\ i \in 1 .. Len(c)
        BY <1>1, <1>7, <2>1
      <3>2. u[i] = s[i] /\ v[i] = s[i]
        BY <1>1, <1>2, <1>3, <3>1
      <3> QED BY <1>4, <1>5, <2>1, <3>2
    <2>3. Cut(u, n) = Cut(v, n)
      BY <1>4, <1>5, <2>1, <2>2, SeqEqual
    <2> QED BY <2>3 DEF u, v, c
  <1> QED BY <1>6, <1>7

\* The words after the first, each but the first of them with a blank before.
Rest(argv) ==
    [k \in 1 .. Len(argv) - 1 |-> Joined(IF k > 1 THEN <<SPACE>> ELSE << >>, argv[k + 1])]

Room == MAX_CMD_LENGTH - 1

NextArgs(argv, k, before) ==
    Cut(Joined(IF k > 2 THEN Cut(Joined(before, <<SPACE>>), Room) ELSE << >>, argv[k]), Room)

IsArgs(f, argv) ==
    f = [k \in 1 .. Len(argv) |-> IF k = 1 THEN << >> ELSE NextArgs(argv, k, f[k - 1])]

ArgsTo(argv, k) == IF k = 1 THEN << >> ELSE Cut(Flat(Rest(argv))[k - 1], Room)

LEMMA ArgsAreJoined ==
  ASSUME NEW argv \in Seq(Seq(Int)), Len(argv) # 0
  PROVE  Cmd_Args(argv) = Cut(FlattenSeq(Rest(argv)), Room)
  <1> DEFINE n == Len(argv)
             r == Rest(argv)
  <1>1. n \in Nat \ {0} /\ Room \in Nat /\ \A k \in 1 .. n : argv[k] \in Seq(Int)
    BY LineAssumption, LenProperties, ElementOfSeq DEF Room
  <1>2. r \in Seq(Seq(Int)) /\ Len(r) = n - 1
        /\ \A k \in 1 .. n - 1 : r[k] = Joined(IF k > 1 THEN <<SPACE>> ELSE << >>, argv[k + 1])
    <2>1. n - 1 \in Nat
      BY <1>1
    <2>2. ASSUME NEW k \in 1 .. n - 1
          PROVE  Joined(IF k > 1 THEN <<SPACE>> ELSE << >>, argv[k + 1]) \in Seq(Int)
      <3>1. argv[k + 1] \in Seq(Int)
        BY <1>1
      <3>2. (IF k > 1 THEN <<SPACE>> ELSE << >>) \in Seq(Int)
        BY DEF SPACE
      <3> QED BY <3>1, <3>2, ConcatProperties DEF Joined
    <2>3. r \in [1 .. n - 1 -> Seq(Int)]
      BY <2>2 DEF Rest
    <2>4. \A k \in 1 .. n - 1 : r[k] = Joined(IF k > 1 THEN <<SPACE>> ELSE << >>, argv[k + 1])
      BY DEF Rest
    <2>5. r \in Seq(Seq(Int)) /\ Len(r) = n - 1
      <3> HIDE DEF r
      <3> QED BY <2>1, <2>3, IsASequence
    <2> QED BY <2>4, <2>5, Zenon
  <1> HIDE DEF r
  <1>3. /\ FlattenSeq(r) = IF n = 1 THEN << >> ELSE Flat(r)[n - 1]
        /\ n > 1 => Flat(r)[1] = r[1]
        /\ \A k \in 2 .. n - 1 : Flat(r)[k] = Joined(Flat(r)[k - 1], r[k])
        /\ \A k \in 1 .. n - 1 : Flat(r)[k] \in Seq(Int)
    <2>1. (Len(r) = 0 <=> r = << >>) /\ (r = << >> <=> n = 1)
      <3>1. Len(r) = 0 <=> n = 1
        BY <1>1, <1>2
      <3>2. Len(r) = 0 <=> r = << >>
        BY <1>2, EmptySeq, Zenon
      <3> QED BY <3>1, <3>2
    <2>2. /\ FlattenSeq(r) = IF r = << >> THEN << >> ELSE Flat(r)[Len(r)]
          /\ r # << >> => Flat(r)[1] = r[1]
          /\ \A k \in 2 .. Len(r) : Flat(r)[k] = Joined(Flat(r)[k - 1], r[k])
          /\ \A k \in 1 .. Len(r) : Flat(r)[k] \in Seq(Int)
      BY <1>2, FlatSteps, Zenon DEF Joined
    <2>3. n > 1 => r # << >>
      BY <1>1, <2>1
    <2> QED BY <1>2, <2>1, <2>2, <2>3, Zenon
  <1>4. ASSUME NEW k \in 2 .. n PROVE NextArgs(argv, k, ArgsTo(argv, k - 1)) = ArgsTo(argv, k)
    <2>0. ArgsTo(argv, k) = Cut(Flat(r)[k - 1], Room) /\ argv[k] \in Seq(Int)
      BY <1>1 DEF ArgsTo, r
    <2>1. CASE k = 2
      <3>1. 1 \in 1 .. n - 1 /\ n > 1
        BY <1>1, <2>1
      <3>2. Flat(r)[1] = Joined(<< >>, argv[2])
        BY <1>2, <1>3, <3>1
      <3> QED BY <2>0, <2>1, <3>2 DEF NextArgs
    <2>2. CASE k # 2
      <3>1. /\ k > 2 /\ k - 1 \in 2 .. n - 1 /\ k - 1 > 1 /\ (k - 1) + 1 = k
            /\ k - 1 # 1 /\ (k - 1) - 1 \in 1 .. n - 1
        BY <1>1, <2>2
      <3>2. PICK F, a : F = Flat(r)[(k - 1) - 1] /\ a = argv[k]
        OBVIOUS
      <3>3. F \in Seq(Int) /\ a \in Seq(Int) /\ <<SPACE>> \in Seq(Int) /\ Joined(F, <<SPACE>>) \in Seq(Int)
        <4>1. F \in Seq(Int) /\ a \in Seq(Int) /\ <<SPACE>> \in Seq(Int)
          BY <1>3, <2>0, <3>1, <3>2 DEF SPACE
        <4> QED BY <4>1, ConcatProperties DEF Joined
      <3>4. ArgsTo(argv, k - 1) = Cut(F, Room)
        BY <3>1, <3>2 DEF ArgsTo, r
      <3>5. NextArgs(argv, k, ArgsTo(argv, k - 1)) =
               Cut(Joined(Cut(Joined(Cut(F, Room), <<SPACE>>), Room), a), Room)
        BY <3>1, <3>2, <3>4 DEF NextArgs
      <3>6. Cut(Joined(Cut(F, Room), <<SPACE>>), Room) = Cut(Joined(F, <<SPACE>>), Room)
        BY <1>1, <3>3, CutOnce
      <3>7. Cut(Joined(Cut(Joined(F, <<SPACE>>), Room), a), Room)
               = Cut(Joined(Joined(F, <<SPACE>>), a), Room)
        BY <1>1, <3>3, CutOnce
      <3>8. Joined(Joined(F, <<SPACE>>), a) = Joined(F, Joined(<<SPACE>>, a))
        <4>1. PICK b : b = <<SPACE>>
          OBVIOUS
        <4>2. F \in Seq(Int) /\ a \in Seq(Int) /\ b \in Seq(Int)
          BY <3>3, <4>1
        <4>3. Joined(Joined(F, b), a) = Joined(F, Joined(b, a))
          BY <4>2, JoinedInAnyOrder
        <4> QED BY <4>1, <4>3
      <3>9. r[k - 1] = Joined(<<SPACE>>, a)
        <4>1. k - 1 \in 1 .. n - 1
          BY <3>1
        <4> QED BY <1>2, <3>1, <3>2, <4>1
      <3>10. Flat(r)[k - 1] = Joined(F, r[k - 1])
        BY <1>3, <3>1, <3>2
      <3> QED BY <2>0, <3>5, <3>6, <3>7, <3>8, <3>9, <3>10
    <2> QED BY <2>1, <2>2
  <1>5. PICK f : f = [k \in 1 .. n |-> ArgsTo(argv, k)]
    OBVIOUS
  <1>6. IsArgs(f, argv)
    <2>1. ASSUME NEW k \in 1 .. n
          PROVE  f[k] = IF k = 1 THEN << >> ELSE NextArgs(argv, k, f[k - 1])
      <3>1. CASE k = 1
        BY <1>5, <3>1 DEF ArgsTo
      <3>2. CASE k # 1
        <4>1. k \in 2 .. n /\ k - 1 \in 1 .. n
          BY <1>1, <3>2
        <4> QED BY <1>4, <1>5, <3>2, <4>1
      <3> QED BY <3>1, <3>2
    <2>2. PICK e : e = [k \in 1 .. n |-> IF k = 1 THEN << >> ELSE NextArgs(argv, k, f[k - 1])]
      OBVIOUS
    <2>3. e = [k \in 1 .. n |-> e[k]] /\ f = [k \in 1 .. n |-> f[k]]
      BY <1>5, <2>2
    <2>4. \A k \in 1 .. n : e[k] = f[k]
      BY <2>1, <2>2
    <2>5. f = e
      BY <2>3, <2>4
    <2> QED BY <2>2, <2>5 DEF IsArgs
  <1>7. PICK h : h = CHOOSE g : IsArgs(g, argv)
    OBVIOUS
  <1>8. h = [k \in 1 .. n |-> IF k = 1 THEN << >> ELSE NextArgs(argv, k, h[k - 1])]
    <2>1. IsArgs(h, argv)
      BY <1>6, <1>7
    <2> QED BY <2>1 DEF IsArgs
  <1> DEFINE T == {k \in Nat : k + 1 <= n => h[k + 1] = ArgsTo(argv, k + 1)}
  <1>9. 0 \in T
    BY <1>1, <1>8 DEF ArgsTo
  <1>10. ASSUME NEW k \in T PROVE k + 1 \in T
    <2> SUFFICES ASSUME (k + 1) + 1 <= n PROVE h[(k + 1) + 1] = ArgsTo(argv, (k + 1) + 1)
      OBVIOUS
    <2>1. /\ (k + 1) + 1 \in 2 .. n /\ (k + 1) + 1 \in 1 .. n /\ (k + 1) + 1 # 1
          /\ ((k + 1) + 1) - 1 = k + 1 /\ h[k + 1] = ArgsTo(argv, k + 1)
      BY <1>1
    <2>2. h[(k + 1) + 1] = NextArgs(argv, (k + 1) + 1, h[k + 1])
      BY <1>8, <2>1
    <2>3. NextArgs(argv, (k + 1) + 1, ArgsTo(argv, k + 1)) = ArgsTo(argv, (k + 1) + 1)
      BY <1>4, <2>1
    <2> QED BY <2>1, <2>2, <2>3
  <1>11. T = Nat
    <2> HIDE DEF T
    <2>1. T \subseteq Nat
      BY DEF T
    <2> QED BY <1>9, <1>10, <2>1, SetInduction
  <1>12. h[n] = ArgsTo(argv, n)
    <2>1. n - 1 \in Nat /\ (n - 1) + 1 = n
      BY <1>1
    <2>2. n - 1 \in T
      BY <1>11, <2>1
    <2> QED BY <2>1, <2>2
  <1>13. Cmd_Args(argv) = h[n]
    BY <1>7 DEF Cmd_Args, IsArgs, NextArgs, Joined, Room
  <1>14. ArgsTo(argv, n) = Cut(FlattenSeq(r), Room)
    <2>1. CASE n = 1
      <3>1. FlattenSeq(r) = << >>
        BY <1>3, <2>1
      <3>2. Cut(<< >>, Room) = << >>
        BY <1>1 DEF Cut
      <3> QED BY <2>1, <3>1, <3>2 DEF ArgsTo
    <2>2. CASE n # 1
      BY <1>3, <2>2 DEF ArgsTo, r
    <2> QED BY <2>1, <2>2
  <1> QED BY <1>12, <1>13, <1>14 DEF r

\* The arguments take less room than the words they come from.
LEMMA ArgsAreShorter ==
  ASSUME NEW argv \in Seq(Seq(Int)), Len(argv) # 0
  PROVE  /\ FlattenSeq(Rest(argv)) \in Seq(Int)
         /\ Len(FlattenSeq(Rest(argv))) < Len(Stored(argv))
  <1> DEFINE n == Len(argv)
             r == Rest(argv)
             w == [k \in DOMAIN argv |-> Append(argv[k], 0)]
  <1>1. /\ n \in Nat \ {0} /\ DOMAIN argv = 1 .. n
        /\ \A k \in 1 .. n : argv[k] \in Seq(Int) /\ Len(argv[k]) \in Nat
    BY LenProperties, ElementOfSeq
  <1>2. /\ r \in Seq(Seq(Int)) /\ Len(r) = n - 1
        /\ \A k \in 1 .. n - 1 : /\ Len(r[k]) \in Nat
                                 /\ Len(r[k]) = Len(argv[k + 1]) + IF k > 1 THEN 1 ELSE 0
    <2>1. ASSUME NEW k \in 1 .. n - 1
          PROVE  /\ r[k] \in Seq(Int)
                 /\ Len(r[k]) \in Nat
                 /\ Len(r[k]) = Len(argv[k + 1]) + IF k > 1 THEN 1 ELSE 0
      <3>1. argv[k + 1] \in Seq(Int) /\ Len(argv[k + 1]) \in Nat
        BY <1>1
      <3> DEFINE b == IF k > 1 THEN <<SPACE>> ELSE << >>
      <3>2. b \in Seq(Int) /\ Len(b) = IF k > 1 THEN 1 ELSE 0
        BY DEF SPACE
      <3>3. r[k] = b \o argv[k + 1]
        BY DEF Rest, Joined
      <3> HIDE DEF b, r
      <3>4. PICK x, y, a : x = b /\ y = argv[k + 1] /\ a = r[k]
        OBVIOUS
      <3>5. x \in Seq(Int) /\ y \in Seq(Int) /\ a = x \o y
        BY <3>1, <3>2, <3>3, <3>4
      <3>6. a \in Seq(Int) /\ Len(a) = Len(x) + Len(y)
        BY <3>5, ConcatProperties
      <3>7. Len(x) = IF k > 1 THEN 1 ELSE 0
        BY <3>2, <3>4
      <3>8. PICK i, l : i = (IF k > 1 THEN 1 ELSE 0) /\ l = Len(y)
        OBVIOUS
      <3>9. i \in Nat /\ l \in Nat /\ Len(a) = i + l
        BY <3>1, <3>4, <3>6, <3>7, <3>8
      <3>10. Len(a) = l + i /\ Len(a) \in Nat
        BY <3>9
      <3> QED BY <3>4, <3>6, <3>8, <3>10
    <2>2. r \in [1 .. n - 1 -> Seq(Int)]
      BY <2>1 DEF Rest
    <2>3. n - 1 \in Nat
      BY <1>1
    <2> HIDE DEF r
    <2>4. r \in Seq(Seq(Int)) /\ Len(r) = n - 1
      BY <2>2, <2>3, IsASequence
    <2> QED BY <2>1, <2>4
  <1>3. /\ w \in Seq(Seq(Int)) /\ Len(w) = n
        /\ \A k \in 1 .. n : Len(w[k]) = Len(argv[k]) + 1
    <2>1. ASSUME NEW k \in 1 .. n
          PROVE  Append(argv[k], 0) \in Seq(Int) /\ Len(Append(argv[k], 0)) = Len(argv[k]) + 1
      BY <1>1, AppendProperties
    <2>2. w \in [1 .. n -> Seq(Int)] /\ \A k \in 1 .. n : w[k] = Append(argv[k], 0)
      BY <1>1, <2>1
    <2> HIDE DEF w
    <2> QED BY <1>1, <2>1, <2>2, IsASequence
  <1> HIDE DEF n, r, w
  <1>4. /\ FlattenSeq(r) \in Seq(Int) /\ Len(FlattenSeq(r)) = EndOf(r, n - 1)
        /\ \A k \in 0 .. n - 1 : EndOf(r, k) \in Nat
        /\ EndOf(r, 0) = 0 /\ \A k \in 1 .. n - 1 : EndOf(r, k) = EndOf(r, k - 1) + Len(r[k])
    <2>1. FlattenSeq(r) \in Seq(Int)
      BY <1>2, FlatSteps
    <2>2. /\ \A k \in 0 .. n - 1 : EndOf(r, k) \in 0 .. Len(FlattenSeq(r))
          /\ EndOf(r, 0) = 0 /\ EndOf(r, n - 1) = Len(FlattenSeq(r))
          /\ \A k \in 1 .. n - 1 : EndOf(r, k) = EndOf(r, k - 1) + Len(r[k])
      BY <1>2, FlattenAt
    <2> QED BY <2>1, <2>2
  <1>5. /\ Len(Stored(argv)) = EndOf(w, n) /\ \A k \in 0 .. n : EndOf(w, k) \in Nat
        /\ EndOf(w, 0) = 0 /\ \A k \in 1 .. n : EndOf(w, k) = EndOf(w, k - 1) + Len(w[k])
    <2>1. Stored(argv) = FlattenSeq(w)
      BY DEF Stored, w
    <2>2. /\ \A k \in 0 .. n : EndOf(w, k) \in 0 .. Len(FlattenSeq(w))
          /\ EndOf(w, 0) = 0 /\ EndOf(w, n) = Len(FlattenSeq(w))
          /\ \A k \in 1 .. n : EndOf(w, k) = EndOf(w, k - 1) + Len(w[k])
      BY <1>3, FlattenAt
    <2> QED BY <2>1, <2>2
  <1> DEFINE T == {k \in Nat : k + 1 <= n => EndOf(r, k) < EndOf(w, k + 1)}
  <1>6. 0 \in T
    <2>1. 1 \in 1 .. n /\ 1 - 1 = 0
      BY <1>1
    <2>2. EndOf(w, 1) = 0 + (Len(argv[1]) + 1) /\ Len(argv[1]) \in Nat
      BY <1>1, <1>3, <1>5, <2>1
    <2> QED BY <1>4, <2>2
  <1>7. ASSUME NEW k \in T PROVE k + 1 \in T
    <2> SUFFICES ASSUME (k + 1) + 1 <= n PROVE EndOf(r, k + 1) < EndOf(w, (k + 1) + 1)
      OBVIOUS
    <2>1. /\ k + 1 \in 1 .. n - 1 /\ (k + 1) - 1 = k /\ k \in 0 .. n - 1
          /\ (k + 1) + 1 \in 1 .. n /\ ((k + 1) + 1) - 1 = k + 1 /\ k + 1 \in 0 .. n
      BY <1>1
    <2>2. PICK a, b, l, m : /\ a = EndOf(r, k) /\ b = EndOf(w, k + 1)
                            /\ l = Len(argv[(k + 1) + 1]) /\ m = Len(r[k + 1])
      OBVIOUS
    <2>3. a \in Nat /\ b \in Nat /\ l \in Nat /\ m \in Nat /\ a < b
      <3>1. a \in Nat /\ m \in Nat
        BY <1>2, <1>4, <2>1, <2>2
      <3>2. b \in Nat /\ l \in Nat
        BY <1>1, <1>5, <2>1, <2>2
      <3>3. k + 1 <= n
        BY <1>1
      <3>4. a < b
        BY <2>2, <3>3
      <3> QED BY <3>1, <3>2, <3>4
    <2>4. m = l + (IF k + 1 > 1 THEN 1 ELSE 0)
      BY <1>2, <2>1, <2>2
    <2>5. EndOf(r, k + 1) = a + m
      BY <1>4, <2>1, <2>2
    <2>6. EndOf(w, (k + 1) + 1) = b + (l + 1)
      BY <1>3, <1>5, <2>1, <2>2
    <2> QED BY <2>3, <2>4, <2>5, <2>6
  <1>8. T = Nat
    <2> HIDE DEF T
    <2>1. T \subseteq Nat
      BY DEF T
    <2> QED BY <1>6, <1>7, <2>1, SetInduction
  <1>9. n - 1 \in T /\ (n - 1) + 1 = n
    <2> HIDE DEF T
    <2> QED BY <1>1, <1>8
  <1>10. EndOf(r, n - 1) < EndOf(w, n)
    BY <1>1, <1>9
  <1> QED BY <1>4, <1>5, <1>10 DEF r

-----------------------------------------------------------------------------
(* The execution of a line. *)

LEMMA FindsNoOther ==
  ASSUME TableIInv, NEW w \in Bare \cup Quoted, w \notin Names
  PROVE  Cmd_FindCommand(w) = NULL
  <1> DEFINE chain == cmd_buckets[Bucket(w)]
  <1>1. Bucket(w) \in Buckets
    <2>1. HashString(w) \in Nat
      BY LineAssumption
    <2> QED BY <2>1, TableAssumption DEF Bucket, Buckets
  <1>2. chain \in Seq(Cmd) /\ DOMAIN chain = 1 .. Len(chain)
    BY <1>1, LenProperties DEF TableIInv, TableTypeOK
  <1>3. \A k \in 1 .. Len(chain) : chain[k].name \in Names
    <2>1. \A k \in 1 .. Len(chain) : chain[k] \in Cmd
      BY <1>2, ElementOfSeq
    <2> QED BY <2>1 DEF Cmd
  <1>4. Hits(chain, w) = {}
    BY <1>2, <1>3 DEF Hits
  <1> QED BY <1>4 DEF Cmd_FindCommand

\* What a line of such words calls.
Runs(reg, words, argv) ==
    IF words = << >> THEN << >>
    ELSE <<[func |-> IF words[1] \in Names THEN reg[words[1]] ELSE NULL,
            argv |-> argv, args |-> FlattenSeq(Rest(argv))]>>

Wanted(reg, line) ==
    Runs(reg, [k \in DOMAIN line.words |-> line.words[k].text],
         Cut([k \in DOMAIN line.words |-> line.words[k].text], MAX_CMD_TOKENS))

LEMMA ExecutesAsExpected ==
  ASSUME TableIInv, NEW line \in AnyLine, ~Overruns(TextOf(line))
  PROVE  Cmd_ExecuteString(TextOf(line)) = Expected(line)
  <1> DEFINE n == Len(line.words)
             m == IF MAX_CMD_TOKENS <= n THEN MAX_CMD_TOKENS ELSE n
             words == FirstWords(line, n)
             argv == FirstWords(line, m)
  <1>1. /\ n \in Nat /\ MAX_CMD_TOKENS \in Nat \ {0} /\ m \in 0 .. n /\ n \in 0 .. n
        /\ line.words \in Seq(Words) /\ DOMAIN line.words = 1 .. n
        /\ \A k \in 1 .. n : line.words[k].text \in Bare \cup Quoted
    <2>1. n \in Nat /\ line.words \in Seq(Words)
      BY TextAt DEF AnyLine
    <2>2. \A k \in 1 .. n : line.words[k] \in Words
      BY PiecesAreText
    <2>3. \A k \in 1 .. n : line.words[k].text \in Bare \cup Quoted
      BY <2>2, WordsAreText
    <2>4. MAX_CMD_TOKENS \in Nat \ {0}
      BY LineAssumption
    <2>5. m \in 0 .. n /\ n \in 0 .. n
      BY <2>1, <2>4
    <2> HIDE DEF m
    <2> QED BY <2>1, <2>3, <2>4, <2>5, LenProperties
  <1>2. Cmd_TokenizeString(TextOf(line)) = argv
    BY WordsAreRead
  <1>3. /\ words \in Seq(Seq(Int)) /\ Len(words) = n
        /\ argv \in Seq(Seq(Int)) /\ Len(argv) = m
    <2> HIDE DEF m
    <2> QED BY <1>1, FirstWordsGrow
  <1>4. /\ \A k \in 1 .. n : words[k] = line.words[k].text
        /\ \A k \in 1 .. m : argv[k] = line.words[k].text
    BY DEF FirstWords
  <1>5. words = [k \in DOMAIN line.words |-> line.words[k].text]
    BY <1>1 DEF FirstWords
  <1>6. Cut(words, MAX_CMD_TOKENS) = argv
    <2>1. /\ Cut(words, MAX_CMD_TOKENS) \in Seq(Seq(Int)) /\ Len(Cut(words, MAX_CMD_TOKENS)) = m
          /\ \A k \in 1 .. m : Cut(words, MAX_CMD_TOKENS)[k] = words[k]
      <3> HIDE DEF words, argv
      <3>1. /\ Cut(words, MAX_CMD_TOKENS) \in Seq(Seq(Int))
            /\ Len(Cut(words, MAX_CMD_TOKENS)) = IF Len(words) <= MAX_CMD_TOKENS THEN Len(words)
                                                 ELSE MAX_CMD_TOKENS
            /\ \A i \in 1 .. Len(Cut(words, MAX_CMD_TOKENS)) : Cut(words, MAX_CMD_TOKENS)[i] = words[i]
        <4>1. MAX_CMD_TOKENS \in Nat
          BY <1>1
        <4> QED BY <1>3, <4>1, CutIs
      <3>2. Len(Cut(words, MAX_CMD_TOKENS)) = m
        BY <1>1, <1>3, <3>1
      <3> QED BY <3>1, <3>2
    <2> HIDE DEF words, argv
    <2>2. \A k \in 1 .. m : k \in 1 .. n
      BY <1>1
    <2> HIDE DEF m
    <2>3. \A k \in 1 .. m : Cut(words, MAX_CMD_TOKENS)[k] = argv[k]
      BY <1>4, <2>1, <2>2
    <2> QED BY <1>3, <2>1, <2>3, SeqEqual
  <1>7. /\ words = << >> <=> n = 0
        /\ argv = << >> <=> n = 0
    <2>1. m = 0 <=> n = 0
      BY <1>1
    <2> HIDE DEF words, argv, m
    <2> QED BY <1>3, <2>1, EmptySeq
  <1> HIDE DEF words, argv, m
  <1>8. CASE n = 0
    <2>1. Cmd_ExecuteString(TextOf(line)) = << >>
      BY <1>2, <1>7, <1>8 DEF Cmd_ExecuteString
    <2>2. Expected(line) = << >>
      BY <1>5, <1>7, <1>8 DEF Expected
    <2> QED BY <2>1, <2>2
  <1>9. CASE n # 0
    <2>1. 1 \in 1 .. n /\ 1 \in 1 .. m /\ m # 0
      BY <1>1, <1>9 DEF m
    <2>2. PICK w : w = argv[1]
      OBVIOUS
    <2>3. w = words[1] /\ w \in Bare \cup Quoted
      BY <1>1, <1>4, <2>1, <2>2
    <2>4. Cmd_FindCommand(w) = IF w \in Names THEN registered[w] ELSE NULL
      <3>1. CASE w \in Names
        <4>1. /\ registered[w] \in Funcs \cup {NULL} /\ cmd_buckets[Bucket(w)] \in Seq(Cmd)
              /\ Single(cmd_buckets[Bucket(w)]) /\ Holds(cmd_buckets[Bucket(w)], w, registered[w])
          BY <3>1, BucketInRange DEF TableIInv, TableTypeOK
        <4> QED BY <3>1, <4>1, FindFinds
      <3>2. CASE w \notin Names
        BY <2>3, <3>2, FindsNoOther
      <3> QED BY <3>1, <3>2
    <2>5. Cmd_Args(argv) = FlattenSeq(Rest(argv))
      <3>1. Cmd_Args(argv) = Cut(FlattenSeq(Rest(argv)), Room)
        BY <1>3, <2>1, ArgsAreJoined
      <3>2. /\ FlattenSeq(Rest(argv)) \in Seq(Int)
            /\ Len(FlattenSeq(Rest(argv))) < Len(Stored(argv))
        BY <1>3, <2>1, ArgsAreShorter
      <3>3. ~(Len(Stored(argv)) > MAX_CMD_LENGTH)
        BY <1>2 DEF Overruns
      <3>4. Len(Stored(argv)) \in Nat
        <4>1. << >> \in Seq(Int)
          OBVIOUS
        <4> QED BY <1>3, <4>1, StoredGrows
      <3>5. PICK a, b : a = Len(FlattenSeq(Rest(argv))) /\ b = Len(Stored(argv))
        OBVIOUS
      <3>6. a \in Nat /\ b \in Nat /\ a < b /\ ~(b > MAX_CMD_LENGTH)
        BY <3>2, <3>3, <3>4, <3>5, LenProperties
      <3>7. a <= Room
        BY <3>6, LineAssumption DEF Room
      <3> QED BY <3>1, <3>5, <3>7 DEF Cut
    <2>6. Cmd_ExecuteString(TextOf(line)) =
             <<[func |-> Cmd_FindCommand(w), argv |-> argv, args |-> Cmd_Args(argv)]>>
      BY <1>2, <1>7, <1>9, <2>2 DEF Cmd_ExecuteString, Call
    <2>7. Expected(line) =
             <<[func |-> IF words[1] \in Names THEN registered[words[1]] ELSE NULL,
                argv |-> argv, args |-> FlattenSeq(Rest(argv))]>>
      <3>1. Expected(line) = Wanted(registered, line)
        BY Zenon DEF Expected, Wanted, Runs, Rest, Joined
      <3>2. Expected(line) = Runs(registered, words, argv)
        BY <1>5, <1>6, <3>1 DEF Wanted
      <3> QED BY <1>7, <1>9, <3>2 DEF Runs
    <2> QED BY <2>3, <2>4, <2>5, <2>6, <2>7
  <1> QED BY <1>8, <1>9

-----------------------------------------------------------------------------
(* The buffer is cut into the lines it was filled with. *)

ReadOne(b, s, k) ==
    IF Ends(b[k]) THEN [line |-> << >>, lines |-> Append(s.lines, s.line)]
    ELSE [s EXCEPT !.line = Append(@, b[k])]

IsReads(f, b) ==
    f = [k \in 0 .. Len(b) |->
            IF k = 0 THEN [line |-> << >>, lines |-> << >>] ELSE ReadOne(b, f[k - 1], k)]

Reads(b) == CHOOSE f : IsReads(f, b)

LEMMA ReadSteps ==
  ASSUME NEW b \in Seq(Int)
  PROVE  /\ Reads(b)[0] = [line |-> << >>, lines |-> << >>]
         /\ \A k \in 1 .. Len(b) : Reads(b)[k] = ReadOne(b, Reads(b)[k - 1], k)
  <1> DEFINE n == Len(b)
             X == [line : Seq(Int), lines : Seq(Seq(Int))]
             base == [line |-> << >>, lines |-> << >>]
  <1>1. n \in Nat /\ \A k \in 1 .. n : b[k] \in Int
    BY LenProperties, ElementOfSeq
  <1>2. base \in X
    <2>1. << >> \in Seq(Int) /\ << >> \in Seq(Seq(Int))
      OBVIOUS
    <2> QED BY <2>1
  <1>3. ASSUME NEW s \in X, NEW k \in 1 .. n PROVE ReadOne(b, s, k) \in X
    <2>1. Append(s.lines, s.line) \in Seq(Seq(Int)) /\ Append(s.line, b[k]) \in Seq(Int)
      BY <1>1, AppendProperties
    <2>2. << >> \in Seq(Int)
      OBVIOUS
    <2> QED BY <2>1, <2>2 DEF ReadOne
  <1> HIDE DEF n, X, base
  <1>4. PICK G : G = [k \in 1 .. n |-> [s \in X |-> ReadOne(b, s, k)]]
    OBVIOUS
  <1>5. G \in [1 .. n -> [X -> X]]
    BY <1>3, <1>4
  <1>6. \A k \in 1 .. n, s \in X : G[k][s] = ReadOne(b, s, k)
    BY <1>4
  <1>7. PICK f \in [0 .. n -> X] : f[0] = base /\ \A k \in 1 .. n : f[k] = G[k][f[k - 1]]
    <2>1. Recurs(X, base, n, G)
      BY <1>1, <1>2, <1>5, Recursion
    <2> QED BY <2>1 DEF Recurs
  <1>8. IsReads(f, b)
    <2>1. ASSUME NEW k \in 0 .. n PROVE f[k] = IF k = 0 THEN base ELSE ReadOne(b, f[k - 1], k)
      <3>1. CASE k # 0
        <4>1. k \in 1 .. n /\ k - 1 \in 0 .. n
          BY <1>1, <3>1
        <4> QED BY <1>6, <1>7, <3>1, <4>1
      <3> QED BY <1>7, <3>1
    <2>2. PICK e : e = [k \in 0 .. n |-> IF k = 0 THEN base ELSE ReadOne(b, f[k - 1], k)]
      OBVIOUS
    <2>3. e = [k \in 0 .. n |-> e[k]] /\ f = [k \in 0 .. n |-> f[k]]
      BY <2>2
    <2>4. \A k \in 0 .. n : e[k] = f[k]
      BY <2>1, <2>2
    <2>5. f = e
      BY <2>3, <2>4
    <2> QED BY <2>2, <2>5 DEF IsReads, n, base
  <1>9. PICK h : h = Reads(b)
    OBVIOUS
  <1>10. h = [k \in 0 .. n |-> IF k = 0 THEN base ELSE ReadOne(b, h[k - 1], k)]
    <2>1. IsReads(h, b)
      BY <1>8, <1>9 DEF Reads
    <2> QED BY <2>1 DEF IsReads, n, base
  <1>11. h[0] = base /\ \A k \in 1 .. n : h[k] = ReadOne(b, h[k - 1], k)
    <2>1. 0 \in 0 .. n /\ \A k \in 1 .. n : k \in 0 .. n /\ k # 0
      BY <1>1
    <2> QED BY <1>10, <2>1
  <1> QED BY <1>9, <1>11 DEF n, base

LEMMA CutGrows ==
  ASSUME NEW S, NEW t \in Seq(S)
  PROVE  /\ Cut(t, 0) = << >> /\ Cut(t, Len(t)) = t
         /\ \A j \in Nat : j + 1 <= Len(t) => Append(Cut(t, j), t[j + 1]) = Cut(t, j + 1)
  <1>1. Len(t) \in Nat /\ \A i \in 1 .. Len(t) : t[i] \in S
    BY LenProperties, ElementOfSeq
  <1>2. Cut(t, 0) = << >>
    <2>1. Cut(t, 0) \in Seq(S) /\ Len(Cut(t, 0)) = IF Len(t) <= 0 THEN Len(t) ELSE 0
      BY CutIs
    <2>2. Len(Cut(t, 0)) = 0
      BY <1>1, <2>1
    <2> QED BY <2>1, <2>2, EmptySeq
  <1>3. Cut(t, Len(t)) = t
    BY <1>1 DEF Cut
  <1>4. ASSUME NEW j \in Nat, j + 1 <= Len(t)
        PROVE  Append(Cut(t, j), t[j + 1]) = Cut(t, j + 1)
    <2> DEFINE u == Cut(t, j)
               v == Cut(t, j + 1)
    <2>1. /\ u \in Seq(S) /\ Len(u) = j /\ \A i \in 1 .. j : u[i] = t[i]
      <3>1. ~(Len(t) <= j)
        BY <1>1, <1>4
      <3> QED BY <3>1, CutIs
    <2>2. /\ v \in Seq(S) /\ Len(v) = j + 1 /\ \A i \in 1 .. j + 1 : v[i] = t[i]
      <3>1. j + 1 \in Nat /\ (Len(t) <= j + 1 => Len(t) = j + 1)
        BY <1>1, <1>4
      <3> QED BY <3>1, CutIs
    <2> HIDE DEF u, v
    <2>3. /\ Append(u, t[j + 1]) \in Seq(S) /\ Len(Append(u, t[j + 1])) = j + 1
          /\ Append(u, t[j + 1])[j + 1] = t[j + 1]
          /\ \A i \in 1 .. j : Append(u, t[j + 1])[i] = u[i]
      BY <1>1, <1>4, <2>1, AppendProperties
    <2>4. ASSUME NEW i \in 1 .. j + 1 PROVE Append(u, t[j + 1])[i] = v[i]
      <3>1. i = j + 1 \/ i \in 1 .. j
        OBVIOUS
      <3> QED BY <2>1, <2>2, <2>3, <3>1
    <2>5. Append(u, t[j + 1]) = v
      BY <2>2, <2>3, <2>4, SeqEqual
    <2> QED BY <2>5 DEF u, v
  <1> QED BY <1>2, <1>3, <1>4

ReadsTo(b, p, line, lines) == Reads(b)[p] = [line |-> line, lines |-> lines]

\* A line's text is read as it is.
LEMMA LineIsReadOn ==
  ASSUME NEW b \in Seq(Int), NEW t \in Seq(Letters), NEW p \in Nat, p + Len(t) <= Len(b),
         \A i \in 1 .. Len(t) : b[p + i] = t[i],
         NEW lines, Reads(b)[p] = [line |-> << >>, lines |-> lines]
  PROVE  ReadsTo(b, p + Len(t), t, lines)
  <1> DEFINE l == Len(t)
             S == {j \in Nat : j <= l => Reads(b)[p + j] = [line |-> Cut(t, j), lines |-> lines]}
  <1>1. l \in Nat /\ Len(b) \in Nat /\ \A i \in 1 .. l : t[i] \in Letters
    BY LenProperties, ElementOfSeq
  <1>2. 0 \in S
    BY CutGrows
  <1>3. ASSUME NEW j \in S PROVE j + 1 \in S
    <2> SUFFICES ASSUME j + 1 <= l
                 PROVE  Reads(b)[p + (j + 1)] = [line |-> Cut(t, j + 1), lines |-> lines]
      OBVIOUS
    <2>1. /\ p + (j + 1) \in 1 .. Len(b) /\ (p + (j + 1)) - 1 = p + j /\ j + 1 \in 1 .. l
          /\ j <= l
      BY <1>1, SMTT(30)
    <2>2. PICK s, k : s = Reads(b)[p + j] /\ k = p + (j + 1)
      OBVIOUS
    <2>3. Reads(b)[k] = ReadOne(b, s, k)
      BY <2>1, <2>2, ReadSteps
    <2>4. s = [line |-> Cut(t, j), lines |-> lines]
      BY <2>1, <2>2
    <2>5. b[k] = t[j + 1] /\ ~Ends(b[k])
      BY <1>1, <2>1, <2>2 DEF Letters
    <2>6. ReadOne(b, s, k) = [line |-> Append(Cut(t, j), t[j + 1]), lines |-> lines]
      BY <2>4, <2>5 DEF ReadOne
    <2>7. Append(Cut(t, j), t[j + 1]) = Cut(t, j + 1)
      BY CutGrows
    <2> QED BY <2>2, <2>3, <2>6, <2>7
  <1>4. S = Nat
    <2> HIDE DEF S
    <2>1. S \subseteq Nat
      BY DEF S
    <2> QED BY <1>2, <1>3, <2>1, SetInduction
  <1>5. l \in S
    <2> HIDE DEF S
    <2> QED BY <1>1, <1>4
  <1>6. Reads(b)[p + l] = [line |-> Cut(t, l), lines |-> lines]
    BY <1>1, <1>5
  <1> QED BY <1>6, CutGrows DEF ReadsTo

Texts(lines, k) == [j \in 1 .. k |-> TextOf(lines[j])]

LEMMA TextsGrow ==
  ASSUME NEW lines \in Seq(AnyLine), NEW k \in 1 .. Len(lines)
  PROVE  Append(Texts(lines, k - 1), TextOf(lines[k])) = Texts(lines, k)
  <1> DEFINE u == Texts(lines, k - 1)
             v == Texts(lines, k)
             t == TextOf(lines[k])
  <1>1. /\ Len(lines) \in Nat /\ k \in Nat /\ k - 1 \in Nat
        /\ \A j \in 1 .. Len(lines) : TextOf(lines[j]) \in Seq(Letters)
    <2>1. \A j \in 1 .. Len(lines) : lines[j] \in AnyLine
      BY LenProperties, ElementOfSeq
    <2> QED BY <2>1, PiecesAreText, LenProperties, SMTT(30)
  <1>2. /\ u \in Seq(Seq(Letters)) /\ Len(u) = k - 1
        /\ \A j \in 1 .. k - 1 : u[j] = TextOf(lines[j])
    <2>1. u \in [1 .. k - 1 -> Seq(Letters)]
      BY <1>1 DEF Texts
    <2> QED BY <1>1, <2>1, IsASequence DEF Texts
  <1>3. /\ v \in Seq(Seq(Letters)) /\ Len(v) = k
        /\ \A j \in 1 .. k : v[j] = TextOf(lines[j])
    <2>1. v \in [1 .. k -> Seq(Letters)]
      BY <1>1 DEF Texts
    <2> QED BY <1>1, <2>1, IsASequence DEF Texts
  <1> HIDE DEF u, v
  <1>4. /\ Append(u, t) \in Seq(Seq(Letters)) /\ Len(Append(u, t)) = k
        /\ Append(u, t)[k] = t /\ \A j \in 1 .. k - 1 : Append(u, t)[j] = u[j]
    <2>1. t \in Seq(Letters) /\ (k - 1) + 1 = k
      BY <1>1
    <2> HIDE DEF t
    <2>2. /\ Append(u, t) \in Seq(Seq(Letters)) /\ Len(Append(u, t)) = Len(u) + 1
          /\ Append(u, t)[Len(u) + 1] = t /\ \A j \in 1 .. Len(u) : Append(u, t)[j] = u[j]
      BY <1>2, <2>1, AppendProperties
    <2> QED BY <1>2, <2>1, <2>2
  <1>5. ASSUME NEW j \in 1 .. k PROVE Append(u, t)[j] = v[j]
    <2>1. j = k \/ j \in 1 .. k - 1
      BY <1>1
    <2> QED BY <1>2, <1>3, <1>4, <2>1
  <1>6. Append(u, t) = v
    BY <1>3, <1>4, <1>5, SeqEqual
  <1> QED BY <1>6 DEF u, v

CutUp(b) ==
    LET all == Reads(b)[Len(b)]
    IN  IF all.line = << >> THEN all.lines ELSE Append(all.lines, all.line)

LEMMA LinesAreRead ==
  ASSUME NEW b, NEW lines, Held(b, lines)
  PROVE  CutUp(b) = Texts(lines, Len(lines))
  <1> DEFINE n == Len(lines)
  <1>1. PICK ends : EndsAre(lines, ends) /\ b = FlattenSeq(Ended(lines, ends))
    BY DEF Held
  <1>2. /\ lines \in Seq(AnyLine) /\ ends \in Seq(Terminators) /\ Len(ends) = n /\ n \in Nat
        /\ b \in Seq(Int) /\ Len(b) \in Nat
    BY <1>1, LenProperties, HeldIsText DEF Held, EndsAre
  <1>3. PICK s : s = Ended(lines, ends)
    OBVIOUS
  <1>4. /\ s \in Seq(Seq(Int)) /\ Len(s) = n
        /\ \A k \in 1 .. n : /\ s[k] = TextOf(lines[k]) \o ends[k]
                             /\ ends[k] \in Terminators /\ ends[k] \in Seq(Int)
                             /\ TextOf(lines[k]) \in Seq(Int)
                             /\ lines[k] \in AnyLine
    BY <1>2, <1>3, EndedIsText
  <1>5. /\ \A k \in 0 .. n : EndOf(s, k) \in 0 .. Len(b)
        /\ EndOf(s, 0) = 0 /\ EndOf(s, n) = Len(b)
        /\ \A k \in 1 .. n :
              /\ EndOf(s, k) = EndOf(s, k - 1) + Len(s[k])
              /\ \A i \in 1 .. Len(s[k]) : b[EndOf(s, k - 1) + i] = s[k][i]
    BY <1>1, <1>3, <1>4, FlattenAt
  <1> DEFINE Done(k) == Reads(b)[EndOf(s, k)] = [line |-> << >>, lines |-> Texts(lines, k)]
  \* A line's text comes first, then what ends it.
  <1>6. ASSUME NEW k \in 1 .. n, NEW t, t = TextOf(lines[k])
        PROVE  /\ t \in Seq(Letters) /\ Len(t) \in Nat /\ Len(ends[k]) \in Nat
               /\ EndOf(s, k - 1) \in Nat
               /\ EndOf(s, k) = EndOf(s, k - 1) + Len(t) + Len(ends[k])
               /\ EndOf(s, k) <= Len(b)
               /\ \A i \in 1 .. Len(t) : b[EndOf(s, k - 1) + i] = t[i]
               /\ Len(ends[k]) # 0 => b[EndOf(s, k - 1) + Len(t) + 1] = ends[k][1]
    <2>1. t \in Seq(Letters) /\ t \in Seq(Int) /\ ends[k] \in Seq(Int)
      BY <1>4, <1>6, PiecesAreText
    <2>2. Len(t) \in Nat /\ Len(ends[k]) \in Nat
      BY <2>1, LenProperties
    <2>3. s[k] = t \o ends[k]
      BY <1>4, <1>6, Zenon
    <2>4. /\ Len(s[k]) = Len(t) + Len(ends[k])
          /\ \A i \in 1 .. Len(t) + Len(ends[k]) :
                s[k][i] = IF i <= Len(t) THEN t[i] ELSE ends[k][i - Len(t)]
      BY <2>1, <2>3, ConcatProperties
    <2>5. k - 1 \in 0 .. n /\ k \in 0 .. n
      BY <1>2
    <2>6. PICK p : p = EndOf(s, k - 1)
      OBVIOUS
    <2>7. /\ p \in Nat /\ EndOf(s, k) = p + Len(s[k]) /\ EndOf(s, k) <= Len(b)
          /\ \A i \in 1 .. Len(s[k]) : b[p + i] = s[k][i]
      BY <1>2, <1>5, <2>5, <2>6
    <2>8. ASSUME NEW i \in 1 .. Len(t) PROVE b[p + i] = t[i]
      <3>1. i \in 1 .. Len(t) + Len(ends[k]) /\ i <= Len(t)
        BY <2>2
      <3> QED BY <2>4, <2>7, <3>1
    <2>9. ASSUME Len(ends[k]) # 0 PROVE b[p + Len(t) + 1] = ends[k][1]
      <3>1. /\ Len(t) + 1 \in 1 .. Len(t) + Len(ends[k]) /\ ~(Len(t) + 1 <= Len(t))
            /\ (Len(t) + 1) - Len(t) = 1 /\ p + (Len(t) + 1) = p + Len(t) + 1
        BY <2>2, <2>7, <2>9
      <3>2. b[p + (Len(t) + 1)] = s[k][Len(t) + 1]
        BY <2>4, <2>7, <3>1
      <3>3. s[k][Len(t) + 1] = ends[k][1]
        BY <2>4, <3>1
      <3> QED BY <3>1, <3>2, <3>3
    <2>10. EndOf(s, k) = p + Len(t) + Len(ends[k])
      <3>1. EndOf(s, k) = p + (Len(t) + Len(ends[k]))
        BY <2>4, <2>7
      <3>2. PICK x, y : x = Len(t) /\ y = Len(ends[k]) /\ x \in Nat /\ y \in Nat
        BY <2>2
      <3>3. p + (x + y) = p + x + y
        <4>1. p \in Nat /\ x \in Nat /\ y \in Nat
          BY <2>7, <3>2
        <4> QED BY <4>1
      <3> QED BY <3>1, <3>2, <3>3
    <2> QED BY <2>1, <2>2, <2>6, <2>7, <2>8, <2>9, <2>10
  <1>7. ASSUME NEW k \in 1 .. n, Done(k - 1), NEW t, t = TextOf(lines[k])
        PROVE  Reads(b)[EndOf(s, k - 1) + Len(t)] = [line |-> t, lines |-> Texts(lines, k - 1)]
    <2>1. PICK p : p = EndOf(s, k - 1)
      OBVIOUS
    <2>2. /\ t \in Seq(Letters) /\ p \in Nat /\ p + Len(t) <= Len(b)
          /\ \A i \in 1 .. Len(t) : b[p + i] = t[i]
      <3>1. /\ t \in Seq(Letters) /\ p \in Nat /\ Len(t) \in Nat /\ Len(ends[k]) \in Nat
            /\ EndOf(s, k) = p + Len(t) + Len(ends[k]) /\ EndOf(s, k) <= Len(b)
            /\ \A i \in 1 .. Len(t) : b[p + i] = t[i]
        BY <1>6, <1>7, <2>1
      <3>2. Len(b) \in Nat
        BY <1>2
      <3>3. PICK x, y, z, l : x = Len(t) /\ y = Len(ends[k]) /\ z = EndOf(s, k) /\ l = Len(b)
        OBVIOUS
      <3>4. /\ p \in Nat /\ x \in Nat /\ y \in Nat /\ l \in Nat
            /\ z = p + x + y /\ z <= l
        BY <3>1, <3>2, <3>3
      <3>5. p + x <= l
        BY <3>4
      <3> QED BY <3>1, <3>3, <3>5
    <2>3. Reads(b)[p] = [line |-> << >>, lines |-> Texts(lines, k - 1)]
      BY <1>7, <2>1
    <2>4. Reads(b)[p + Len(t)] = [line |-> t, lines |-> Texts(lines, k - 1)]
      <3>1. PICK ls : ls = Texts(lines, k - 1)
        OBVIOUS
      <3>2. b \in Seq(Int) /\ Reads(b)[p] = [line |-> << >>, lines |-> ls]
        BY <1>2, <2>3, <3>1
      <3>3. ReadsTo(b, p + Len(t), t, ls)
        BY <2>2, <3>2, LineIsReadOn
      <3> QED BY <3>1, <3>3 DEF ReadsTo
    <2> QED BY <2>1, <2>4
  <1>8. \A k \in 1 .. n : Append(Texts(lines, k - 1), TextOf(lines[k])) = Texts(lines, k)
    BY <1>2, TextsGrow
  <1>9. ASSUME NEW k \in 1 .. n, Done(k - 1), ends[k] # << >>
        PROVE  Done(k)
    <2>1. PICK t, p : t = TextOf(lines[k]) /\ p = EndOf(s, k - 1)
      OBVIOUS
    <2>2. Len(ends[k]) = 1 /\ Ends(ends[k][1])
      <3>1. ends[k] = <<NEWLINE>> \/ ends[k] = <<SEMI>>
        BY <1>4, <1>9 DEF Terminators
      <3>2. /\ Len(<<NEWLINE>>) = 1 /\ <<NEWLINE>>[1] = NEWLINE /\ Ends(NEWLINE)
            /\ Len(<<SEMI>>) = 1 /\ <<SEMI>>[1] = SEMI /\ Ends(SEMI)
        BY DEF Ends
      <3> QED BY <3>1, <3>2
    <2>3. /\ Len(t) \in Nat /\ p \in Nat /\ EndOf(s, k) = p + Len(t) + 1
          /\ p + Len(t) + 1 <= Len(b) /\ b[p + Len(t) + 1] = ends[k][1]
      <3>1. /\ Len(t) \in Nat /\ p \in Nat /\ Len(ends[k]) # 0
            /\ EndOf(s, k) = p + Len(t) + Len(ends[k]) /\ EndOf(s, k) <= Len(b)
        <4>1. /\ Len(t) \in Nat /\ p \in Nat
              /\ EndOf(s, k) = p + Len(t) + Len(ends[k]) /\ EndOf(s, k) <= Len(b)
          BY <1>6, <2>1
        <4>2. Len(ends[k]) # 0
          BY <2>2
        <4> QED BY <4>1, <4>2
      <3>2. b[p + Len(t) + 1] = ends[k][1]
        BY <1>6, <2>1, <3>1
      <3>3. EndOf(s, k) = p + Len(t) + 1
        BY <2>2, <3>1
      <3> QED BY <3>1, <3>2, <3>3
    <2>4. Reads(b)[p + Len(t)] = [line |-> t, lines |-> Texts(lines, k - 1)]
      BY <1>7, <1>9, <2>1
    <2>5. p + Len(t) + 1 \in 1 .. Len(b) /\ (p + Len(t) + 1) - 1 = p + Len(t)
      BY <1>2, <2>3
    <2>6. Reads(b)[p + Len(t) + 1] = ReadOne(b, Reads(b)[p + Len(t)], p + Len(t) + 1)
      BY <1>2, <2>5, ReadSteps
    <2>7. ReadOne(b, Reads(b)[p + Len(t)], p + Len(t) + 1)
             = [line |-> << >>, lines |-> Append(Texts(lines, k - 1), t)]
      BY <2>2, <2>3, <2>4 DEF ReadOne
    <2> QED BY <1>8, <2>1, <2>3, <2>6, <2>7
  <1>10. Done(0)
    <2>1. Texts(lines, 0) = << >>
      BY DEF Texts
    <2> QED BY <1>2, <1>5, <2>1, ReadSteps
  <1> DEFINE S == {k \in Nat : k <= n /\ (k # 0 => ends[k] # << >>) => Done(k)}
  <1>11. 0 \in S
    BY <1>10
  <1>12. ASSUME NEW k \in S PROVE k + 1 \in S
    <2> HIDE DEF Done
    <2> SUFFICES ASSUME k + 1 <= n, ends[k + 1] # << >> PROVE Done(k + 1)
      OBVIOUS
    <2>1. k + 1 \in 1 .. n /\ (k + 1) - 1 = k /\ k <= n /\ k # n
      BY <1>2
    <2>2. k # 0 => ends[k] # << >>
      <3>1. k # 0 => k \in 1 .. n
        BY <1>2, <2>1
      <3> QED BY <1>1, <2>1, <3>1 DEF EndsAre
    <2>3. Done(k)
      BY <2>1, <2>2
    <2> QED BY <1>9, <2>1, <2>3
  <1>13. S = Nat
    <2> HIDE DEF S
    <2>1. S \subseteq Nat
      BY DEF S
    <2> QED BY <1>11, <1>12, <2>1, SetInduction
  <1>14. \A k \in 0 .. n : (k # 0 => ends[k] # << >>) => Done(k)
    <2> HIDE DEF Done
    <2> QED BY <1>13
  <1>15. CASE n # 0 => ends[n] # << >>
    <2>1. n \in 0 .. n
      BY <1>2
    <2>2. Done(n)
      <3> HIDE DEF Done
      <3> QED BY <1>14, <1>15, <2>1
    <2>3. Reads(b)[Len(b)] = [line |-> << >>, lines |-> Texts(lines, n)]
      BY <1>5, <2>2
    <2> QED BY <2>3 DEF CutUp
  <1>16. CASE ~(n # 0 => ends[n] # << >>)
    <2>1. n \in 1 .. n /\ n - 1 \in 0 .. n /\ ends[n] = << >> /\ (n - 1 # 0 => n - 1 \in 1 .. n)
      BY <1>2, <1>16
    <2>2. PICK t : t = TextOf(lines[n])
      OBVIOUS
    <2>3. t # << >>
      BY <1>1, <2>1, <2>2 DEF EndsAre
    <2>4. Done(n - 1)
      <3>1. n - 1 # 0 => ends[n - 1] # << >>
        <4>1. n - 1 # n
          BY <1>2
        <4> QED BY <1>1, <2>1, <4>1 DEF EndsAre
      <3> HIDE DEF Done
      <3> QED BY <1>14, <2>1, <3>1
    <2>5. EndOf(s, n - 1) + Len(t) = Len(b)
      <3>1. Len(ends[n]) = 0
        BY <2>1
      <3>2. /\ EndOf(s, n) = EndOf(s, n - 1) + Len(t) + Len(ends[n])
            /\ EndOf(s, n - 1) \in Nat /\ Len(t) \in Nat
        BY <1>6, <2>1, <2>2
      <3> QED BY <1>5, <3>1, <3>2
    <2>6. Reads(b)[Len(b)] = [line |-> t, lines |-> Texts(lines, n - 1)]
      BY <1>7, <2>1, <2>2, <2>4, <2>5
    <2>7. CutUp(b) = Append(Texts(lines, n - 1), t)
      BY <2>3, <2>6 DEF CutUp
    <2> QED BY <1>8, <2>1, <2>2, <2>7
  <1> QED BY <1>15, <1>16

-----------------------------------------------------------------------------
(* What was typed is what runs. *)

\* The calls are those the lines ask for, with that table, or the first of them.
Matches(made, whole, lines, reg) ==
    \E n \in 0 .. Len(lines) :
        /\ whole => n = Len(lines)
        /\ made = FlattenSeq([k \in 1 .. n |-> Wanted(reg, lines[k])])

LEMMA RunsMatches ==
  /\ RunsWhatWasTyped <=> Matches(calls, intact, asked, registered)
  /\ RunsWhatWasTyped' <=> Matches(calls', intact', asked', registered')
  BY Zenon DEF RunsWhatWasTyped, Expected, Matches, Wanted, Runs, Rest, Joined

LEMMA ExecutesAsWanted ==
  ASSUME TableIInv, NEW line \in AnyLine, ~Overruns(TextOf(line))
  PROVE  Cmd_ExecuteString(TextOf(line)) = Wanted(registered, line)
  <1>1. Expected(line) = Wanted(registered, line)
    BY Zenon DEF Expected, Wanted, Runs, Rest, Joined
  <1> QED BY <1>1, ExecutesAsExpected

LEMMA NothingMatches ==
  ASSUME NEW reg, NEW whole
  PROVE  Matches(<< >>, whole, << >>, reg)
  <1>1. [k \in 1 .. 0 |-> Wanted(reg, << >>[k])] = << >>
    OBVIOUS
  <1>2. Len(<< >>) = 0 /\ 0 \in 0 .. Len(<< >>)
    OBVIOUS
  <1> QED BY <1>1, <1>2, FlattenEmpty DEF Matches

\* What is executed are the texts of the lines that the step was to execute.
LEMMA AskedIsExecuted ==
  ASSUME LineInv, Executes
  PROVE  /\ asked' \in Seq(AnyLine)
         /\ ExecuteStrings(Texts(asked', Len(asked')))
  <1>1. ASSUME NEW line \in Typed, ExecuteTyped(line)
        PROVE  /\ asked' \in Seq(AnyLine)
               /\ ExecuteStrings(Texts(asked', Len(asked')))
    <2>1. asked' = <<line>> /\ ExecuteStrings(<<TextOf(line)>>)
      BY <1>1 DEF ExecuteTyped
    <2>2. line \in AnyLine /\ <<line>> \in Seq(AnyLine)
      BY LinesAreLines
    <2>3. Texts(<<line>>, 1) = <<TextOf(line)>>
      <3>1. PICK t, u : t = Texts(<<line>>, 1) /\ u = <<TextOf(line)>>
        OBVIOUS
      <3>2. <<line>>[1] = line
        OBVIOUS
      <3>3. t = [k \in 1 .. 1 |-> t[k]] /\ t[1] = TextOf(line)
        BY <3>1, <3>2 DEF Texts
      <3>4. u = [k \in 1 .. 1 |-> u[k]] /\ u[1] = TextOf(line)
        BY <3>1
      <3>5. \A k \in 1 .. 1 : t[k] = u[k]
        BY <3>3, <3>4
      <3>6. t = u
        BY <3>3, <3>4, <3>5
      <3> QED BY <3>1, <3>6
    <2>4. Len(<<line>>) = 1
      OBVIOUS
    <2> QED BY <2>1, <2>2, <2>3, <2>4
  <1>2. ASSUME Cbuf_Execute
        PROVE  /\ asked' \in Seq(AnyLine)
               /\ ExecuteStrings(Texts(asked', Len(asked')))
    <2>1. asked' = queued /\ ExecuteStrings(BufferLines)
      BY <1>2 DEF Cbuf_Execute
    <2>2. Held(cmd_buffer, queued) /\ queued \in Seq(AnyLine)
      BY DEF LineInv, Held
    <2>3. BufferLines = CutUp(cmd_buffer)
      BY Zenon DEF BufferLines, CutUp, Reads, IsReads, ReadOne
    <2>4. BufferLines = Texts(queued, Len(queued))
      BY <2>2, <2>3, LinesAreRead
    <2> QED BY <2>1, <2>2, <2>4
  <1> QED BY <1>1, <1>2 DEF Executes

LEMMA ExecutedMatches ==
  ASSUME TableIInv, NEW lines \in Seq(AnyLine), ExecuteStrings(Texts(lines, Len(lines)))
  PROVE  Matches(calls', intact', lines, registered)
  <1> DEFINE l == Len(lines)
             texts == Texts(lines, l)
  <1>1. l \in Nat /\ Len(texts) = l /\ \A k \in 1 .. l : texts[k] = TextOf(lines[k])
    <2>1. l \in Nat
      BY LenProperties
    <2>2. \A k \in 1 .. l : texts[k] = TextOf(lines[k])
      BY DEF Texts
    <2>3. Len(texts) = l
      BY <2>1 DEF Texts
    <2> QED BY <2>1, <2>2, <2>3
  <1> HIDE DEF texts
  <1>2. PICK n \in 0 .. l :
             /\ \A k \in 1 .. n : ~Overruns(texts[k])
             /\ intact' = (n = l)
             /\ calls' = FlattenSeq([k \in 1 .. n |-> Cmd_ExecuteString(texts[k])])
    BY <1>1 DEF ExecuteStrings, texts
  <1>3. ASSUME NEW k \in 1 .. n
        PROVE  Cmd_ExecuteString(texts[k]) = Wanted(registered, lines[k])
    <2>1. k \in 1 .. l
      BY <1>1
    <2>2. lines[k] \in AnyLine
      BY <2>1, ElementOfSeq
    <2>3. ~Overruns(TextOf(lines[k]))
      BY <1>1, <1>2, <2>1
    <2>4. Cmd_ExecuteString(TextOf(lines[k])) = Wanted(registered, lines[k])
      BY <2>2, <2>3, ExecutesAsWanted
    <2> QED BY <1>1, <2>1, <2>4
  <1>4. [k \in 1 .. n |-> Cmd_ExecuteString(texts[k])]
           = [k \in 1 .. n |-> Wanted(registered, lines[k])]
    <2>1. PICK u, v : /\ u = [k \in 1 .. n |-> Cmd_ExecuteString(texts[k])]
                      /\ v = [k \in 1 .. n |-> Wanted(registered, lines[k])]
      OBVIOUS
    <2>2. \A k \in 1 .. n : u[k] = v[k]
      BY <1>3, <2>1
    <2>3. u = [k \in 1 .. n |-> u[k]] /\ v = [k \in 1 .. n |-> v[k]]
      BY <2>1
    <2>4. u = v
      BY <2>2, <2>3
    <2> QED BY <2>1, <2>4
  <1>5. calls' = FlattenSeq([k \in 1 .. n |-> Wanted(registered, lines[k])])
    BY <1>2, <1>4
  <1>6. intact' => n = l
    BY <1>2
  <1> QED BY <1>5, <1>6 DEF Matches

LEMMA OverrunIsLong ==
  ASSUME NEW lines \in Seq(AnyLine), ExecuteStrings(Texts(lines, Len(lines))), ~intact'
  PROVE  \E k \in DOMAIN lines : Len(TextOf(lines[k])) >= MAX_CMD_LENGTH
  <1> DEFINE l == Len(lines)
             texts == Texts(lines, l)
  <1>1. /\ l \in Nat /\ Len(texts) = l /\ DOMAIN lines = 1 .. l
        /\ \A k \in 1 .. l : texts[k] = TextOf(lines[k])
    <2>1. l \in Nat /\ DOMAIN lines = 1 .. l
      BY LenProperties
    <2>2. \A k \in 1 .. l : texts[k] = TextOf(lines[k])
      BY DEF Texts
    <2>3. Len(texts) = l
      BY <2>1 DEF Texts
    <2> QED BY <2>1, <2>2, <2>3
  <1> HIDE DEF texts
  <1>2. PICK n \in 0 .. l : (n < l => Overruns(texts[n + 1])) /\ intact' = (n = l)
    BY <1>1 DEF ExecuteStrings, texts
  <1>3. n # l
    BY <1>2
  <1> HIDE DEF l
  <1>4. n < l /\ n + 1 \in 1 .. l
    BY <1>1, <1>3
  <1>5. PICK t : t = TextOf(lines[n + 1])
    OBVIOUS
  <1>6. Overruns(t)
    BY <1>1, <1>2, <1>4, <1>5
  <1>7. t \in Seq(Int)
    <2>1. lines[n + 1] \in AnyLine
      BY <1>1, <1>4, ElementOfSeq DEF l
    <2>2. Letters \subseteq Int /\ t \in Seq(Letters)
      BY <1>5, <2>1, PiecesAreText DEF Letters
    <2> QED BY <2>2, SeqWider
  <1>8. Len(Stored(Cmd_TokenizeString(t))) <= Len(t) + 1 /\ Len(t) \in Nat
    BY <1>7, TokensOfAnyTextFit, LenProperties
  <1>9. Len(Stored(Cmd_TokenizeString(t))) \in Nat
    <2>1. Cmd_TokenizeString(t) \in Seq(Seq(Int))
      <3>1. MAX_CMD_TOKENS \in 0 .. MAX_CMD_TOKENS
        BY LineAssumption
      <3> QED BY <1>7, <3>1, ScanSteps DEF Scans
    <2>2. << >> \in Seq(Int)
      OBVIOUS
    <2> QED BY <2>1, <2>2, StoredGrows
  <1>10. Len(t) >= MAX_CMD_LENGTH
    <2>1. PICK a, b : a = Len(Stored(Cmd_TokenizeString(t))) /\ b = Len(t)
      OBVIOUS
    <2>2. a \in Nat /\ b \in Nat /\ a <= b + 1 /\ a > MAX_CMD_LENGTH
      BY <1>6, <1>8, <1>9, <2>1 DEF Overruns
    <2>3. b >= MAX_CMD_LENGTH
      BY <2>2, LineAssumption
    <2> QED BY <2>1, <2>3
  <1> QED BY <1>1, <1>4, <1>5, <1>10

\* The table is a map while lines run, too.
LEMMA TableHoldsInLines == LineSpec => []TableIInv
  <1>1. LineInit => TableIInv
    BY EmptyTable DEF LineInit
  <1>2. TableIInv /\ [LineNext]_cmdVars => TableIInv'
    <2> SUFFICES ASSUME TableIInv, [LineNext]_cmdVars PROVE TableIInv'
      OBVIOUS
    <2>1. CASE UNCHANGED tableVars
      BY <2>1 DEF tableVars, TableIInv, TableTypeOK
    <2>2. CASE Cmd_Init
      BY <2>2, EmptyTable DEF Cmd_Init
    <2>3. CASE Cmd_Shutdown
      BY <2>3 DEF Cmd_Shutdown, TableIInv, TableTypeOK
    <2>4. ASSUME NEW name \in Commands, UNCHANGED dangling,
                 \/ \E func \in Funcs : Cmd_AddCommand(name, func)
                 \/ Cmd_RemoveCommand(name)
          PROVE  TableIInv'
      <3>1. name \in Names
        BY LineAssumption
      <3> QED BY <2>4, <3>1, AddKeepsInv, RemoveKeepsInv
    <2>5. CASE UNCHANGED cmdVars
      <3>1. UNCHANGED tableVars
        BY <2>5 DEF cmdVars
      <3> QED BY <2>1, <3>1
    <2> QED BY <2>1, <2>2, <2>3, <2>4, <2>5 DEF LineNext, Executes, Fills
  <1> QED BY <1>1, <1>2, PTL DEF LineSpec

\* cmd_tokenized is overrun by no line shorter than MAX_CMD_LENGTH: by none that is
\* typed, and by a line of the buffer only if it is longer than a line may be.
THEOREM TokensAlwaysFit == LineSpec => []TokensFit
  <1>1. LineInit => TokensFit
    BY DEF LineInit, TokensFit
  <1>2. TokensFit /\ LineInv /\ [LineNext]_cmdVars => TokensFit'
    <2> SUFFICES ASSUME TokensFit, LineInv, [LineNext]_cmdVars, ~intact'
                 PROVE  \E k \in DOMAIN asked' : Len(TextOf(asked'[k])) >= MAX_CMD_LENGTH
      BY Zenon DEF TokensFit, TextOf
    <2>1. CASE Executes
      <3>1. PICK lines : lines = asked'
        OBVIOUS
      <3>2. lines \in Seq(AnyLine) /\ ExecuteStrings(Texts(lines, Len(lines)))
        BY <2>1, <3>1, AskedIsExecuted
      <3> QED BY <3>1, <3>2, OverrunIsLong
    <2>2. CASE intact /\ NothingRuns
      BY <2>2 DEF NothingRuns
    <2>3. CASE UNCHANGED cmdVars
      <3>1. intact' = intact /\ asked' = asked
        BY <2>3 DEF cmdVars, lineVars
      <3> QED BY <3>1 DEF TokensFit
    <2> QED BY <2>1, <2>2, <2>3 DEF LineNext, Fills, Cmd_Init
  <1> QED BY <1>1, <1>2, LineInvariant, PTL DEF LineSpec

\* Every line that was typed, or was put in the buffer, is executed as its
\* author expects, whatever its words, blanks and quotes, whatever names
\* collide and wherever the limits lie, unless one was too long for
\* cmd_tokenized, and then those before; and nothing else is called.
THEOREM WhatIsTypedRuns == LineSpec => []RunsWhatWasTyped
  <1>1. LineInit => RunsWhatWasTyped
    <2> SUFFICES ASSUME LineInit PROVE Matches(calls, intact, asked, registered)
      BY RunsMatches
    <2> QED BY NothingMatches DEF LineInit
  <1>2. /\ RunsWhatWasTyped /\ LineInv /\ TableIInv /\ [LineNext]_cmdVars
        => RunsWhatWasTyped'
    <2> SUFFICES ASSUME RunsWhatWasTyped, LineInv, TableIInv, [LineNext]_cmdVars
                 PROVE  Matches(calls', intact', asked', registered')
      BY RunsMatches
    <2>1. CASE Executes
      <3>1. registered' = registered
        BY <2>1 DEF Executes, tableVars
      <3>2. PICK lines : lines = asked'
        OBVIOUS
      <3>3. lines \in Seq(AnyLine) /\ ExecuteStrings(Texts(lines, Len(lines)))
        BY <2>1, <3>2, AskedIsExecuted
      <3>4. Matches(calls', intact', lines, registered)
        BY <3>3, ExecutedMatches
      <3> QED BY <3>1, <3>2, <3>4
    <2>2. CASE NothingRuns
      BY <2>2, NothingMatches DEF NothingRuns
    <2>3. CASE UNCHANGED cmdVars
      <3>1. calls' = calls /\ asked' = asked /\ registered' = registered /\ intact' = intact
        BY <2>3 DEF cmdVars, lineVars, tableVars
      <3>2. Matches(calls, intact, asked, registered)
        BY RunsMatches
      <3> QED BY <3>1, <3>2
    <2> QED BY <2>1, <2>2, <2>3 DEF LineNext, Fills, Cmd_Init
  <1> QED BY <1>1, <1>2, LineInvariant, TableHoldsInLines, PTL DEF LineSpec
=============================================================================
