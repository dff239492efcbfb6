------------------------------- MODULE CmdTable -------------------------------
(***************************************************************************)
(* The command table of src/code/lcommon/cmd.cpp: commands registered      *)
(* under names, in the buckets of a hash table, newest first.  Beside it,  *)
(* as history, the plain map it stands for.                                *)
(***************************************************************************)
EXTENDS Integers, Sequences

CONSTANTS
    CMD_HASH_SIZE,
    HashString(_),   \* Cmd_HashString
    Names,           \* names commands are registered under, or looked up by
    Funcs,           \* the functions registered
    NULL

ASSUME TableAssumption ==
    /\ CMD_HASH_SIZE \in Nat \ {0}
    /\ \A name \in Names : HashString(name) \in Nat
    /\ NULL \notin Funcs

Buckets == 0 .. CMD_HASH_SIZE - 1

VARIABLES
    cmd_buckets,   \* the chains, each from its head on
    dangling,      \* the chains' entries have been freed
    registered     \* history: the function of every name, NULL for none

tableVars == <<cmd_buckets, dangling, registered>>

Cmd == [name : Names, func : Funcs]

TableTypeOK ==
    /\ cmd_buckets \in [Buckets -> Seq(Cmd)]
    /\ dangling \in BOOLEAN
    /\ registered \in [Names -> Funcs \cup {NULL}]

Cleared ==
    /\ cmd_buckets' = [b \in Buckets |-> << >>]
    /\ dangling' = FALSE
    /\ registered' = [name \in Names |-> NULL]

TableInit ==
    /\ cmd_buckets = [b \in Buckets |-> << >>]
    /\ dangling = FALSE
    /\ registered = [name \in Names |-> NULL]

-----------------------------------------------------------------------------
\* Bernstein's hash, h * 33 + c over the characters.  Of its 32 bits only those
\* of the bucket's number are kept: CMD_HASH_SIZE is a power of two, so they
\* depend on no others.
Cmd_HashString(str) ==
    LET hash[k \in 0 .. Len(str)] ==
            IF k = 0 THEN 5381 % CMD_HASH_SIZE
            ELSE (33 * hash[k - 1] + str[k]) % CMD_HASH_SIZE
    IN  hash[Len(str)]

Bucket(name) == HashString(name) % CMD_HASH_SIZE

\* The entries of a chain that have the name.
Hits(chain, name) == {k \in DOMAIN chain : chain[k].name = name}

IsFirst(k, S) == k \in S /\ \A j \in S : k <= j

Cmd_FindCommand(name) ==
    LET chain == cmd_buckets[Bucket(name)]
        hits  == Hits(chain, name)
    IN  IF hits = {} THEN NULL ELSE chain[CHOOSE k \in hits : IsFirst(k, hits)].func

\* Mutant: a name that is taken is registered again, in front.
Cmd_AddCommandAgain(name, func) ==
    /\ cmd_buckets' = [cmd_buckets EXCEPT ![Bucket(name)] =
                          <<[name |-> name, func |-> func]>> \o @]
    /\ registered' = [registered EXCEPT ![name] = IF @ = NULL THEN func ELSE @]

\* A name that is taken keeps its function.
Cmd_AddCommand(name, func) ==
    IF Cmd_FindCommand(name) # NULL
    THEN UNCHANGED <<cmd_buckets, registered>>
    ELSE /\ cmd_buckets' = [cmd_buckets EXCEPT ![Bucket(name)] =
                               <<[name |-> name, func |-> func]>> \o @]
         /\ registered' = [registered EXCEPT ![name] = func]

\* A chain without its k-th entry.
Without(chain, k) == SubSeq(chain, 1, k - 1) \o SubSeq(chain, k + 1, Len(chain))

\* Mutant: the entries before the one that is found are lost.
Cmd_RemoveCommandAndBefore(name) ==
    LET b == Bucket(name)
        hits == Hits(cmd_buckets[b], name)
    IN  /\ \/ hits = {} /\ UNCHANGED cmd_buckets
           \/ \E k \in hits :
                /\ IsFirst(k, hits)
                /\ cmd_buckets' = [cmd_buckets EXCEPT ![b] = SubSeq(@, k + 1, Len(@))]
        /\ registered' = [registered EXCEPT ![name] = NULL]

\* The first entry with the name is unlinked, and freed.
Cmd_RemoveCommand(name) ==
    LET b == Bucket(name)
        hits == Hits(cmd_buckets[b], name)
    IN  /\ \/ hits = {} /\ UNCHANGED cmd_buckets
           \/ \E k \in hits :
                /\ IsFirst(k, hits)
                /\ cmd_buckets' = [cmd_buckets EXCEPT ![b] = Without(@, k)]
        /\ registered' = [registered EXCEPT ![name] = NULL]

\* Every entry is freed; the buckets go on pointing at them until Cmd_Init.
Cmd_Shutdown == dangling' = TRUE /\ UNCHANGED <<cmd_buckets, registered>>

TableNext ==
    \/ /\ ~dangling
       /\ UNCHANGED dangling
       /\ \E name \in Names :
            \/ \E func \in Funcs : Cmd_AddCommand(name, func)
            \/ Cmd_RemoveCommand(name)
    \/ ~dangling /\ Cmd_Shutdown
    \/ Cleared

TableSpec == TableInit /\ [][TableNext]_tableVars

-----------------------------------------------------------------------------
\* The table is a map: over any sequence of registrations and removals, of
\* names that collide and names that do not, a look-up finds the function a
\* name was first registered with since it was last removed, and nothing under
\* a name that is not registered.
TableIsMap == \A name \in Names : Cmd_FindCommand(name) = registered[name]
=============================================================================
