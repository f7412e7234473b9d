----------------------------- MODULE IndexFile -----------------------------
(***************************************************************************)
(* The index file that HNSWIndex::save writes and load reads               *)
(* (src/hnsw.cpp).  A slot is an id and its tombstone.  The file keeps the *)
(* count of its header, one row per slot (id, vector, metadata), and the   *)
(* tombstones as words of WordBits bits; a word is the set of the bits     *)
(* that are set in it.  Version 1 files have no tombstones.                *)
(***************************************************************************)
EXTENDS Integers, Sequences

CONSTANT WordBits   \* bits of a tombstone word: 64

ASSUME WordAssumption == WordBits \in Nat \ {0}

Torn    == [ver |-> 0, nv |-> 0, rows |-> << >>, tomb |-> << >>]
Garbage == [id |-> "garbage", dead |-> FALSE]
-----------------------------------------------------------------------------
\* Mutant: a last word that is not full is forgotten.
WordsFull(nv) == nv \div WordBits
Words(nv) == (nv + WordBits - 1) \div WordBits

\* The tombstones of the first nv slots; slot s[i + 1] is internal id i.
Pack(s, nv) ==
    [w \in 0 .. Words(nv) - 1 |->
        {b \in 0 .. WordBits - 1 : w * WordBits + b < nv /\ s[w * WordBits + b + 1].dead}]

\* Tombstone i as load reads it; a word that is not there reads as zero.
Unpacked(tomb, i) ==
    i \div WordBits \in DOMAIN tomb /\ i % WordBits \in tomb[i \div WordBits]

\* save: nv was read before the lock, the slots s are what the lock protects.
Saved(nv, s) ==
    [ver |-> 2, nv |-> nv, rows |-> [i \in DOMAIN s |-> s[i].id], tomb |-> Pack(s, nv)]

\* Mutant: load keeps the tombstones of the index it replaces.
KeptTombstones(f, old, i) ==
    IF i + 1 \in DOMAIN old THEN old[i + 1].dead ELSE f.ver >= 2 /\ Unpacked(f.tomb, i)
\* tombstone_ of internal id i after load: resize keeps the old entries, and
\* only a file of version 2 replaces them.
Tombstone(f, old, i) ==
    IF f.ver >= 2 THEN Unpacked(f.tomb, i)
    ELSE i + 1 \in DOMAIN old /\ old[i + 1].dead

\* load into an index with the slots old.  When the count is not the number of
\* rows, all that follows the ids is read from the wrong place.
Loaded(f, old) ==
    IF Len(f.rows) # f.nv THEN <<Garbage>>
    ELSE [i \in DOMAIN f.rows |-> [id |-> f.rows[i], dead |-> Tombstone(f, old, i - 1)]]
=============================================================================
