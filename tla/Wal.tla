-------------------------------- MODULE Wal ---------------------------------
(***************************************************************************)
(* WAL (include/wal.hpp, src/wal.cpp): the log file as replay reads it.    *)
(*                                                                         *)
(* The file is a sequence of units.  A fixed-width field (op, id, dim,     *)
(* mlen), a float of the vector and a byte of the metadata take one unit   *)
(* each, and replay interprets whatever unit stands where it expects a     *)
(* field.  Several WAL objects may be open on the path, as when            *)
(* HNSWIndex::compact opens its own beside its caller's.                   *)
(***************************************************************************)
EXTENDS Integers, SequencesExt

CONSTANTS
    Handles,          \* WAL objects on the path
    Appenders,        \* bound: the objects used for appending
    Checkpointers,    \* bound: the objects used for truncating
    Ids,              \* external ids
    Vecs,             \* vectors, as sequences of units
    Metas,            \* metadata strings, as sequences of units
    MaxUnits,         \* bound: the length of the file
    Tears             \* may the process die inside an append?

ASSUME UnitsAssumption ==
    /\ Ids \subseteq Nat
    /\ Vecs \subseteq Seq(Nat)
    /\ Metas \subseteq Seq(Nat)
ASSUME BoundAssumption == MaxUnits \in Nat
ASSUME HandlesAssumption == Appenders \subseteq Handles /\ Checkpointers \subseteq Handles
ASSUME TearsAssumption == Tears \in BOOLEAN

INSERT == 1
DELETE == 2

Records ==
    [op : {INSERT}, id : Ids, vec : Vecs, metadata : Metas]
        \cup [op : {DELETE}, id : Ids, vec : {<< >>}, metadata : {<< >>}]

VARIABLES
    file,     \* the units in the file
    mode,     \* fp_ of each object: "closed", or opened with "ab" or "wb"
    pos,      \* the file offset of a "wb" stream
    \* history since the last checkpoint: the records wholly written, those of
    \* them that were written before any record was torn, and whether the file
    \* is "whole", ends in a torn record ("cut") or holds one behind which
    \* something was appended ("buried")
    written, safe, tail

history == <<written, safe, tail>>
vars == <<file, mode, pos, history>>
-----------------------------------------------------------------------------
\* Mutant: a record without metadata has no mlen field.
EncodeShort(r) ==
    <<r.op, r.id, Len(r.vec)>> \o r.vec
        \o (IF r.metadata = << >> THEN << >> ELSE <<Len(r.metadata)>> \o r.metadata)
\* The fields append_insert and append_delete write, in order.
Encode(r) == <<r.op, r.id, Len(r.vec)>> \o r.vec \o <<Len(r.metadata)>> \o r.metadata

\* replay: the records read from the file f, up to the first short read.  A
\* record whose op is neither INSERT nor DELETE is read and skipped.
Replay(f) ==
    LET n == Len(f)
        mlen(i) == i + 3 + f[i + 2]        \* where a record at i has its mlen
        next(i) == mlen(i) + 1 + f[mlen(i)]
        whole(i) == i + 2 <= n /\ mlen(i) <= n /\ next(i) <= n + 1
        record(i) == [op |-> f[i], id |-> f[i + 1], vec |-> SubSeq(f, i + 3, mlen(i) - 1),
                      metadata |-> SubSeq(f, mlen(i) + 1, next(i) - 1)]
        read[i \in 1 .. n + 1] ==
            IF ~whole(i) THEN << >>
            ELSE (IF f[i] \in {INSERT, DELETE} THEN <<record(i)>> ELSE << >>) \o read[next(i)]
    IN  read[1]

\* What s written through handle h leaves in the file: "ab" writes at the end,
\* "wb" at its own offset, and a gap before that offset reads as zeros.
After(h, s) ==
    IF mode[h] = "ab" THEN file \o s
    ELSE LET end == pos[h] + Len(s)
         IN  [i \in 1 .. (IF end >= Len(file) THEN end ELSE Len(file)) |->
                IF i \in pos[h] + 1 .. end THEN s[i - pos[h]]
                ELSE IF i <= Len(file) THEN file[i] ELSE 0]

Init ==
    /\ file = << >>
    /\ mode = [h \in Handles |-> "closed"]
    /\ pos = [h \in Handles |-> 0]
    /\ written = << >>
    /\ safe = << >>
    /\ tail = "whole"

\* Mutant: the file is opened for update, and written from its start.
OpenForUpdate(h) ==
    /\ mode[h] = "closed"
    /\ mode' = [mode EXCEPT ![h] = "wb"]
    /\ UNCHANGED <<file, pos, history>>

(* The constructor.  It takes the file as it is, torn or not. *)
Open(h) ==
    /\ mode[h] = "closed"
    /\ mode' = [mode EXCEPT ![h] = "ab"]
    /\ UNCHANGED <<file, pos, history>>

(* The destructor. *)
Close(h) ==
    /\ mode[h] # "closed"
    /\ mode' = [mode EXCEPT ![h] = "closed"]
    /\ pos' = [pos EXCEPT ![h] = 0]
    /\ UNCHANGED <<file, history>>

CanAppend(h, r) == mode[h] # "closed" /\ Len(After(h, Encode(r))) <= MaxUnits

\* All of the record r is written.
AddRecord(r) ==
    /\ written' = Append(written, r)
    /\ IF tail = "whole" THEN safe' = Append(safe, r) /\ UNCHANGED tail
                         ELSE tail' = "buried" /\ UNCHANGED safe

(* append_insert, append_delete: the fwrites and the fflush. *)
AppendRecord(h, r) ==
    /\ CanAppend(h, r)
    /\ file' = After(h, Encode(r))
    /\ pos' = [pos EXCEPT ![h] = IF mode[h] = "ab" THEN 0 ELSE @ + Len(Encode(r))]
    /\ AddRecord(r)
    /\ UNCHANGED mode

(* The process dies inside append_insert or append_delete after n units
   reached the file. *)
TearAppend(h, r, n) ==
    /\ Tears
    /\ CanAppend(h, r)
    /\ file' = After(h, SubSeq(Encode(r), 1, n))
    /\ mode' = [g \in Handles |-> "closed"]
    /\ pos' = [g \in Handles |-> 0]
    /\ \/ /\ n = Len(Encode(r))
          /\ AddRecord(r)
       \/ /\ n < Len(Encode(r))
          /\ tail' = IF tail = "whole" THEN "cut" ELSE "buried"
          /\ UNCHANGED <<written, safe>>

(* checkpoint: close the stream and reopen the file with "wb". *)
Checkpoint(h) ==
    /\ mode[h] # "closed"
    /\ file' = << >>
    /\ mode' = [mode EXCEPT ![h] = "wb"]
    /\ pos' = [pos EXCEPT ![h] = 0]
    /\ written' = << >>
    /\ safe' = << >>
    /\ tail' = "whole"

Next ==
    \E h \in Handles :
        \/ Open(h)
        \/ Close(h)
        \/ h \in Appenders /\ \E r \in Records : AppendRecord(h, r)
        \/ h \in Appenders /\ \E r \in Records : \E n \in 1 .. Len(Encode(r)) : TearAppend(h, r, n)
        \/ h \in Checkpointers /\ Checkpoint(h)

Spec == Init /\ [][Next]_vars
-----------------------------------------------------------------------------
\* As long as nothing was appended behind a torn record, replay hands back
\* exactly the records that were wholly written since the last checkpoint, in
\* order: none lost, none invented from the middle of another, and nothing of
\* the record that a crash cut short.
ReplayExact == tail # "buried" => Replay(file) = written

\* A torn record, and whatever was appended behind it, are misread from the
\* torn record on and no earlier: replay still hands back, first and in order,
\* every record wholly written before it, through any number of crashes and
\* appends.
DamageConfined == IsPrefix(safe, Replay(file))

\* What a caller of append_insert would expect, a torn record or not: replay
\* hands back the records wholly written.  False once one is appended behind a
\* torn one (WalTornTail.cfg), or behind a stale offset (WalStaleOffset.cfg).
ReplayComplete == Replay(file) = written
=============================================================================
