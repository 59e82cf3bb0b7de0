------------------------------ MODULE KVStore -------------------------------
(***************************************************************************)
(* The write-ahead log and the key/value store on it: 08-storage/wal/      *)
(* wal.cpp and 08-storage/kv/kv_store.cpp.                                 *)
(*                                                                         *)
(* `file' is the log file, record by record.  An item is a whole record, a *)
(* fragment that a torn append left behind, or a record with a flipped     *)
(* byte.  The CRC is taken as perfect: recoverRecords reads exactly the    *)
(* records in front of the first item that is not whole, because from that *)
(* item on the length, crc and payload fields it reads are not those of    *)
(* one append.  (A header torn inside its length field makes the reader    *)
(* see length 0, whose crc is 0, against the nonzero length byte of the    *)
(* next record: also a mismatch.)                                          *)
(*                                                                         *)
(* The file survives a crash, `data' does not.  `session' is a history     *)
(* variable: the operations the running store stands for.                  *)
(***************************************************************************)
EXTENDS Integers, Sequences, FiniteSets

CONSTANTS
    Key, Value,
    Absent,         \* no entry in the map
    MaxItems        \* bound on the items in the log file

ASSUME AbsentAssumption == Absent \notin Value
ASSUME MaxItemsAssumption == MaxItems \in Nat

VARIABLES
    file,       \* the bytes of the log file, as items
    phase,      \* "down" (no process), "replaying" (constructor) or "running"
    recovered,  \* the vector recoverRecords() returned to replay()
    cursor,     \* how many of them replay() has applied
    data,       \* KVStore::data
    session     \* history: the operations the store stands for

vars == <<file, phase, recovered, cursor, data, session>>

Record == [op : {"put"}, key : Key, value : Value]
              \cup [op : {"delete"}, key : Key, value : {Absent}]
Fragment == [op : {"torn"}]
Flipped == [op : {"flipped"}]
Item == Record \cup Fragment \cup Flipped
Torn == [op |-> "torn"]

encodePut(k, v) == [op |-> "put", key |-> k, value |-> v]
encodeDelete(k) == [op |-> "delete", key |-> k, value |-> Absent]

Empty == [k \in Key |-> Absent]

(***************************************************************************)
(* recoverRecords: everything in front of the first item that does not     *)
(* check.                                                                  *)
(***************************************************************************)
Whole(item) == item.op \in {"put", "delete"}
IsGoodPrefix(f, n) == /\ \A i \in 1..n : Whole(f[i])
                      /\ n < Len(f) => ~Whole(f[n + 1])
goodPrefix(f) == CHOOSE n \in 0..Len(f) : IsGoodPrefix(f, n)

\* Seeded bugs: a bad record is skipped, or handed out with the good ones.
recoverSkipping(f) == SelectSeq(f, Whole)
recoverOneTooMany(f) == SubSeq(f, 1, IF goodPrefix(f) < Len(f) THEN goodPrefix(f) + 1
                                     ELSE Len(f))

recoverRecords(f) == SubSeq(f, 1, goodPrefix(f))

\* Seeded bug: a delete record is not replayed.
applyRecordNoErase(m, r) == IF r.op = "put" THEN [m EXCEPT ![r.key] = r.value] ELSE m

\* applyRecord: a put stores its value, a delete erases the key.
applyRecord(m, r) == [m EXCEPT ![r.key] = r.value]

-----------------------------------------------------------------------------
Init ==
    /\ file = <<>>
    /\ phase = "down"
    /\ recovered = <<>>
    /\ cursor = 0
    /\ data = Empty
    /\ session = <<>>

(***************************************************************************)
(* The KVStore constructor: WriteAheadLog's constructor keeps the content  *)
(* of the file, a torn tail included; replay() reads the whole log and     *)
(* then applies it record by record.                                       *)
(***************************************************************************)
construct ==
    /\ phase = "down"
    /\ phase' = "replaying"
    /\ recovered' = recoverRecords(file)
    /\ cursor' = 0
    /\ data' = Empty
    /\ session' = recoverRecords(file)
    /\ UNCHANGED file

replayRecord ==
    /\ phase = "replaying"
    /\ cursor < Len(recovered)
    /\ data' = applyRecord(data, recovered[cursor + 1])
    /\ cursor' = cursor + 1
    /\ UNCHANGED <<file, phase, recovered, session>>

replayDone ==
    /\ phase = "replaying"
    /\ cursor = Len(recovered)
    /\ phase' = "running"
    /\ UNCHANGED <<file, recovered, cursor, data, session>>

(***************************************************************************)
(* put and remove: append first, then change the map.  In an append that   *)
(* fails (the device is full) the call returns false with the map as it    *)
(* was, and what was written of the record stays in the file.              *)
(***************************************************************************)
mutate(r) ==
    /\ phase = "running"
    /\ Len(file) < MaxItems
    /\ file' = Append(file, r)
    /\ data' = applyRecord(data, r)
    /\ session' = Append(session, r)
    /\ UNCHANGED <<phase, recovered, cursor>>

put(k, v) == mutate(encodePut(k, v))
remove(k) == mutate(encodeDelete(k))

appendFails ==
    /\ phase = "running"
    /\ Len(file) < MaxItems
    /\ file' = Append(file, Torn)
    /\ UNCHANGED <<phase, recovered, cursor, data, session>>

(***************************************************************************)
(* The process dies: between two calls or during replay, with an append    *)
(* half written, or after the append and before the map was changed.       *)
(***************************************************************************)
crash ==
    /\ phase # "down"
    /\ phase' = "down"
    /\ UNCHANGED <<file, recovered, cursor, data, session>>

crashTorn ==
    /\ phase = "running"
    /\ Len(file) < MaxItems
    /\ file' = Append(file, Torn)
    /\ phase' = "down"
    /\ UNCHANGED <<recovered, cursor, data, session>>

crashUnacknowledged(r) ==
    /\ phase = "running"
    /\ Len(file) < MaxItems
    /\ file' = Append(file, r)
    /\ phase' = "down"
    /\ session' = Append(session, r)
    /\ UNCHANGED <<recovered, cursor, data>>

\* A byte of a stored record changes on the disk ("bit rot").
bitRot(i) ==
    /\ file' = [file EXCEPT ![i] = [op |-> "flipped"]]
    /\ UNCHANGED <<phase, recovered, cursor, data, session>>

Next ==
    \/ construct
    \/ replayRecord
    \/ replayDone
    \/ \E k \in Key, v \in Value : put(k, v)
    \/ \E k \in Key : remove(k)
    \/ appendFails
    \/ crash
    \/ crashTorn
    \/ \E r \in Record : crashUnacknowledged(r)
    \/ \E i \in DOMAIN file : bitRot(i)

Spec == Init /\ [][Next]_vars

\* The disk only ever loses what a crash cut off: no failing append, no bit rot.
CrashNext ==
    \/ construct
    \/ replayRecord
    \/ replayDone
    \/ \E k \in Key, v \in Value : put(k, v)
    \/ \E k \in Key : remove(k)
    \/ crash
    \/ crashTorn

CrashSpec == Init /\ [][CrashNext]_vars

-----------------------------------------------------------------------------
(***************************************************************************)
(* Properties.                                                             *)
(***************************************************************************)

\* Every variable keeps its type; in particular replay() is never given an item
\* that is not a whole record.
TypeOK ==
    /\ file \in Seq(Item)
    /\ phase \in {"down", "replaying", "running"}
    /\ recovered \in Seq(Record)
    /\ cursor \in 0..Len(recovered)
    /\ data \in [Key -> Value \cup {Absent}]
    /\ session \in Seq(Record)

\* m holds, for every key, what the last operation of s on that key left there.
LastWrites(s, m) ==
    \A k \in Key :
        \/ /\ \A i \in 1..Len(s) : s[i].key # k
           /\ m[k] = Absent
        \/ \E i \in 1..Len(s) :
              /\ s[i].key = k
              /\ m[k] = s[i].value
              /\ \A j \in (i + 1)..Len(s) : s[j].key # k

\* Once the constructor has returned, get() answers with the last write on the
\* key among the operations the store stands for: neither replay nor put/remove
\* loses, repeats or reorders one of them, whatever happened to the file.
MapIsLastWrites == phase = "running" => LastWrites(session, data)

\* The store implements PrefixStore: a restart forgets only a suffix of the
\* operations, and none that was written while the file was intact.
Abstract == INSTANCE PrefixStore WITH
                log <- session,
                safe <- goodPrefix(file),
                intact <- \A i \in DOMAIN file : Whole(file[i]),
                open <- phase # "down"

ImplementsPrefixStore == Abstract!PSpec

\* "By the time the constructor returns, get() already reflects everything
\* durably committed by a prior run" (kv_store.hpp): a restart finds every
\* operation that was acknowledged.
RestartKeepsAcknowledged ==
    [][phase = "down" /\ phase' = "replaying" => session' = session]_vars

-----------------------------------------------------------------------------
(***************************************************************************)
(* The inductive invariant.                                                *)
(***************************************************************************)

\* The whole records in front of the first damage are the store's first
\* operations, and all of them while there is no damage.
FileInv ==
    /\ goodPrefix(file) \in 0..Len(file)
    /\ IsGoodPrefix(file, goodPrefix(file))
    /\ goodPrefix(file) <= Len(session)
    /\ \A i \in 1..goodPrefix(file) : file[i] = session[i]
    /\ goodPrefix(file) = Len(file) => Len(session) = Len(file)

\* replay() has applied the first `cursor' operations of the session.
ReplayInv ==
    phase = "replaying" => /\ recovered = session
                           /\ LastWrites(SubSeq(session, 1, cursor), data)

IInv == TypeOK /\ FileInv /\ ReplayInv /\ MapIsLastWrites
=============================================================================
