--------------------------- MODULE StorageProofs ----------------------------
(***************************************************************************)
(* Proofs about what is kept in files: KVStore.tla for every set of keys   *)
(* and values and every length of the log file, and ObjectStore.tla for    *)
(* every repository.                                                       *)
(***************************************************************************)
EXTENDS KVStore, ObjectStore, SequenceTheorems, NaturalsInduction, WellFoundedInduction, TLAPS

\* A file has one good prefix, so a number that fits the definition is the one
\* recoverRecords finds.
LEMMA GoodPrefixIs ==
    ASSUME NEW f \in Seq(Item), NEW n \in 0..Len(f), IsGoodPrefix(f, n)
    PROVE  goodPrefix(f) = n
<1>1. Len(f) \in Nat
  OBVIOUS
<1>2. goodPrefix(f) \in 0..Len(f) /\ IsGoodPrefix(f, goodPrefix(f))
  BY DEF goodPrefix
<1>3. ASSUME NEW a \in 0..Len(f), NEW b \in 0..Len(f), a < b,
             IsGoodPrefix(f, a), IsGoodPrefix(f, b)
      PROVE  FALSE
  <2>1. a + 1 \in 1..b /\ a < Len(f)
    BY <1>1, <1>3
  <2> QED
    BY <1>3, <2>1 DEF IsGoodPrefix
<1> HIDE DEF goodPrefix
<1> QED
  BY <1>1, <1>2, <1>3

\* The good prefix after an append: a whole record extends it if the file was
\* intact, and anything else leaves it where it was.
LEMMA GoodPrefixAppend ==
    ASSUME NEW f \in Seq(Item), NEW x \in Item,
           goodPrefix(f) \in 0..Len(f), IsGoodPrefix(f, goodPrefix(f))
    PROVE  LET n == IF goodPrefix(f) = Len(f) /\ Whole(x)
                    THEN Len(f) + 1 ELSE goodPrefix(f)
           IN  /\ n \in 0..Len(Append(f, x))
               /\ IsGoodPrefix(Append(f, x), n)
               /\ goodPrefix(Append(f, x)) = n
<1> DEFINE g == Append(f, x)
           n == IF goodPrefix(f) = Len(f) /\ Whole(x) THEN Len(f) + 1 ELSE goodPrefix(f)
<1>1. /\ g \in Seq(Item) /\ Len(g) = Len(f) + 1 /\ Len(f) \in Nat
      /\ \A i \in 1..Len(f) : g[i] = f[i]
      /\ g[Len(f) + 1] = x
  OBVIOUS
<1> HIDE DEF g
<1>2. n \in 0..Len(g)
  BY <1>1
<1>3. IsGoodPrefix(g, n)
  <2>1. CASE goodPrefix(f) = Len(f) /\ Whole(x)
    BY <1>1, <2>1 DEF IsGoodPrefix
  <2>2. CASE goodPrefix(f) = Len(f) /\ ~Whole(x)
    BY <1>1, <2>2 DEF IsGoodPrefix
  <2>3. CASE goodPrefix(f) < Len(f)
    BY <1>1, <2>3 DEF IsGoodPrefix
  <2> QED
    BY <1>1, <2>1, <2>2, <2>3
<1>4. goodPrefix(g) = n
  BY <1>1, <1>2, <1>3, GoodPrefixIs
<1> QED
  BY <1>2, <1>3, <1>4 DEF g

\* The good prefix after bit rot ends in front of the flipped record, or where
\* it ended before.
LEMMA GoodPrefixRot ==
    ASSUME NEW f \in Seq(Item), NEW i \in 1..Len(f),
           goodPrefix(f) \in 0..Len(f), IsGoodPrefix(f, goodPrefix(f))
    PROVE  LET g == [f EXCEPT ![i] = [op |-> "flipped"]]
               n == IF i <= goodPrefix(f) THEN i - 1 ELSE goodPrefix(f)
           IN  /\ n \in 0..Len(g)
               /\ IsGoodPrefix(g, n)
               /\ goodPrefix(g) = n
<1> DEFINE x == [op |-> "flipped"]
           g == [f EXCEPT ![i] = x]
           n == IF i <= goodPrefix(f) THEN i - 1 ELSE goodPrefix(f)
<1>0. ~Whole(x) /\ x \in Item
  BY DEF Whole, Item, Flipped
<1>1. /\ g \in Seq(Item) /\ Len(g) = Len(f) /\ Len(f) \in Nat
      /\ \A j \in 1..Len(f) : g[j] = IF j = i THEN x ELSE f[j]
  BY <1>0
<1> HIDE DEF g, x
<1>2. n \in 0..Len(g)
  BY <1>1
<1>3. IsGoodPrefix(g, n)
  BY <1>0, <1>1 DEF IsGoodPrefix
<1>4. goodPrefix(g) = n
  BY <1>1, <1>2, <1>3, GoodPrefixIs
<1> QED
  BY <1>2, <1>3, <1>4 DEF g, x

\* What recoverRecords returns.
LEMMA RecoverSpec ==
    ASSUME NEW f \in Seq(Item), goodPrefix(f) \in 0..Len(f),
           IsGoodPrefix(f, goodPrefix(f))
    PROVE  /\ recoverRecords(f) \in Seq(Record)
           /\ Len(recoverRecords(f)) = goodPrefix(f)
           /\ \A i \in 1..goodPrefix(f) : recoverRecords(f)[i] = f[i]
<1>1. \A i \in 1..goodPrefix(f) : f[i] \in Record
  <2>1. \A x \in Item : Whole(x) => x \in Record
    BY DEF Item, Whole, Fragment, Flipped
  <2> QED
    BY <2>1 DEF IsGoodPrefix
<1> QED
  BY <1>1 DEF recoverRecords

-----------------------------------------------------------------------------
\* The shape of a record: a delete carries no value.
LEMMA RecordFields ==
    ASSUME NEW r \in Record
    PROVE  r.key \in Key /\ r.value \in Value \cup {Absent} /\ Whole(r) /\ r \in Item
BY DEF Record, Whole, Item

\* applyRecord keeps the map's type.
LEMMA ApplyType ==
    ASSUME NEW m \in [Key -> Value \cup {Absent}], NEW r \in Record
    PROVE  applyRecord(m, r) \in [Key -> Value \cup {Absent}]
BY RecordFields DEF applyRecord

\* Applying one more record to a map of last writes gives the map of last
\* writes of the longer sequence: replay() and put/remove agree.
LEMMA LastWritesAppend ==
    ASSUME NEW s \in Seq(Record), NEW r \in Record,
           NEW m \in [Key -> Value \cup {Absent}], LastWrites(s, m)
    PROVE  LastWrites(Append(s, r), applyRecord(m, r))
<1> DEFINE t == Append(s, r)
           w == applyRecord(m, r)
<1>1. /\ t \in Seq(Record) /\ Len(t) = Len(s) + 1 /\ Len(s) \in Nat
      /\ \A i \in 1..Len(s) : t[i] = s[i]
      /\ t[Len(s) + 1] = r
  OBVIOUS
<1>2. r.key \in Key /\ \A k \in Key : w[k] = IF k = r.key THEN r.value ELSE m[k]
  BY RecordFields DEF applyRecord
<1> HIDE DEF t, w
<1>3. ASSUME NEW k \in Key
      PROVE  \/ /\ \A i \in 1..Len(t) : t[i].key # k
                /\ w[k] = Absent
             \/ \E i \in 1..Len(t) :
                   /\ t[i].key = k
                   /\ w[k] = t[i].value
                   /\ \A j \in (i + 1)..Len(t) : t[j].key # k
  <2>1. CASE k = r.key
    <3>1. /\ Len(t) \in 1..Len(t) /\ t[Len(t)].key = k /\ w[k] = t[Len(t)].value
          /\ \A j \in (Len(t) + 1)..Len(t) : t[j].key # k
      BY <1>1, <1>2, <2>1
    <3> QED
      BY <3>1
  <2>2. CASE k # r.key /\ \A i \in 1..Len(s) : s[i].key # k
    <3>1. m[k] = Absent
      BY <2>2 DEF LastWrites
    <3> QED
      BY <1>1, <1>2, <2>2, <3>1
  <2>3. CASE k # r.key /\ ~(\A i \in 1..Len(s) : s[i].key # k)
    <3>1. PICK i \in 1..Len(s) : /\ s[i].key = k
                                 /\ m[k] = s[i].value
                                 /\ \A j \in (i + 1)..Len(s) : s[j].key # k
      BY <2>3 DEF LastWrites
    <3>2. i \in 1..Len(t) /\ t[i] = s[i]
      BY <1>1
    <3>3. w[k] = m[k]
      BY <1>2, <2>3
    <3>4. ASSUME NEW j \in (i + 1)..Len(t) PROVE t[j].key # k
      <4>1. CASE j = Len(s) + 1
        BY <1>1, <2>3, <4>1
      <4>2. CASE j # Len(s) + 1
        <5>1. j \in (i + 1)..Len(s) /\ j \in 1..Len(s)
          BY <1>1, <4>2
        <5> QED
          BY <1>1, <3>1, <5>1
      <4> QED
        BY <4>1, <4>2
    <3> QED
      BY <3>1, <3>2, <3>3, <3>4
  <2> QED
    BY <2>1, <2>2, <2>3
<1>4. LastWrites(t, w)
  BY <1>3 DEF LastWrites
<1> QED
  BY <1>4 DEF t, w

\* An empty map is that of no writes.
LEMMA LastWritesEmpty == LastWrites(<<>>, Empty)
BY DEF LastWrites, Empty

-----------------------------------------------------------------------------
\* The empty file and the process that was never started.
LEMMA InitIInv == Init => IInv
<1> SUFFICES ASSUME Init PROVE IInv
  OBVIOUS
<1>1. file \in Seq(Item) /\ Len(file) = 0 /\ 0 \in 0..Len(file)
  BY DEF Init
<1>2. IsGoodPrefix(file, 0)
  BY <1>1 DEF IsGoodPrefix
<1>3. goodPrefix(file) = 0
  BY <1>1, <1>2, GoodPrefixIs
<1>4. TypeOK
  BY DEF Init, TypeOK, Empty
<1>5. FileInv
  BY <1>1, <1>2, <1>3 DEF FileInv, Init
<1>6. ReplayInv /\ MapIsLastWrites
  BY DEF Init, ReplayInv, MapIsLastWrites
<1> QED
  BY <1>4, <1>5, <1>6 DEF IInv

\* A whole record at the end of the file and of the session keeps FileInv.
LEMMA FileAppend ==
    ASSUME TypeOK, FileInv, NEW r \in Record,
           file' = Append(file, r), session' = Append(session, r)
    PROVE  FileInv'
<1>1. r \in Item /\ Whole(r)
  BY RecordFields
<1>2. goodPrefix(file) \in 0..Len(file) /\ IsGoodPrefix(file, goodPrefix(file))
  BY DEF FileInv
<1>3. file \in Seq(Item) /\ session \in Seq(Record)
  BY DEF TypeOK
<1> DEFINE n == IF goodPrefix(file) = Len(file) THEN Len(file) + 1 ELSE goodPrefix(file)
<1>4. n \in 0..Len(file') /\ IsGoodPrefix(file', n) /\ goodPrefix(file') = n
  BY <1>1, <1>2, <1>3, GoodPrefixAppend
<1>5. /\ Len(file') = Len(file) + 1 /\ Len(session') = Len(session) + 1
      /\ \A i \in 1..Len(file) : file'[i] = file[i]
      /\ \A i \in 1..Len(session) : session'[i] = session[i]
      /\ file'[Len(file) + 1] = r /\ session'[Len(session) + 1] = r
      /\ Len(file) \in Nat /\ Len(session) \in Nat
  BY <1>3
<1>6. n <= Len(session')
  BY <1>2, <1>5 DEF FileInv
<1>7. \A i \in 1..n : file'[i] = session'[i]
  BY <1>2, <1>5 DEF FileInv
<1>8. n = Len(file') => Len(session') = Len(file')
  BY <1>2, <1>5 DEF FileInv
<1> QED
  BY <1>4, <1>6, <1>7, <1>8 DEF FileInv

\* A fragment at the end of the file keeps FileInv.
LEMMA FileTorn ==
    ASSUME TypeOK, FileInv, file' = Append(file, Torn), session' = session
    PROVE  FileInv'
<1>1. Torn \in Item /\ ~Whole(Torn)
  BY DEF Torn, Item, Fragment, Whole
<1>2. goodPrefix(file) \in 0..Len(file) /\ IsGoodPrefix(file, goodPrefix(file))
  BY DEF FileInv
<1>3. file \in Seq(Item)
  BY DEF TypeOK
<1> DEFINE n == goodPrefix(file)
<1>4. n \in 0..Len(file') /\ IsGoodPrefix(file', n) /\ goodPrefix(file') = n
  BY <1>1, <1>2, <1>3, GoodPrefixAppend
<1>5. /\ Len(file') = Len(file) + 1 /\ Len(file) \in Nat
      /\ \A i \in 1..Len(file) : file'[i] = file[i]
  BY <1>3
<1> QED
  BY <1>2, <1>4, <1>5 DEF FileInv

\* A flipped byte keeps FileInv.
LEMMA FileRot ==
    ASSUME TypeOK, FileInv, NEW i \in DOMAIN file, session' = session,
           file' = [file EXCEPT ![i] = [op |-> "flipped"]]
    PROVE  FileInv'
<1>1. i \in 1..Len(file) /\ file \in Seq(Item) /\ Len(file) \in Nat
  BY DEF TypeOK
<1>2. goodPrefix(file) \in 0..Len(file) /\ IsGoodPrefix(file, goodPrefix(file))
  BY DEF FileInv
<1> DEFINE n == IF i <= goodPrefix(file) THEN i - 1 ELSE goodPrefix(file)
<1>3. n \in 0..Len(file') /\ IsGoodPrefix(file', n) /\ goodPrefix(file') = n
  BY <1>1, <1>2, GoodPrefixRot
<1>4. Len(file') = Len(file) /\ \A j \in 1..Len(file) : j # i => file'[j] = file[j]
  BY <1>1
<1>5. n < Len(file)
  <2>1. CASE goodPrefix(file) = Len(file)
    BY <1>1, <2>1
  <2>2. CASE goodPrefix(file) # Len(file)
    BY <1>1, <1>2, <2>2
  <2> QED
    BY <2>1, <2>2
<1>6. n <= Len(session') /\ \A j \in 1..n : file'[j] = session'[j]
  <2>1. n <= goodPrefix(file) /\ \A j \in 1..n : j # i /\ j \in 1..Len(file)
                                                  /\ j \in 1..goodPrefix(file)
    BY <1>1, <1>2
  <2>2. Len(session) \in Nat
    BY DEF TypeOK
  <2> QED
    BY <1>2, <1>4, <2>1, <2>2 DEF FileInv
<1>7. n # Len(file')
  BY <1>1, <1>2, <1>4, <1>5
<1> HIDE DEF n
<1> QED
  BY <1>3, <1>6, <1>7 DEF FileInv

-----------------------------------------------------------------------------
\* IInv is inductive: one case per action.
LEMMA InductiveStep ==
    ASSUME IInv, [Next]_vars
    PROVE  IInv'
<1> USE DEF IInv
<1>1. CASE construct
  <2>1. /\ recoverRecords(file) \in Seq(Record)
        /\ Len(recoverRecords(file)) = goodPrefix(file)
        /\ \A i \in 1..goodPrefix(file) : recoverRecords(file)[i] = file[i]
    BY RecoverSpec DEF TypeOK, FileInv
  <2>2. TypeOK'
    BY <1>1, <2>1 DEF TypeOK, construct, Empty
  <2>3. FileInv'
    <3>1. UNCHANGED file /\ session' = recoverRecords(file)
      BY <1>1 DEF construct
    <3> QED
      BY <2>1, <3>1 DEF FileInv, TypeOK
  <2>4. ReplayInv'
    <3>1. SubSeq(session', 1, 0) = <<>>
      OBVIOUS
    <3> QED
      BY <1>1, <3>1, LastWritesEmpty DEF ReplayInv, construct
  <2>5. MapIsLastWrites'
    BY <1>1 DEF MapIsLastWrites, construct
  <2> QED
    BY <2>2, <2>3, <2>4, <2>5
<1>2. CASE replayRecord
  <2> DEFINE r == recovered[cursor + 1]
  <2>1. /\ phase = "replaying" /\ recovered = session /\ cursor + 1 \in 1..Len(session)
        /\ r \in Record /\ cursor \in Nat
    BY <1>2 DEF replayRecord, ReplayInv, TypeOK
  <2>2. data' = applyRecord(data, r) /\ cursor' = cursor + 1
        /\ UNCHANGED <<file, phase, recovered, session>>
    BY <1>2 DEF replayRecord
  <2>3. data' \in [Key -> Value \cup {Absent}]
    BY <2>1, <2>2, ApplyType DEF TypeOK
  <2>4. TypeOK'
    BY <2>1, <2>2, <2>3 DEF TypeOK
  <2>5. FileInv'
    BY <2>2 DEF FileInv
  <2>6. ReplayInv'
    <3>1. SubSeq(session, 1, cursor) \in Seq(Record)
      BY <2>1 DEF TypeOK
    <3>2. SubSeq(session, 1, cursor + 1) = Append(SubSeq(session, 1, cursor), r)
      BY <2>1 DEF TypeOK
    <3>3. LastWrites(SubSeq(session, 1, cursor + 1), data')
      BY <2>1, <2>2, <3>1, <3>2, LastWritesAppend DEF ReplayInv, TypeOK
    <3> QED
      BY <2>1, <2>2, <3>3 DEF ReplayInv
  <2>7. MapIsLastWrites'
    BY <2>1, <2>2 DEF MapIsLastWrites
  <2> QED
    BY <2>4, <2>5, <2>6, <2>7
<1>3. CASE replayDone
  <2>1. SubSeq(session, 1, Len(session)) = session
    BY DEF TypeOK
  <2>2. LastWrites(session, data)
    BY <1>3, <2>1 DEF replayDone, ReplayInv
  <2>3. TypeOK' /\ FileInv' /\ ReplayInv'
    BY <1>3 DEF replayDone, TypeOK, FileInv, ReplayInv
  <2>4. MapIsLastWrites'
    BY <1>3, <2>2 DEF replayDone, MapIsLastWrites
  <2> QED
    BY <2>3, <2>4
<1>4. ASSUME NEW r \in Record, mutate(r) PROVE IInv'
  <2>1. /\ file' = Append(file, r) /\ data' = applyRecord(data, r)
        /\ session' = Append(session, r) /\ phase = "running"
        /\ UNCHANGED <<phase, recovered, cursor>>
    BY <1>4 DEF mutate
  <2>2. data' \in [Key -> Value \cup {Absent}] /\ r \in Item
    BY <2>1, ApplyType, RecordFields DEF TypeOK
  <2>3. TypeOK'
    BY <2>1, <2>2 DEF TypeOK
  <2>4. FileInv'
    BY <2>1, FileAppend
  <2>5. ReplayInv'
    BY <2>1 DEF ReplayInv
  <2>6. MapIsLastWrites'
    BY <2>1, LastWritesAppend DEF MapIsLastWrites, TypeOK
  <2> QED
    BY <2>3, <2>4, <2>5, <2>6
<1>5. ASSUME NEW k \in Key, NEW v \in Value, put(k, v) PROVE IInv'
  <2>1. encodePut(k, v) \in Record
    BY DEF encodePut, Record
  <2> QED
    BY <1>4, <1>5, <2>1 DEF put
<1>6. ASSUME NEW k \in Key, remove(k) PROVE IInv'
  <2>1. encodeDelete(k) \in Record
    BY DEF encodeDelete, Record
  <2> QED
    BY <1>4, <1>6, <2>1 DEF remove
<1>7. CASE appendFails \/ crashTorn
  <2>1. /\ file' = Append(file, Torn) /\ phase = "running" /\ phase' \in {"down", "running"}
        /\ UNCHANGED <<recovered, cursor, data, session>>
    BY <1>7 DEF appendFails, crashTorn
  <2>2. TypeOK'
    BY <2>1 DEF TypeOK, Torn, Item, Fragment
  <2>3. FileInv'
    BY <2>1, FileTorn
  <2>4. ReplayInv' /\ MapIsLastWrites'
    BY <2>1 DEF ReplayInv, MapIsLastWrites
  <2> QED
    BY <2>2, <2>3, <2>4
<1>8. CASE crash
  <2>1. TypeOK' /\ FileInv'
    BY <1>8 DEF crash, TypeOK, FileInv
  <2>2. ReplayInv' /\ MapIsLastWrites'
    BY <1>8 DEF crash, ReplayInv, MapIsLastWrites
  <2> QED
    BY <2>1, <2>2
<1>9. ASSUME NEW r \in Record, crashUnacknowledged(r) PROVE IInv'
  <2>1. /\ file' = Append(file, r) /\ session' = Append(session, r) /\ phase' = "down"
        /\ UNCHANGED <<recovered, cursor, data>>
    BY <1>9 DEF crashUnacknowledged
  <2>2. TypeOK'
    BY <2>1, RecordFields DEF TypeOK
  <2>3. FileInv'
    BY <2>1, FileAppend
  <2>4. ReplayInv' /\ MapIsLastWrites'
    BY <2>1 DEF ReplayInv, MapIsLastWrites
  <2> QED
    BY <2>2, <2>3, <2>4
<1>10. ASSUME NEW i \in DOMAIN file, bitRot(i) PROVE IInv'
  <2>1. /\ file' = [file EXCEPT ![i] = [op |-> "flipped"]]
        /\ UNCHANGED <<phase, recovered, cursor, data, session>>
    BY <1>10 DEF bitRot
  <2>2. TypeOK'
    BY <2>1 DEF TypeOK, Item, Flipped
  <2>3. FileInv'
    BY <2>1, FileRot
  <2>4. ReplayInv' /\ MapIsLastWrites'
    BY <2>1 DEF ReplayInv, MapIsLastWrites
  <2> QED
    BY <2>2, <2>3, <2>4
<1>11. CASE UNCHANGED vars
  BY <1>11 DEF vars, TypeOK, FileInv, ReplayInv, MapIsLastWrites
<1> QED
  BY <1>1, <1>2, <1>3, <1>5, <1>6, <1>7, <1>8, <1>9, <1>10, <1>11 DEF Next

\* Every reachable state satisfies the inductive invariant.
THEOREM Inductive == Spec => []IInv
<1>1. Init => IInv
  BY InitIInv
<1>2. IInv /\ [Next]_vars => IInv'
  BY InductiveStep
<1> QED
  BY <1>1, <1>2, PTL DEF Spec

\* The map of an open store is that of the last writes of the operations it
\* stands for, through any crashes, torn appends and damage.
THEOREM MapCorrect == Spec => []MapIsLastWrites
<1>1. IInv => MapIsLastWrites
  BY DEF IInv
<1> QED
  BY <1>1, Inductive, PTL

\* The types of the variables: replay() only sees whole records.
THEOREM TypeCorrect == Spec => []TypeOK
<1>1. IInv => TypeOK
  BY DEF IInv
<1> QED
  BY <1>1, Inductive, PTL

-----------------------------------------------------------------------------
\* In terms of the good prefix, the file is intact when it has no damage.
LEMMA IntactIs ==
    ASSUME NEW f \in Seq(Item), goodPrefix(f) \in 0..Len(f),
           IsGoodPrefix(f, goodPrefix(f))
    PROVE  (\A i \in DOMAIN f : Whole(f[i])) <=> goodPrefix(f) = Len(f)
<1>1. DOMAIN f = 1..Len(f) /\ Len(f) \in Nat
  OBVIOUS
<1>2. goodPrefix(f) < Len(f) => ~Whole(f[goodPrefix(f) + 1])
                                /\ goodPrefix(f) + 1 \in DOMAIN f
  BY <1>1 DEF IsGoodPrefix
<1>3. goodPrefix(f) = Len(f) => \A i \in DOMAIN f : Whole(f[i])
  BY <1>1 DEF IsGoodPrefix
<1> QED
  BY <1>1, <1>2, <1>3

\* The store implements PrefixStore: each of its steps is a step of the abstract
\* store or leaves it as it is.
THEOREM Implements == Spec => ImplementsPrefixStore
<1> DEFINE gp == goodPrefix(file)
           ok == \A i \in DOMAIN file : Whole(file[i])
<1>1. Init => Abstract!PInit
  <2> SUFFICES ASSUME Init PROVE Abstract!PInit
    OBVIOUS
  <2>1. file = <<>> /\ session = <<>> /\ phase = "down"
    BY DEF Init
  <2>2. gp = 0
    BY <2>1, InitIInv DEF IInv, FileInv
  <2>3. ok
    BY <2>1
  <2> QED
    BY <2>1, <2>2, <2>3 DEF Abstract!PInit
<1>2. ASSUME IInv, IInv', [Next]_vars PROVE [Abstract!PNext]_Abstract!pvars
  <2> USE <1>2
  <2>0. /\ file \in Seq(Item) /\ gp \in 0..Len(file) /\ IsGoodPrefix(file, gp)
        /\ ok <=> gp = Len(file)
    BY IntactIs DEF IInv, TypeOK, FileInv
  <2>1. CASE construct
    <3>1. session' = SubSeq(session, 1, gp)
      <4>1. recoverRecords(file) = SubSeq(session, 1, gp)
        <5>1. gp \in 0..Len(session) /\ session \in Seq(Record)
          BY <2>0 DEF IInv, TypeOK, FileInv
        <5> QED
          BY <2>0, <5>1 DEF recoverRecords, IInv, FileInv
      <4> QED
        BY <2>1, <4>1 DEF construct
    <3>2. UNCHANGED file /\ phase = "down" /\ phase' # "down"
      BY <2>1 DEF construct
    <3> QED
      BY <3>1, <3>2 DEF Abstract!PNext, Abstract!Reopen
  <2>2. CASE replayRecord \/ replayDone
    <3>1. UNCHANGED <<file, session>> /\ phase # "down" /\ phase' # "down"
      BY <2>2 DEF replayRecord, replayDone
    <3> QED
      BY <3>1 DEF Abstract!pvars
  <2>3. ASSUME NEW r \in Record, file' = Append(file, r), session' = Append(session, r),
               phase # "down"
        PROVE  /\ phase' # "down" => Abstract!Commit(r)
               /\ phase' = "down" => Abstract!Die
    <3>1. /\ gp' = IF gp = Len(file) THEN Len(file) + 1 ELSE gp
          /\ Len(file') = Len(file) + 1
      BY <2>0, <2>3, GoodPrefixAppend, RecordFields
    <3>2. ok' <=> gp' = Len(file')
      BY IntactIs DEF IInv, TypeOK, FileInv
    <3>3. gp' = IF ok THEN gp + 1 ELSE gp
      BY <2>0, <3>1
    <3>4. ok' <=> ok
      BY <2>0, <3>1, <3>2
    <3> QED
      BY <2>3, <3>3, <3>4 DEF Abstract!Commit, Abstract!Die
  <2>4. ASSUME NEW r \in Record, mutate(r) PROVE Abstract!PNext
    <3>1. Abstract!Commit(r)
      BY <2>3, <2>4 DEF mutate
    <3> QED
      BY <3>1 DEF Abstract!PNext
  <2>5. ASSUME NEW k \in Key, NEW v \in Value, put(k, v) PROVE Abstract!PNext
    BY <2>4, <2>5 DEF put, encodePut, Record
  <2>6. ASSUME NEW k \in Key, remove(k) PROVE Abstract!PNext
    BY <2>4, <2>6 DEF remove, encodeDelete, Record
  <2>7. CASE appendFails \/ crashTorn
    <3>1. /\ file' = Append(file, Torn) /\ session' = session /\ phase # "down"
          /\ Torn \in Item /\ ~Whole(Torn)
      BY <2>7 DEF appendFails, crashTorn, Torn, Item, Fragment, Whole
    <3>2. gp' = gp /\ Len(file') = Len(file) + 1
      BY <2>0, <3>1, GoodPrefixAppend
    <3>3. ~ok'
      <4>1. ok' <=> gp' = Len(file')
        BY IntactIs DEF IInv, TypeOK, FileInv
      <4> QED
        BY <2>0, <3>2, <4>1
    <3> QED
      BY <3>1, <3>2, <3>3 DEF Abstract!PNext, Abstract!Tear
  <2>8. CASE crash
    BY <2>8 DEF crash, Abstract!PNext, Abstract!Die
  <2>9. ASSUME NEW r \in Record, crashUnacknowledged(r) PROVE Abstract!PNext
    <3>1. Abstract!Die
      BY <2>3, <2>9 DEF crashUnacknowledged
    <3> QED
      BY <3>1 DEF Abstract!PNext
  <2>10. ASSUME NEW i \in DOMAIN file, bitRot(i) PROVE Abstract!PNext
    <3>1. /\ file' = [file EXCEPT ![i] = [op |-> "flipped"]]
          /\ UNCHANGED <<session, phase>> /\ i \in 1..Len(file) /\ Len(file') = Len(file)
      BY <2>0, <2>10 DEF bitRot
    <3>2. gp' = IF i <= gp THEN i - 1 ELSE gp
      BY <2>0, <3>1, GoodPrefixRot
    <3>3. gp' \in 0..gp
      BY <2>0, <3>1, <3>2
    <3>4. ~ok'
      <4>1. ~Whole(file'[i]) /\ i \in DOMAIN file'
        BY <3>1 DEF Whole
      <4> QED
        BY <4>1
    <3> QED
      BY <3>1, <3>3, <3>4 DEF Abstract!PNext, Abstract!Decay
  <2>11. CASE UNCHANGED vars
    BY <2>11 DEF vars, Abstract!pvars
  <2> QED
    BY <2>1, <2>2, <2>5, <2>6, <2>7, <2>8, <2>9, <2>10, <2>11 DEF Next
<1> QED
  BY <1>1, <1>2, Inductive, PTL DEF Spec, ImplementsPrefixStore, Abstract!PSpec

-----------------------------------------------------------------------------
(***************************************************************************)
(* The object store.                                                       *)
(***************************************************************************)

\* What HistoryIntact says of a repository that was not spoiled.
Sound ==
    /\ \A id \in Readable : Parts(id) \subseteq Readable
    /\ \A b \in DOMAIN branches : Read(branches[b], "commit")
    /\ "commit" \in DOMAIN head => Read(head.commit, "commit")
    /\ \A id \in Indexed : Read(id, "blob")

LEMMA IntactIsSound == HistoryIntact <=> (~spoiled => Sound)
  BY DEF HistoryIntact, Sound

\* Whatever a caller comes by in a sound repository can be read.
LEMMA KnownReadable ==
    ASSUME Sound
    PROVE  Known \subseteq Readable
<1>1. Indexed \subseteq Readable
  BY DEF Sound, Read
<1>2. ASSUME NEW x \in Named PROVE x \in Readable
  <2>1. CASE x \in Range(branches)
    BY <2>1 DEF Sound, Read, Range
  <2>2. CASE head # TornFile /\ "commit" \in DOMAIN head /\ x = head.commit
    BY <2>2 DEF Sound, Read
  <2> QED
    BY <1>2, <2>1, <2>2 DEF Named
<1>3. UNION {Parts(id) : id \in Readable} \subseteq Readable
  BY DEF Sound
<1>4. Named \subseteq Readable
  BY <1>2
<1> QED
  BY <1>1, <1>3, <1>4 DEF Known

\* An index that takes only blobs that can be read names only such blobs.
LEMMA IndexSound ==
    ASSUME NEW ids, IndexFrom(ids), Sound, Readable \subseteq Readable',
           \A id \in ids : Read(id, "blob")'
    PROVE  (\A id \in Indexed : Read(id, "blob"))'
<1>1. Indexed' \subseteq Indexed \cup ids
  BY DEF IndexFrom, Indexed
<1>2. \A id \in Indexed : id \in Readable' /\ id.k = "blob"
  BY DEF Sound, Read
<1>3. \A id \in ids : id \in Readable' /\ id.k = "blob"
  BY DEF Read
<1>4. \A id \in Indexed' : id \in Readable' /\ id.k = "blob"
  BY <1>1, <1>2, <1>3
<1> QED
  BY <1>4 DEF Read

LEMMA StoreInitIntact == StoreInit => HistoryIntact
<1> SUFFICES ASSUME StoreInit PROVE Sound
  BY IntactIsSound
<1>1. Readable = objects
  BY DEF StoreInit, Readable
<1>2. "commit" \notin DOMAIN head
  BY DEF StoreInit, ToBranch
<1>3. LineIds(indexFile) = {}
  BY DEF StoreInit, LineIds
<1>4. Indexed = {}
  BY <1>3 DEF StoreInit, Indexed
<1> QED
  BY <1>1, <1>2, <1>4 DEF StoreInit, Sound

\* A whole object is added, and its parts were there before.
LEMMA PutIntact ==
    ASSUME HistoryIntact, StorePut
    PROVE  HistoryIntact'
<1> SUFFICES ASSUME ~spoiled' PROVE Sound'
  BY DEF HistoryIntact, Sound
<1>1. PICK id : /\ Parts(id) \subseteq Known
                /\ writeObject(id)
                /\ IndexFrom(IF id.k = "blob" THEN {id} ELSE {})
                /\ UNCHANGED <<branches, head, spoiled>>
  BY DEF StorePut
<1>2. Sound
  BY <1>1, IntactIsSound
<1>3. Readable' = Readable \cup {id}
  BY <1>1 DEF Readable, writeObject
<1>4. Parts(id) \subseteq Readable
  BY <1>1, <1>2, KnownReadable
<1>5. (\A x \in Readable : Parts(x) \subseteq Readable)'
  BY <1>2, <1>3, <1>4 DEF Sound
<1>6. (\A b \in DOMAIN branches : Read(branches[b], "commit"))'
  BY <1>1, <1>2, <1>3 DEF Sound, Read
<1>7. ("commit" \in DOMAIN head => Read(head.commit, "commit"))'
  BY <1>1, <1>2, <1>3 DEF Sound, Read
<1>8. (\A x \in Indexed : Read(x, "blob"))'
  <2>1. \A x \in IF id.k = "blob" THEN {id} ELSE {} : Read(x, "blob")'
    BY <1>3 DEF Read
  <2> QED
    BY <1>1, <1>2, <1>3, <2>1, IndexSound
<1> QED
  BY <1>5, <1>6, <1>7, <1>8 DEF Sound

\* A write cut short leaves a file that cannot be read; unless the file was
\* whole before, nothing readable is lost.
LEMMA PutCutIntact ==
    ASSUME HistoryIntact, StorePutCut
    PROVE  HistoryIntact'
<1> SUFFICES ASSUME ~spoiled' PROVE Sound'
  BY DEF HistoryIntact, Sound
<1>1. PICK id : writeObjectCut(id)
  BY DEF StorePutCut
<1>2. ~spoiled /\ id \notin Readable
  BY <1>1 DEF writeObjectCut
<1>3. Sound
  BY <1>2, IntactIsSound
<1>4. Readable' = Readable
  BY <1>1, <1>2 DEF Readable, writeObjectCut
<1>5. (\A x \in Indexed : Read(x, "blob"))'
  BY <1>3, <1>4, IndexSound DEF StorePutCut
<1> QED
  BY <1>3, <1>4, <1>5 DEF Sound, Read, StorePutCut

\* A ref that is not cut short names a commit that can be read.
LEMMA RefIntact ==
    ASSUME HistoryIntact, StoreRef
    PROVE  HistoryIntact'
<1> SUFFICES ASSUME ~spoiled' PROVE Sound'
  BY DEF HistoryIntact, Sound
<1>1. Readable' = Readable
  BY DEF StoreRef, Readable
<1>2. \/ \E b \in Branch, id \in Commits : setBranch(b, id)
      \/ \E b \in Branch : setHead(ToBranch(b))
      \/ \E id \in Commits : setHead(ToCommit(id))
      \/ \E b \in DOMAIN branches : deleteBranch(b)
  BY DEF StoreRef, setBranchCut, setHeadCut
<1>3. spoiled' = spoiled
  BY <1>2 DEF setBranch, setHead, deleteBranch
<1>4. Sound
  BY <1>3, IntactIsSound
<1>5. (\A id \in Indexed : Read(id, "blob"))'
  BY <1>1, <1>4, IndexSound DEF StoreRef
<1>6. (\A id \in Readable : Parts(id) \subseteq Readable)'
  BY <1>1, <1>4 DEF Sound
<1>7. (\A b \in DOMAIN branches : Read(branches[b], "commit"))'
  <2>1. CASE \E b \in Branch, id \in Commits : setBranch(b, id)
    BY <1>1, <1>4, <2>1 DEF Sound, Read, setBranch, With, Commits
  <2>2. CASE branches' = branches
    BY <1>1, <1>4, <2>2 DEF Sound, Read
  <2>3. CASE \E b \in DOMAIN branches : deleteBranch(b)
    BY <1>1, <1>4, <2>3 DEF Sound, Read, deleteBranch, Without
  <2> QED
    BY <1>2, <2>1, <2>2, <2>3 DEF setHead
<1>8. ("commit" \in DOMAIN head => Read(head.commit, "commit"))'
  <2>1. CASE \E b \in Branch : setHead(ToBranch(b))
    BY <2>1 DEF setHead, ToBranch
  <2>2. CASE \E id \in Commits : setHead(ToCommit(id))
    BY <1>1, <2>2 DEF setHead, ToCommit, Commits, Read
  <2>3. CASE head' = head
    BY <1>1, <1>4, <2>3 DEF Sound, Read
  <2> QED
    BY <1>2, <2>1, <2>2, <2>3 DEF setBranch, deleteBranch
<1> QED
  BY <1>5, <1>6, <1>7, <1>8 DEF Sound

LEMMA IndexIntact ==
    ASSUME HistoryIntact, StoreIndex
    PROVE  HistoryIntact'
<1> SUFFICES ASSUME ~spoiled' PROVE Sound'
  BY DEF HistoryIntact, Sound
<1>1. Readable' = Readable /\ branches' = branches /\ head' = head /\ spoiled' = spoiled
  BY DEF StoreIndex, repository, Readable
<1>2. Sound
  BY <1>1, IntactIsSound
<1>3. (\A id \in Indexed : Read(id, "blob"))'
  BY <1>1, <1>2, IndexSound DEF StoreIndex
<1> QED
  BY <1>1, <1>2, <1>3 DEF Sound, Read

\* A repository written in this order stays usable: while no whole file is cut
\* short or damaged, what is readable has all its parts and refs and index name
\* readable objects, after a death in any write and between any two.
THEOREM RepositoryIntact == StoreSpec => []HistoryIntact
<1>1. HistoryIntact /\ [StoreNext]_storeVars => HistoryIntact'
  <2> SUFFICES ASSUME HistoryIntact, [StoreNext]_storeVars PROVE HistoryIntact'
    OBVIOUS
  <2>1. CASE StoreDamage
    BY <2>1 DEF StoreDamage, damageObject, HistoryIntact
  <2>2. CASE UNCHANGED storeVars
    BY <2>2 DEF storeVars, HistoryIntact, Readable, Read, Indexed
  <2> QED
    BY <2>1, <2>2, PutIntact, PutCutIntact, RefIntact, IndexIntact DEF StoreNext
<1> QED
  BY <1>1, StoreInitIntact, PTL DEF StoreSpec

(***************************************************************************)
(* From a ref or the index, an object n steps away: f[0] is named there,   *)
(* and each f[i + 1] is a part of f[i].                                    *)
(***************************************************************************)
Trail(f, n) ==
    /\ f[0] \in Named \cup Indexed
    /\ \A i \in 0..(n - 1) : f[i + 1] \in Parts(f[i])

\* While no whole file is cut short or damaged, everything that can be reached
\* from a ref or the index can be read: every log, checkout and merge finds all
\* the objects it asks for.
TrailsReadable == ~spoiled => \A n \in Nat : \A f : Trail(f, n) => f[n] \in Readable

\* A set of numbers that is not empty has a least member.
LEMMA LeastMember ==
    ASSUME NEW S \in SUBSET Nat, S # {}
    PROVE  \E x \in S : \A y \in S : x <= y
<1>1. PICK x \in S : \A y \in S : ~(<<y, x>> \in OpToRel(<, Nat))
  BY NatLessThanWellFounded, WFMin
<1>2. \A y \in S : ~(y < x)
  <2> TAKE y \in S
  <2>1. <<y, x>> \in Nat \X Nat
    OBVIOUS
  <2>2. y < x => <<y, x>> \in OpToRel(<, Nat)
    BY <2>1, Zenon DEF OpToRel
  <2> QED
    BY <1>1, <2>2
<1> QED
  BY <1>2

LEMMA SoundTrails ==
    ASSUME Sound, NEW n \in Nat, NEW f, Trail(f, n)
    PROVE  f[n] \in Readable
<1> DEFINE S == {i \in 0..n : f[i] \notin Readable}
<1> SUFFICES S = {}
  OBVIOUS
<1>1. f[0] \in Readable
  <2>1. f[0] \in Known
    BY DEF Trail, Known
  <2> QED
    BY <2>1, KnownReadable
<1>2. ASSUME S # {} PROVE FALSE
  <2>0. S \in SUBSET Nat
    OBVIOUS
  <2> HIDE DEF S
  <2>1. PICK x \in S : \A y \in S : x <= y
    BY <1>2, <2>0, LeastMember
  <2> USE DEF S
  <2>2. x # 0 /\ x - 1 \in 0..(n - 1) /\ (x - 1) + 1 = x
    BY <1>1, <2>1
  <2>3. f[x - 1] \in Readable
    BY <2>1, <2>2
  <2>4. f[x] \in Parts(f[x - 1])
    BY <2>2 DEF Trail
  <2>5. f[x] \in Readable
    BY <2>3, <2>4 DEF Sound
  <2> QED
    BY <2>1, <2>5
<1> QED
  BY <1>2

\* The order of the writes protects the whole history behind every ref, however
\* long, and everything staged.
THEOREM WholeHistoryReadable == StoreSpec => []TrailsReadable
<1>1. HistoryIntact => TrailsReadable
  BY IntactIsSound, SoundTrails DEF TrailsReadable
<1> QED
  BY <1>1, RepositoryIntact, PTL
=============================================================================
