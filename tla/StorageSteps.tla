---------------------------- MODULE StorageSteps ----------------------------
(***************************************************************************)
(* The invariant of secure storage, what each step does to the files and   *)
(* to the directory, and that the steps on object files keep the invariant.*)
(***************************************************************************)
EXTENDS Storage, SequenceTheorems, NaturalsInduction, WellFoundedInduction, TLAPS

Files == FileId \cup {Zero}
OpenHandle == [oid : Oid, fid : FileId, ver : 1..MaxVersion, data : Data]

\* The calls in progress, by what they carry.
Calls ==
  {Idle}
    \cup [op : {"create"}, at : {"store_dir"}, h : OpenHandle, slot : Slot, entries : Seq(Oid)]
    \cup [op : {"write"}, at : {"upsert_dir"}, h : OpenHandle]
    \cup [op : {"delete"}, at : {"store_dir_full"}, oid : Oid, rest : Seq(Entry)]
    \cup [op : {"rename"}, at : {"delete", "store_dir_full", "store_dir"}, h : OpenHandle, oid : Oid,
          rest : Seq(Entry)]

StorageTypes ==
  /\ dir \in {Missing, Torn} \cup Seq(Entry)
  /\ obj \in [Files -> {Missing, Torn} \cup Blob]
  /\ obj[Zero] = Missing
  /\ handles \in [Slot -> {Missing} \cup OpenHandle]
  /\ call \in Calls
  /\ ret \in {"ok", "err"} /\ may \in [Oid -> SUBSET Data] /\ calm \in BOOLEAN

IsDir(d) == d \notin {Missing, Torn}

\* The file of an entry is the one the entry names, in the version it names.
Shows(files, e) == decrypts(e.oid, e.ver, files[e.fid])

\* Only the first entry of an object id has a file.
Doubles(d) == \A i, j \in DOMAIN d : i < j /\ d[i].oid = d[j].oid => d[j].fid = Zero

\* What a directory shows, with the files, is among the contents m.
Fresh(d, files, m) ==
  \A i \in DOMAIN d : Shows(files, d[i]) => files[d[i].fid].data \in m[d[i].oid]

DirOk(d, files, m) == Doubles(d) /\ Fresh(d, files, m)

\* No entry of o has a file.
NoFileOf(d, o) == \A i \in DOMAIN d : d[i].oid = o => d[i].fid = Zero

Part(rest, d) == \A i \in DOMAIN rest : \E j \in DOMAIN d : rest[i] = d[j]

\* What is true in the middle of a call.
CallOk ==
  /\ call.op \in {"create", "write"} => obj[call.h.fid] = ObjectOf(call.h)
  /\ call.op = "rename" => obj[call.h.fid] \in {Missing, ObjectOf(call.h)}
  /\ call.op \in {"create", "write", "rename"} => call.h.data \in may[call.h.oid]
  /\ call.op = "create" =>
       \/ call.entries = <<call.h.oid>>
       \/ /\ IsDir(dir)
          /\ call.entries = Append(ObjectIds(dir), call.h.oid)
          /\ \A i \in DOMAIN dir : dir[i].oid # call.h.oid
  /\ call.op = "delete" \/ (call.op = "rename" /\ call.at = "store_dir_full") =>
       IsDir(dir) /\ Doubles(call.rest) /\ NoFileOf(call.rest, call.oid) /\ Part(call.rest, dir)
  /\ call.op = "rename" /\ call.at = "store_dir" => IsDir(dir) /\ NoFileOf(dir, call.oid)

StorageInv == StorageTypes /\ (IsDir(dir) => DirOk(dir, obj, may)) /\ CallOk

-----------------------------------------------------------------------------
(* Directories *)

\* Min picks the least element.
LEMMA LeastIndex ==
    ASSUME NEW S \in SUBSET Nat, S # {}
    PROVE  Min(S) \in S /\ \A t \in S : Min(S) <= t
  <1>1. \E s \in S : \A t \in S : ~(<<t, s>> \in OpToRel(<, Nat))
    BY WFMin, NatLessThanWellFounded, Zenon
  <1>2. \A s, t \in Nat : t < s => <<t, s>> \in OpToRel(<, Nat)
    BY DEF OpToRel
  <1>3. PICK s \in S : \A t \in S : ~(<<t, s>> \in OpToRel(<, Nat))
    BY <1>1, Zenon
  <1>4. \A t \in S : ~(t < s)
    BY <1>2, <1>3, Zenon
  <1>5. \E r \in S : \A t \in S : r <= t
    BY <1>4
  <1> QED BY <1>5, Zenon DEF Min

\* The entries of a directory are numbered from 1.
LEMMA Numbered ==
    ASSUME NEW S, NEW d \in Seq(S)
    PROVE  Len(d) \in Nat /\ DOMAIN d = 1..Len(d) /\ \A i \in DOMAIN d : d[i] \in S
  BY LenProperties, ElementOfSeq

\* Functions on 1..n are sequences.
LEMMA IndexedIsSeq ==
    ASSUME NEW S, NEW n \in Nat, NEW f, f = [i \in 1..n |-> f[i]], \A i \in 1..n : f[i] \in S
    PROVE  f \in Seq(S) /\ Len(f) = n /\ DOMAIN f = 1..n
  <1>1. f \in [1..n -> S]
    OBVIOUS
  <1>2. f \in Seq(S)
    BY <1>1, IsASeq
  <1>3. DOMAIN f = 1..n /\ DOMAIN f = 1..Len(f) /\ Len(f) \in Nat
    BY <1>1, <1>2, LenProperties
  <1> QED BY <1>2, <1>3

\* position finds the first entry of an object id, if there is one.
LEMMA PositionFinds ==
    ASSUME NEW d \in Seq(Entry), NEW o
    PROVE  /\ Listed(d, o) <=> \E i \in DOMAIN d : d[i].oid = o
           /\ Listed(d, o) => /\ position(d, o) \in DOMAIN d /\ d[position(d, o)].oid = o
                              /\ \A i \in DOMAIN d : d[i].oid = o => position(d, o) <= i
  <1> DEFINE I == {i \in DOMAIN d : d[i].oid = o}
  <1>1. position(d, o) = IF I # {} THEN Min(I) ELSE 0
    BY DEF position
  <1>2. I \in SUBSET Nat /\ DOMAIN d = 1..Len(d) /\ Len(d) \in Nat
    BY Numbered
  <1>3. CASE I = {}
    <2>1. ~Listed(d, o)
      BY <1>1, <1>3 DEF Listed
    <2> QED BY <1>2, <1>3, <2>1
  <1>4. CASE I # {}
    <2>1. Min(I) \in I /\ \A t \in I : Min(I) <= t
      BY <1>2, <1>4, LeastIndex, Zenon
    <2>2. position(d, o) = Min(I)
      BY <1>1, <1>4
    <2> HIDE DEF I
    <2>3. position(d, o) \in I /\ \A t \in I : position(d, o) <= t
      BY <2>1, <2>2
    <2> USE DEF I
    <2>4. Listed(d, o)
      BY <1>2, <2>3 DEF Listed
    <2> QED BY <1>2, <2>3, <2>4
  <1> QED BY <1>3, <1>4

\* An empty directory lists nothing.
LEMMA NothingListed == \A o : <<>> \in Seq(Entry) /\ ~Listed(<<>>, o)
  <1> SUFFICES ASSUME NEW o PROVE <<>> \in Seq(Entry) /\ ~Listed(<<>>, o)
    OBVIOUS
  <1>1. <<>> \in Seq(Entry) /\ DOMAIN <<>> = {}
    OBVIOUS
  <1>2. Listed(<<>>, o) => \E i \in DOMAIN <<>> : TRUE
    BY <1>1, PositionFinds, Zenon
  <1> QED BY <1>1, <1>2

\* remove closes the gap.
LEMMA Removed ==
    ASSUME NEW d \in Seq(Entry), NEW p \in DOMAIN d
    PROVE  LET r == remove(d, p)
           IN  /\ r \in Seq(Entry) /\ DOMAIN r = 1..(Len(d) - 1)
               /\ \A i \in DOMAIN r : r[i] = IF i < p THEN d[i] ELSE d[i + 1]
  <1> DEFINE a == SubSeq(d, 1, p - 1)
             b == SubSeq(d, p + 1, Len(d))
             r == remove(d, p)
  <1>1. Len(d) \in Nat /\ DOMAIN d = 1..Len(d) /\ p \in 1..Len(d)
    BY Numbered
  <1>2. a \in Seq(Entry) /\ Len(a) = p - 1 /\ \A i \in 1..(p - 1) : a[i] = d[i]
    <2>1. 1 \in Nat /\ p - 1 \in Nat /\ \A i \in 1..(p - 1) : i \in 1..Len(d)
      BY <1>1
    <2> QED BY <1>1, <2>1, SubSeqProperties
  <1>3. b \in Seq(Entry) /\ Len(b) = Len(d) - p /\ \A i \in 1..(Len(d) - p) : b[i] = d[p + i]
    <2>1. p + 1 \in Nat /\ \A i \in (p + 1)..Len(d) : i \in 1..Len(d)
      BY <1>1
    <2> QED BY <1>1, <2>1, SubSeqProperties
  <1>4. r = a \o b
    BY DEF remove
  <1> HIDE DEF a, b, r
  <1>5. /\ r \in Seq(Entry) /\ Len(r) = Len(a) + Len(b)
        /\ \A i \in 1..Len(a) + Len(b) : r[i] = IF i <= Len(a) THEN a[i] ELSE b[i - Len(a)]
    BY <1>2, <1>3, <1>4, ConcatProperties, Zenon
  <1>6. DOMAIN r = 1..(Len(d) - 1)
    BY <1>1, <1>2, <1>3, <1>5, Numbered
  <1>7. ASSUME NEW i \in 1..(Len(d) - 1)
        PROVE  r[i] = IF i < p THEN d[i] ELSE d[i + 1]
    <2>1. r[i] = IF i <= p - 1 THEN a[i] ELSE b[i - (p - 1)]
      BY <1>1, <1>2, <1>3, <1>5
    <2>2. CASE i < p
      BY <1>1, <1>2, <2>1, <2>2
    <2>3. CASE ~(i < p)
      <3>1. i - (p - 1) \in 1..(Len(d) - p) /\ p + (i - (p - 1)) = i + 1
        BY <1>1, <2>3
      <3> QED BY <1>1, <1>3, <2>1, <2>3, <3>1
    <2> QED BY <2>2, <2>3
  <1> QED BY <1>5, <1>6, <1>7 DEF r

Stored(new, ids, d, h) ==
  /\ new \in Seq(Entry) /\ DOMAIN new = DOMAIN ids
  /\ new[1] = [oid |-> ids[1], fid |-> h.fid, ver |-> h.ver]
  /\ \A i \in DOMAIN ids \ {1} :
        new[i] = IF i \in DOMAIN d THEN [d[i] EXCEPT !.oid = ids[i]]
                 ELSE [oid |-> ids[i], fid |-> Zero, ver |-> 1]

\* What store_dir writes: the pair of the new object at the first place, the old pairs
\* at theirs, and the default where there is none.
LEMMA StoreDirIs ==
    ASSUME NEW ids \in Seq(Oid), ids # <<>>, NEW d \in Seq(Entry), NEW r,
           r = d \/ (r = Missing /\ d = <<>>), r = d => r # Missing, NEW h \in OpenHandle
    PROVE  Stored(store_dir(ids, r, h), ids, d, h)
  <1> DEFINE x == [fid |-> h.fid, ver |-> h.ver]
             existing == [i \in DOMAIN d |-> [fid |-> d[i].fid, ver |-> d[i].ver]]
             files == IF existing = <<>> THEN <<x>> ELSE [existing EXCEPT ![1] = x]
             file(i) == IF i <= Len(files) THEN files[i] ELSE [fid |-> Zero, ver |-> 1]
             new == [i \in DOMAIN ids |-> [oid |-> ids[i], fid |-> file(i).fid, ver |-> file(i).ver]]
             Pair == [fid : Files, ver : 1..MaxVersion]
  <1>1. /\ Len(d) \in Nat /\ DOMAIN d = 1..Len(d) /\ \A i \in DOMAIN d : d[i] \in Entry
        /\ Len(ids) \in Nat /\ DOMAIN ids = 1..Len(ids) /\ \A i \in DOMAIN ids : ids[i] \in Oid
        /\ 1 \in DOMAIN ids
    <2>1. Len(ids) # 0
      BY EmptySeq, LenProperties
    <2> QED BY <2>1, Numbered
  <1>2. unwrap_or_default(r) = d
    BY DEF unwrap_or_default
  <1>3. store_dir(ids, r, h) = new
    <2>1. CASE r = d
      BY <1>2, <2>1 DEF store_dir
    <2>2. CASE r = Missing /\ d = <<>>
      <3>1. [i \in DOMAIN d |-> [fid |-> r[i].fid, ver |-> r[i].ver]] = existing
        BY <1>1, <2>2
      <3> QED BY <1>2, <3>1 DEF store_dir
    <2> QED BY <2>1, <2>2, Zenon
  <1>4. existing \in Seq(Pair) /\ Len(existing) = Len(d)
    <2>1. \A i \in 1..Len(d) : existing[i] \in Pair
      BY <1>1 DEF Entry, Files
    <2>2. existing = [i \in 1..Len(d) |-> existing[i]]
      BY <1>1
    <2> HIDE DEF existing, Pair
    <2> QED BY <1>1, <2>1, <2>2, IndexedIsSeq
  <1>5. x \in Pair
    BY DEF OpenHandle, Files
  <1>6. ASSUME NEW i \in DOMAIN ids
        PROVE  file(i) = IF i = 1 THEN x
                         ELSE IF i \in DOMAIN d THEN [fid |-> d[i].fid, ver |-> d[i].ver]
                         ELSE [fid |-> Zero, ver |-> 1]
    <2>1. CASE d = <<>>
      <3>1. existing = <<>>
        BY <1>1, <1>4, <2>1, EmptySeq
      <3>2. files = <<x>>
        BY <3>1
      <3>3. Len(files) = 1 /\ files[1] = x /\ DOMAIN d = {}
        BY <2>1, <3>2
      <3> HIDE DEF files, existing
      <3> QED BY <1>1, <3>3
    <2>2. CASE d # <<>>
      <3>1. Len(d) > 0
        BY <1>1, <2>2, EmptySeq
      <3>2. existing # <<>>
        BY <1>4, <3>1
      <3>3. files = [existing EXCEPT ![1] = x]
        BY <3>2
      <3>5. \A j \in 1..Len(d) : files[j] = IF j = 1 THEN x ELSE [fid |-> d[j].fid, ver |-> d[j].ver]
        BY <1>1, <3>1, <3>3, Zenon
      <3> HIDE DEF files, existing, x, Pair
      <3>4. files \in Seq(Pair) /\ Len(files) = Len(existing)
        BY <1>4, <1>5, <3>1, <3>3, ExceptSeq
      <3> QED BY <1>1, <1>4, <3>1, <3>4, <3>5
    <2> QED BY <2>1, <2>2
  <1> HIDE DEF file, files, existing
  <1>7. ASSUME NEW i \in DOMAIN ids
        PROVE  /\ new[i] \in Entry
               /\ i = 1 => new[i] = [oid |-> ids[i], fid |-> h.fid, ver |-> h.ver]
               /\ i # 1 => new[i] = IF i \in DOMAIN d THEN [d[i] EXCEPT !.oid = ids[i]]
                                    ELSE [oid |-> ids[i], fid |-> Zero, ver |-> 1]
    <2>1. new[i] = [oid |-> ids[i], fid |-> file(i).fid, ver |-> file(i).ver]
      OBVIOUS
    <2>2. CASE i = 1
      BY <1>1, <1>6, <2>1, <2>2 DEF OpenHandle, Entry
    <2>3. CASE i # 1 /\ i \in DOMAIN d
      BY <1>1, <1>6, <2>1, <2>3 DEF Entry
    <2>4. CASE i # 1 /\ i \notin DOMAIN d
      <3>1. 1 \in 1..MaxVersion
        BY BoundsAssumption
      <3> QED BY <1>1, <1>6, <2>1, <2>4, <3>1 DEF Entry
    <2> QED BY <2>2, <2>3, <2>4
  <1>8. new = [i \in 1..Len(ids) |-> new[i]] /\ \A i \in 1..Len(ids) : new[i] \in Entry
    BY <1>1, <1>7, Zenon
  <1> HIDE DEF new
  <1>9. new \in Seq(Entry) /\ DOMAIN new = DOMAIN ids
    BY <1>1, <1>8, IndexedIsSeq
  <1> QED BY <1>1, <1>3, <1>7, <1>9 DEF Stored

Upserted(new, d, h, p) ==
  /\ p \in DOMAIN new /\ DOMAIN new = DOMAIN d \cup {p}
  /\ new[p] = [oid |-> h.oid, fid |-> h.fid, ver |-> h.ver]
  /\ \A i \in DOMAIN d : i < p => d[i].oid # h.oid
  /\ \A i \in DOMAIN d \ {p} : new[i] = d[i]
  /\ p \notin DOMAIN d => \A i \in DOMAIN d : d[i].oid # h.oid /\ i < p
  /\ p \in DOMAIN d => d[p].oid = h.oid

\* What upsert_dir writes: the entry in the place of the first one of the object, or at
\* the end.
LEMMA UpsertIs ==
    ASSUME NEW d \in Seq(Entry), NEW h \in OpenHandle
    PROVE  upsert_dir(d, h) \in Seq(Entry) /\ \E p : Upserted(upsert_dir(d, h), d, h, p)
  <1> DEFINE new == upsert_dir(d, h)
             e == [oid |-> h.oid, fid |-> h.fid, ver |-> h.ver]
  <1>1. Len(d) \in Nat /\ DOMAIN d = 1..Len(d) /\ e \in Entry
    BY Numbered DEF OpenHandle, Entry
  <1>2. CASE Listed(d, h.oid)
    <2> DEFINE p == position(d, h.oid)
    <2>1. new = [d EXCEPT ![p] = e]
      BY <1>2 DEF upsert_dir
    <2>2. p \in DOMAIN d /\ d[p].oid = h.oid /\ \A i \in DOMAIN d : d[i].oid = h.oid => p <= i
      BY <1>2, PositionFinds
    <2> HIDE DEF p, e, new
    <2>3. new \in Seq(Entry) /\ Len(new) = Len(d)
      BY <1>1, <2>1, <2>2, ExceptSeq
    <2>4. DOMAIN new = DOMAIN d /\ new[p] = e /\ \A i \in DOMAIN d \ {p} : new[i] = d[i]
      BY <1>1, <2>1, <2>2
    <2>5. \A i \in DOMAIN d : i < p => d[i].oid # h.oid
      BY <1>1, <2>2
    <2>6. Upserted(new, d, h, p)
      BY <2>2, <2>3, <2>4, <2>5 DEF Upserted, e
    <2> QED BY <2>3, <2>6 DEF new
  <1>3. CASE ~Listed(d, h.oid)
    <2> DEFINE p == Len(d) + 1
    <2>1. new = Append(d, e)
      BY <1>3 DEF upsert_dir
    <2>2. \A i \in DOMAIN d : d[i].oid # h.oid
      BY <1>3, PositionFinds
    <2> HIDE DEF e, new
    <2>3. /\ new \in Seq(Entry) /\ Len(new) = Len(d) + 1
          /\ \A i \in 1..Len(d) : new[i] = d[i]
          /\ new[Len(d) + 1] = e
      BY <1>1, <2>1, AppendProperties
    <2>4. DOMAIN new = DOMAIN d \cup {p} /\ p \in DOMAIN new /\ \A i \in DOMAIN d : i < p
      BY <1>1, <2>3, Numbered
    <2>5. Upserted(new, d, h, p)
      BY <1>1, <2>2, <2>3, <2>4 DEF Upserted, e
    <2> QED BY <2>3, <2>5 DEF new
  <1> QED BY <1>2, <1>3

\* The directory that create and rename write shows nothing but what it did, and the new
\* object, whichever of the reads before failed.
LEMMA StoreDirOk ==
    ASSUME NEW D \in Seq(Entry), NEW r, (r = D /\ r # Missing) \/ r = Missing,
           NEW h \in OpenHandle, NEW files, NEW m, files[Zero] = Missing,
           files[h.fid] \in {Missing, ObjectOf(h)}, h.data \in m[h.oid], NEW ids,
           ids = <<h.oid>> \/ (ids = Append(ObjectIds(D), h.oid) /\ DirOk(D, files, m))
    PROVE  store_dir(ids, r, h) \in Seq(Entry) /\ DirOk(store_dir(ids, r, h), files, m)
  <1> DEFINE d == IF r = Missing THEN <<>> ELSE D
             new == store_dir(ids, r, h)
             e == [oid |-> ids[1], fid |-> h.fid, ver |-> h.ver]
  <1>1. d \in Seq(Entry) /\ (r = d \/ (r = Missing /\ d = <<>>)) /\ (r = d => r # Missing)
    <2>1. <<>> \in Seq(Entry) /\ Missing # <<>>
      BY FileAssumption, EmptySeq, Zenon
    <2> QED BY <2>1
  <1>2. h.oid \in Oid /\ Len(D) \in Nat /\ DOMAIN D = 1..Len(D) /\ \A i \in DOMAIN D : D[i] \in Entry
    BY Numbered DEF OpenHandle
  <1>3. /\ ids \in Seq(Oid) /\ ids # <<>>
        /\ \A i \in DOMAIN ids : i = 1 \/ (ids = Append(ObjectIds(D), h.oid) /\ DirOk(D, files, m))
        /\ ids = Append(ObjectIds(D), h.oid) => \A i \in DOMAIN D : i \in DOMAIN ids /\ ids[i] = D[i].oid
        /\ DOMAIN ids = 1..Len(ids) /\ Len(ids) \in Nat
    <2>1. CASE ids = <<h.oid>>
      <3>1. ids \in Seq(Oid) /\ Len(ids) = 1 /\ ids # <<>> /\ DOMAIN ids = {1} /\ ids[1] = h.oid
        BY <1>2, <2>1
      <3>2. ids = Append(ObjectIds(D), h.oid) => \A i \in DOMAIN D : i \in DOMAIN ids /\ ids[i] = D[i].oid
        <4> SUFFICES ASSUME ids = Append(ObjectIds(D), h.oid), NEW i \in DOMAIN D PROVE FALSE
          OBVIOUS
        <4>1. ObjectIds(D) = [k \in 1..Len(D) |-> ObjectIds(D)[k]] /\ \A k \in 1..Len(D) : ObjectIds(D)[k] \in Oid
          BY <1>2, Zenon DEF ObjectIds, Entry
        <4>2. ObjectIds(D) \in Seq(Oid) /\ Len(ObjectIds(D)) = Len(D)
          BY <1>2, <4>1, IndexedIsSeq
        <4>3. Len(ids) = Len(D) + 1
          BY <1>2, <4>2, AppendProperties
        <4> QED BY <1>2, <3>1, <4>3
      <3> QED BY <3>1, <3>2
    <2>2. CASE ids = Append(ObjectIds(D), h.oid) /\ DirOk(D, files, m)
      <3> DEFINE o == ObjectIds(D)
      <3>1. o = [k \in 1..Len(D) |-> o[k]] /\ \A k \in 1..Len(D) : o[k] \in Oid /\ o[k] = D[k].oid
        BY <1>2 DEF ObjectIds, Entry
      <3> HIDE DEF o
      <3>2. o \in Seq(Oid) /\ Len(o) = Len(D)
        BY <1>2, <3>1, IndexedIsSeq
      <3>3. ids \in Seq(Oid) /\ Len(ids) = Len(D) + 1 /\ \A k \in 1..Len(D) : ids[k] = o[k]
        BY <1>2, <2>2, <3>2, AppendProperties DEF o
      <3>4. DOMAIN ids = 1..Len(ids) /\ Len(ids) \in Nat /\ ids # <<>>
        BY <1>2, <3>3, Numbered
      <3> QED BY <1>2, <2>2, <3>1, <3>3, <3>4
    <2> QED BY <2>1, <2>2
  <1>4. /\ new \in Seq(Entry) /\ DOMAIN new = DOMAIN ids /\ new[1] = e
        /\ \A i \in DOMAIN ids \ {1} :
              new[i] = IF i \in DOMAIN d THEN [d[i] EXCEPT !.oid = ids[i]]
                       ELSE [oid |-> ids[i], fid |-> Zero, ver |-> 1]
    <2> HIDE DEF d
    <2>1. Stored(new, ids, d, h)
      BY <1>1, <1>3, StoreDirIs, Zenon
    <2> QED BY <2>1 DEF Stored
  <1>5. ASSUME NEW i \in DOMAIN ids, i # 1
        PROVE  DirOk(D, files, m) /\ (new[i].fid = Zero \/ (i \in DOMAIN D /\ new[i] = D[i]))
    <2>1. DirOk(D, files, m) /\ \A k \in DOMAIN D : ids[k] = D[k].oid
      BY <1>3, <1>5, Zenon
    <2>2. CASE i \in DOMAIN d
      <3>1. d = D
        BY <2>2
      <3>2. i \in DOMAIN D /\ new[i] = [D[i] EXCEPT !.oid = D[i].oid]
        BY <1>4, <1>5, <2>1, <2>2, <3>1
      <3>3. [D[i] EXCEPT !.oid = D[i].oid] = D[i]
        BY <1>2, <3>2 DEF Entry
      <3> QED BY <2>1, <3>2, <3>3
    <2>3. CASE i \notin DOMAIN d
      BY <1>4, <1>5, <2>1, <2>3
    <2> QED BY <2>2, <2>3
  <1>6. ~Shows(files, [oid |-> ids[1], fid |-> Zero, ver |-> 1]) /\ \A x : x.fid = Zero => ~Shows(files, x)
    BY DEF Shows, decrypts
  <1> HIDE DEF new, d
  <1>7. Fresh(new, files, m)
    <2> SUFFICES ASSUME NEW i \in DOMAIN new, Shows(files, new[i])
                 PROVE  files[new[i].fid].data \in m[new[i].oid]
      BY DEF Fresh
    <2>1. CASE i = 1
      <3>1. new[i].fid = h.fid /\ new[i].oid = ids[1]
        BY <1>4, <2>1
      <3>2. files[h.fid] = ObjectOf(h) /\ files[h.fid].oid = ids[1]
        BY <3>1 DEF Shows, decrypts
      <3>3. files[h.fid].data = h.data /\ ids[1] = h.oid
        BY <3>2 DEF ObjectOf
      <3> QED BY <3>1, <3>3
    <2>2. CASE i # 1
      <3>1. DirOk(D, files, m) /\ i \in DOMAIN D /\ new[i] = D[i]
        BY <1>4, <1>5, <1>6, <2>2
      <3> QED BY <3>1 DEF DirOk, Fresh
    <2> QED BY <2>1, <2>2
  <1>8. Doubles(new)
    <2> SUFFICES ASSUME NEW i \in DOMAIN new, NEW j \in DOMAIN new, i < j, new[i].oid = new[j].oid
                 PROVE  new[j].fid = Zero
      BY DEF Doubles
    <2>0. Len(ids) \in Nat /\ i \in 1..Len(ids) /\ j \in 1..Len(ids) /\ j \in DOMAIN ids /\ i \in DOMAIN ids
      BY <1>3, <1>4, Zenon
    <2>1. j # 1 /\ j \in Nat /\ i \in Nat /\ 1 <= i
      BY <2>0
    <2>2. CASE j \in DOMAIN D /\ new[j] = D[j]
      <3>1. DirOk(D, files, m) /\ ids = Append(ObjectIds(D), h.oid)
        BY <1>3, <1>4, <1>5, <2>1, Zenon
      <3>2. i \in DOMAIN D
        BY <1>2, <2>1, <2>2
      <3>3. ids[i] = D[i].oid
        BY <1>3, <3>1, <3>2
      <3>4. new[i].oid = D[i].oid
        <4>1. CASE i = 1
          BY <1>4, <3>3, <4>1
        <4>2. CASE i # 1 /\ i \in DOMAIN d
          <5>1. d = D
            BY <4>2 DEF d
          <5>2. new[i] = [D[i] EXCEPT !.oid = ids[i]] /\ D[i] \in Entry
            BY <1>2, <1>4, <2>0, <3>2, <4>2, <5>1
          <5> QED BY <3>3, <5>2 DEF Entry
        <4>3. CASE i # 1 /\ i \notin DOMAIN d
          <5>1. new[i] = [oid |-> ids[i], fid |-> Zero, ver |-> 1]
            BY <1>4, <2>0, <4>3
          <5> QED BY <3>3, <5>1
        <4> QED BY <4>1, <4>2, <4>3
      <3> QED BY <2>2, <3>1, <3>2, <3>4 DEF DirOk, Doubles
    <2> QED BY <1>4, <1>5, <2>1, <2>2
  <1> QED BY <1>4, <1>7, <1>8 DEF DirOk, new

\* The directory that upsert_dir writes shows the object written, and the others as before.
LEMMA UpsertOk ==
    ASSUME NEW d \in Seq(Entry), NEW h \in OpenHandle, NEW files, NEW m, NEW n, DirOk(d, files, m),
           files[Zero] = Missing, files[h.fid] = ObjectOf(h), h.data \in n[h.oid],
           \A o \in Oid : o # h.oid => n[o] = m[o]
    PROVE  upsert_dir(d, h) \in Seq(Entry) /\ DirOk(upsert_dir(d, h), files, n)
  <1> DEFINE new == upsert_dir(d, h)
             e == [oid |-> h.oid, fid |-> h.fid, ver |-> h.ver]
  <1>1. new \in Seq(Entry) /\ \A i \in DOMAIN d : d[i] \in Entry
    BY UpsertIs, Numbered
  <1>0. PICK p : Upserted(new, d, h, p)
    BY UpsertIs
  <1>2. /\ p \in DOMAIN new /\ new[p] = e /\ DOMAIN new = DOMAIN d \cup {p}
        /\ \A i \in DOMAIN d : i < p => d[i].oid # h.oid
        /\ \A i \in DOMAIN d \ {p} : new[i] = d[i]
        /\ p \notin DOMAIN d => \A i \in DOMAIN d : d[i].oid # h.oid /\ i < p
        /\ p \in DOMAIN d => d[p].oid = h.oid
    BY <1>0 DEF Upserted
  <1> HIDE DEF new
  <1>3. DOMAIN new = 1..Len(new) /\ Len(new) \in Nat
    BY <1>1, Numbered
  <1>4. \A i \in DOMAIN d \ {p} : d[i].oid = h.oid => d[i].fid = Zero
    <2> SUFFICES ASSUME NEW i \in DOMAIN d \ {p}, d[i].oid = h.oid PROVE d[i].fid = Zero
      OBVIOUS
    <2>1. p \in DOMAIN d /\ d[p].oid = h.oid /\ ~(i < p)
      BY <1>2
    <2>2. p < i
      BY <1>2, <1>3, <2>1
    <2> QED BY <2>1, <2>2 DEF DirOk, Doubles
  <1>5. Fresh(new, files, n)
    <2> SUFFICES ASSUME NEW i \in DOMAIN new, Shows(files, new[i])
                 PROVE  files[new[i].fid].data \in n[new[i].oid]
      BY DEF Fresh
    <2>1. CASE i = p
      BY <1>2, <2>1 DEF ObjectOf
    <2>2. CASE i # p
      <3>1. i \in DOMAIN d /\ new[i] = d[i]
        BY <1>2, <2>2
      <3>2. d[i].fid # Zero
        BY <3>1 DEF Shows, decrypts
      <3>3. d[i].oid # h.oid /\ d[i].oid \in Oid
        BY <1>1, <1>4, <2>2, <3>1, <3>2 DEF Entry
      <3> QED BY <3>1, <3>3 DEF DirOk, Fresh
    <2> QED BY <2>1, <2>2
  <1>6. Doubles(new)
    <2> SUFFICES ASSUME NEW i \in DOMAIN new, NEW j \in DOMAIN new, i < j, new[i].oid = new[j].oid
                 PROVE  new[j].fid = Zero
      BY DEF Doubles
    <2>1. CASE j = p
      <3>1. i \in DOMAIN d /\ new[i] = d[i] /\ new[j].oid = h.oid
        BY <1>2, <1>3, <2>1
      <3> QED BY <1>2, <2>1, <3>1
    <2>2. CASE i = p
      <3>1. j \in DOMAIN d /\ j # p /\ new[j] = d[j] /\ new[i].oid = h.oid
        BY <1>2, <1>3, <2>2
      <3> QED BY <1>4, <3>1
    <2>3. CASE i # p /\ j # p
      BY <1>2, <2>3 DEF DirOk, Doubles
    <2> QED BY <2>1, <2>2, <2>3
  <1> QED BY <1>1, <1>5, <1>6 DEF DirOk, new

\* Without its first entry a directory has no file of the object.
LEMMA RestOk ==
    ASSUME NEW d \in Seq(Entry), NEW o, Listed(d, o), Doubles(d)
    PROVE  LET rest == remove(d, position(d, o))
           IN  rest \in Seq(Entry) /\ Doubles(rest) /\ NoFileOf(rest, o) /\ Part(rest, d)
  <1> DEFINE p == position(d, o)
             rest == remove(d, p)
  <1>1. p \in DOMAIN d /\ d[p].oid = o /\ \A i \in DOMAIN d : d[i].oid = o => p <= i
    BY PositionFinds
  <1>2. DOMAIN d = 1..Len(d) /\ Len(d) \in Nat
    BY Numbered
  <1> HIDE DEF p
  <1>3. /\ rest \in Seq(Entry) /\ DOMAIN rest = 1..(Len(d) - 1)
        /\ \A i \in DOMAIN rest : rest[i] = IF i < p THEN d[i] ELSE d[i + 1]
    BY <1>1, Removed
  <1> HIDE DEF rest
  <1> DEFINE at(i) == IF i < p THEN i ELSE i + 1
  <1>4. /\ \A i \in DOMAIN rest : at(i) \in DOMAIN d /\ at(i) # p /\ rest[i] = d[at(i)]
        /\ \A i, j \in DOMAIN rest : i < j => at(i) < at(j)
    BY <1>1, <1>2, <1>3
  <1> HIDE DEF at
  <1>5. Doubles(rest)
    BY <1>4 DEF Doubles
  <1>6. NoFileOf(rest, o)
    <2> SUFFICES ASSUME NEW i \in DOMAIN rest, rest[i].oid = o PROVE rest[i].fid = Zero
      BY DEF NoFileOf
    <2>1. at(i) \in DOMAIN d /\ d[at(i)].oid = o /\ at(i) # p /\ p <= at(i)
      BY <1>1, <1>4
    <2>2. p < at(i)
      BY <1>1, <1>2, <2>1
    <2> QED BY <1>1, <1>4, <2>1, <2>2 DEF Doubles
  <1>7. Part(rest, d)
    BY <1>4 DEF Part
  <1> QED BY <1>3, <1>5, <1>6, <1>7 DEF rest, p

-----------------------------------------------------------------------------
(* What the steps do *)

\* r is what a read of the directory returned.
Read(r) == r = Missing \/ (r = dir /\ IsDir(dir))

\* A call ends without an effect.
Refused == call' = Idle /\ ret' \in {"ok", "err"} /\ UNCHANGED <<dir, obj, handles, may, calm>>

\* The object file is written, with success or without.
Wrote(h, next, quiet, file) ==
  /\ obj' = [obj EXCEPT ![h.fid] = file] /\ may' = [may EXCEPT ![h.oid] = @ \cup {h.data}]
  /\ dir' = dir /\ ret' \in {"ok", "err"} /\ calm' \in BOOLEAN
  /\ \/ file = ObjectOf(h) /\ call' = next /\ (calm' => calm /\ quiet)
     \/ file \in {obj[h.fid], ObjectOf(h), Torn} /\ call' = Idle /\ ~calm'

\* The directory is written, with success or without.
WroteDir(new, quiet, m) ==
  /\ obj' = obj /\ ret' \in {"ok", "err"} /\ calm' \in BOOLEAN
  /\ \/ dir' = new /\ may' = m /\ (calm' => calm /\ quiet)
     \/ /\ dir' \in {dir, new, Torn} /\ may' = may /\ ~calm'
        /\ call' = Idle /\ ret' = "err" /\ handles' = handles

\* The file of an object is removed, or that failed.
RemovedFile(o, next) ==
  /\ IsDir(dir) /\ Listed(dir, o)
  /\ \E left \in {Missing, obj[dir[position(dir, o)].fid]} :
        /\ obj' = [obj EXCEPT ![dir[position(dir, o)].fid] = left]
        /\ calm' => left = Missing
  /\ call' = [next EXCEPT !.rest = remove(dir, position(dir, o))]
  /\ calm' \in BOOLEAN /\ (calm' => calm) /\ UNCHANGED <<dir, handles, ret, may>>

\* A file is written as a whole, or it is not known how.
LEMMA WriteEnding ==
    ASSUME NEW old, NEW new, NEW w \in WriteEnds(old, new)
    PROVE  (w.ok = TRUE /\ w.file = new) \/ (w.ok = FALSE /\ w.file \in {old, new, Torn})
  <1>1. w = [ok |-> TRUE, file |-> new] \/ \E f \in {old, new, Torn} : w = [ok |-> FALSE, file |-> f]
    BY DEF WriteEnds
  <1>2. CASE w = [ok |-> TRUE, file |-> new]
    BY <1>2, Zenon
  <1>3. ASSUME NEW f \in {old, new, Torn}, w = [ok |-> FALSE, file |-> f]
        PROVE  w.ok = FALSE /\ w.file \in {old, new, Torn}
    <2>1. w.ok = FALSE /\ w.file = f
      BY <1>3, Zenon
    <2> QED BY <2>1
  <1> QED BY <1>1, <1>2, <1>3

\* What the reads of the directory return.
LEMMA Reads ==
    ASSUME StorageTypes, NEW r \in load_dir_full
    PROVE  /\ Read(r)
           /\ IsDir(dir) => dir \in Seq(Entry) /\ dir # Missing
           /\ unwrap_or_default(r) \in Seq(Entry)
           /\ r = Missing => unwrap_or_default(r) = <<>>
           /\ r # Missing => r = dir /\ IsDir(dir) /\ unwrap_or_default(r) = dir
  <1>1. Read(r)
    BY DEF load_dir_full, Read, IsDir
  <1>2. <<>> \in Seq(Entry)
    BY EmptySeq
  <1> QED BY <1>1, <1>2 DEF Read, IsDir, unwrap_or_default, StorageTypes

\* write_object.
LEMMA ObjectWrites ==
    ASSUME StorageTypes, NEW h, NEW next, NEW quiet \in BOOLEAN, write_object(h, next, quiet)
    PROVE  \E file : Wrote(h, next, quiet, file)
  <1>1. PICK w \in WriteEnds(obj[h.fid], ObjectOf(h)) :
          /\ obj' = [obj EXCEPT ![h.fid] = w.file]
          /\ may' = [may EXCEPT ![h.oid] = @ \cup {h.data}]
          /\ calm' = (calm /\ quiet /\ w.ok)
          /\ UNCHANGED dir
          /\ IF w.ok THEN call' = next /\ UNCHANGED ret ELSE Return("err")
    BY Zenon DEF write_object
  <1>2. \/ w.ok = TRUE /\ w.file = ObjectOf(h)
        \/ w.ok = FALSE /\ w.file \in {obj[h.fid], ObjectOf(h), Torn}
    BY WriteEnding, Zenon
  <1>3. calm \in BOOLEAN /\ ret \in {"ok", "err"}
    BY DEF StorageTypes
  <1>4. CASE w.ok = TRUE /\ w.file = ObjectOf(h)
    <2>1. call' = next /\ ret' = ret /\ calm' = (calm /\ quiet)
      BY <1>1, <1>4
    <2>2. Wrote(h, next, quiet, w.file)
      BY <1>1, <1>3, <1>4, <2>1 DEF Wrote
    <2> QED BY <2>2
  <1>5. CASE w.ok = FALSE /\ w.file \in {obj[h.fid], ObjectOf(h), Torn}
    <2>1. call' = Idle /\ ret' = "err" /\ calm' = FALSE
      BY <1>1, <1>5, Zenon DEF Return
    <2>2. Wrote(h, next, quiet, w.file)
      BY <1>1, <1>5, <2>1 DEF Wrote
    <2> QED BY <2>2
  <1> QED BY <1>2, <1>4, <1>5, Zenon

\* The first part of delete.
LEMMA FileRemoves ==
    ASSUME StorageTypes, NEW o, NEW next, remove_file(o, next)
    PROVE  Refused \/ RemovedFile(o, next)
  <1>1. PICK r \in load_dir_full :
          IF ~Listed(unwrap_or_default(r), o) THEN Refuse
          ELSE LET i == position(r, o)
               IN  \E left \in {Missing} \cup IF Faults THEN {obj[r[i].fid]} ELSE {} :
                     /\ obj' = [obj EXCEPT ![r[i].fid] = left]
                     /\ call' = [next EXCEPT !.rest = remove(r, i)]
                     /\ calm' = (calm /\ left = Missing)
                     /\ UNCHANGED <<dir, handles, ret, may>>
    BY DEF remove_file
  <1>2. CASE ~Listed(unwrap_or_default(r), o)
    BY <1>1, <1>2 DEF Refuse, Return, Refused
  <1>3. CASE Listed(unwrap_or_default(r), o)
    <2>1. r # Missing
      BY <1>3, NothingListed, Reads
    <2>2. r = dir /\ IsDir(dir) /\ unwrap_or_default(r) = dir
      BY <2>1, Reads
    <2>3. PICK left \in {Missing} \cup IF Faults THEN {obj[dir[position(dir, o)].fid]} ELSE {} :
            /\ obj' = [obj EXCEPT ![dir[position(dir, o)].fid] = left]
            /\ call' = [next EXCEPT !.rest = remove(dir, position(dir, o))]
            /\ calm' = (calm /\ left = Missing)
            /\ UNCHANGED <<dir, handles, ret, may>>
      BY <1>1, <1>3, <2>2
    <2>4. calm \in BOOLEAN
      BY DEF StorageTypes
    <2>5. left \in {Missing, obj[dir[position(dir, o)].fid]}
      BY <2>3
    <2>6. calm' \in BOOLEAN /\ (calm' => calm) /\ (calm' => left = Missing)
      BY <2>3, <2>4, Zenon
    <2> QED BY <1>3, <2>2, <2>3, <2>5, <2>6, Zenon DEF RemovedFile
  <1> QED BY <1>2, <1>3

\* The second part of create.
LEMMA CreateStores ==
    ASSUME StorageTypes, CreateStoreDir
    PROVE  \E r \in load_dir_full :
             /\ WroteDir(store_dir(call.entries, r, call.h), r = dir,
                         [may EXCEPT ![call.h.oid] = {call.h.data}])
             /\ call' = Idle
             /\ handles' \in {handles, [handles EXCEPT ![call.slot] = call.h]}
  <1> DEFINE m == [may EXCEPT ![call.h.oid] = {call.h.data}]
  <1>1. PICK r \in load_dir_full :
          store_dir_full(store_dir(call.entries, r, call.h), r = dir, m,
                         Return("ok") /\ handles' = [handles EXCEPT ![call.slot] = call.h])
    BY DEF CreateStoreDir
  <1> DEFINE new == store_dir(call.entries, r, call.h)
  <1> HIDE DEF new, m
  <1>2. PICK w \in WriteEnds(dir, new) :
          /\ dir' = w.file /\ calm' = (calm /\ r = dir /\ w.ok) /\ obj' = obj
          /\ IF w.ok THEN Return("ok") /\ handles' = [handles EXCEPT ![call.slot] = call.h] /\ may' = m
             ELSE Return("err") /\ UNCHANGED <<handles, may>>
    BY <1>1 DEF store_dir_full, new
  <1>3. (w.ok = TRUE /\ w.file = new) \/ (w.ok = FALSE /\ w.file \in {dir, new, Torn})
    BY WriteEnding, Zenon
  <1>4. calm \in BOOLEAN /\ ret \in {"ok", "err"}
    BY DEF StorageTypes
  <1>5. WroteDir(new, r = dir, m) /\ call' = Idle
        /\ handles' \in {handles, [handles EXCEPT ![call.slot] = call.h]}
    <2>1. CASE w.ok = TRUE /\ w.file = new
      BY <1>2, <1>4, <2>1, Zenon DEF WroteDir, Return
    <2>2. CASE w.ok = FALSE /\ w.file \in {dir, new, Torn}
      BY <1>2, <2>2, Zenon DEF WroteDir, Return
    <2> QED BY <1>3, <2>1, <2>2, Zenon
  <1> QED BY <1>5 DEF m, new

\* The second part of write.
LEMMA UpsertStores ==
    ASSUME StorageTypes, UpsertDir
    PROVE  \E r \in load_dir_full :
             /\ WroteDir(upsert_dir(unwrap_or_default(r), call.h), r = dir,
                         [may EXCEPT ![call.h.oid] = {call.h.data}])
             /\ call' = Idle /\ handles' = handles
             /\ ret' = "ok" => dir' = upsert_dir(unwrap_or_default(r), call.h)
  <1> DEFINE m == [may EXCEPT ![call.h.oid] = {call.h.data}]
  <1>1. PICK r \in load_dir_full :
          store_dir_full(upsert_dir(unwrap_or_default(r), call.h), r = dir, m,
                         Return("ok") /\ UNCHANGED handles)
    BY DEF UpsertDir
  <1> DEFINE new == upsert_dir(unwrap_or_default(r), call.h)
  <1> HIDE DEF new, m
  <1>2. PICK w \in WriteEnds(dir, new) :
          /\ dir' = w.file /\ calm' = (calm /\ r = dir /\ w.ok) /\ obj' = obj
          /\ IF w.ok THEN Return("ok") /\ handles' = handles /\ may' = m
             ELSE Return("err") /\ UNCHANGED <<handles, may>>
    BY <1>1 DEF store_dir_full, new
  <1>3. (w.ok = TRUE /\ w.file = new) \/ (w.ok = FALSE /\ w.file \in {dir, new, Torn})
    BY WriteEnding, Zenon
  <1>4. calm \in BOOLEAN /\ ret \in {"ok", "err"}
    BY DEF StorageTypes
  <1>5. WroteDir(new, r = dir, m) /\ call' = Idle /\ handles' = handles /\ (ret' = "ok" => dir' = new)
    <2>1. CASE w.ok = TRUE /\ w.file = new
      BY <1>2, <1>4, <2>1, Zenon DEF WroteDir, Return
    <2>2. CASE w.ok = FALSE /\ w.file \in {dir, new, Torn}
      BY <1>2, <2>2, Zenon DEF WroteDir, Return
    <2> QED BY <1>3, <2>1, <2>2, Zenon
  <1> QED BY <1>5 DEF m, new

\* The second part of delete.
LEMMA DeleteStores ==
    ASSUME StorageTypes, DeleteStoreDir
    PROVE  /\ WroteDir(call.rest, TRUE, [may EXCEPT ![call.oid] = {}])
           /\ call' = Idle /\ handles' = handles
  <1> DEFINE m == [may EXCEPT ![call.oid] = {}]
             new == call.rest
  <1> HIDE DEF new, m
  <1>2. PICK w \in WriteEnds(dir, new) :
          /\ dir' = w.file /\ calm' = (calm /\ TRUE /\ w.ok) /\ obj' = obj
          /\ IF w.ok THEN Return("ok") /\ handles' = handles /\ may' = m
             ELSE Return("err") /\ UNCHANGED <<handles, may>>
    BY DEF DeleteStoreDir, store_dir_full, new, m
  <1>3. (w.ok = TRUE /\ w.file = new) \/ (w.ok = FALSE /\ w.file \in {dir, new, Torn})
    BY WriteEnding, Zenon
  <1>4. calm \in BOOLEAN /\ ret \in {"ok", "err"}
    BY DEF StorageTypes
  <1>5. WroteDir(new, TRUE, m) /\ call' = Idle /\ handles' = handles
    <2>1. CASE w.ok = TRUE /\ w.file = new
      BY <1>2, <1>4, <2>1 DEF WroteDir, Return
    <2>2. CASE w.ok = FALSE /\ w.file \in {dir, new, Torn}
      BY <1>2, <2>2, Zenon DEF WroteDir, Return
    <2> QED BY <1>3, <2>1, <2>2, Zenon
  <1> QED BY <1>5, Zenon DEF m, new

\* The third part of rename.
LEMMA RenameDeletes ==
    ASSUME StorageTypes, RenameStoreDeleted
    PROVE  /\ WroteDir(call.rest, FALSE, may) /\ handles' = handles
           /\ \/ call' = Idle
              \/ call' = [call EXCEPT !.at = "store_dir", !.rest = <<>>] /\ dir' = call.rest
  <1> DEFINE m == may
             new == call.rest
  <1> HIDE DEF new, m
  <1>2. PICK w \in WriteEnds(dir, new) :
          /\ dir' = w.file /\ calm' = (calm /\ FALSE /\ w.ok) /\ obj' = obj
          /\ IF w.ok THEN call' = [call EXCEPT !.at = "store_dir", !.rest = <<>>] /\ UNCHANGED <<handles, ret>> /\ may' = m
             ELSE Return("err") /\ UNCHANGED <<handles, may>>
    BY DEF RenameStoreDeleted, store_dir_full, new, m
  <1>3. (w.ok = TRUE /\ w.file = new) \/ (w.ok = FALSE /\ w.file \in {dir, new, Torn})
    BY WriteEnding, Zenon
  <1>4. calm \in BOOLEAN /\ ret \in {"ok", "err"}
    BY DEF StorageTypes
  <1>5. WroteDir(new, FALSE, m) /\ handles' = handles
        /\ \/ call' = Idle
           \/ call' = [call EXCEPT !.at = "store_dir", !.rest = <<>>] /\ dir' = new
    <2>1. CASE w.ok = TRUE /\ w.file = new
      BY <1>2, <1>4, <2>1, Zenon DEF WroteDir, Return
    <2>2. CASE w.ok = FALSE /\ w.file \in {dir, new, Torn}
      BY <1>2, <2>2, Zenon DEF WroteDir, Return
    <2> QED BY <1>3, <2>1, <2>2, Zenon
  <1> QED BY <1>5, Zenon DEF m, new

\* The last part of rename.
LEMMA RenameStores ==
    ASSUME StorageTypes, RenameStoreDir
    PROVE  \E r \in load_dir_full, s \in load_dir_full :
             /\ WroteDir(store_dir(Append(ObjectIds(unwrap_or_default(r)), call.h.oid), s, call.h), FALSE,
                         [may EXCEPT ![call.oid] =
                            @ \cap IF call.oid = call.h.oid THEN {call.h.data} ELSE {}])
             /\ call' = Idle /\ handles' = handles
  <1> DEFINE m == [may EXCEPT ![call.oid] =
                     @ \cap IF call.oid = call.h.oid THEN {call.h.data} ELSE {}]
  <1>1. PICK r \in load_dir_full, s \in load_dir_full :
          store_dir_full(store_dir(Append(ObjectIds(unwrap_or_default(r)), call.h.oid), s, call.h), FALSE,
                         m, Return("ok") /\ UNCHANGED handles)
    BY Zenon DEF RenameStoreDir
  <1> DEFINE new == store_dir(Append(ObjectIds(unwrap_or_default(r)), call.h.oid), s, call.h)
  <1> HIDE DEF new, m
  <1>2. PICK w \in WriteEnds(dir, new) :
          /\ dir' = w.file /\ calm' = (calm /\ FALSE /\ w.ok) /\ obj' = obj
          /\ IF w.ok THEN Return("ok") /\ handles' = handles /\ may' = m
             ELSE Return("err") /\ UNCHANGED <<handles, may>>
    BY <1>1 DEF store_dir_full, new
  <1>3. (w.ok = TRUE /\ w.file = new) \/ (w.ok = FALSE /\ w.file \in {dir, new, Torn})
    BY WriteEnding, Zenon
  <1>4. calm \in BOOLEAN /\ ret \in {"ok", "err"}
    BY DEF StorageTypes
  <1>5. WroteDir(new, FALSE, m) /\ call' = Idle /\ handles' = handles
    <2>1. CASE w.ok = TRUE /\ w.file = new
      BY <1>2, <1>4, <2>1, Zenon DEF WroteDir, Return
    <2>2. CASE w.ok = FALSE /\ w.file \in {dir, new, Torn}
      BY <1>2, <2>2, Zenon DEF WroteDir, Return
    <2> QED BY <1>3, <2>1, <2>2, Zenon
  <1> QED BY <1>5, Zenon DEF m, new

-----------------------------------------------------------------------------
(* The invariant is kept *)

\* The parts of a handle.
LEMMA HandleParts ==
    ASSUME NEW h \in OpenHandle
    PROVE  /\ h.oid \in Oid /\ h.fid \in FileId /\ h.fid \in Files /\ h.fid # Zero /\ h.data \in Data
           /\ h.ver \in 1..MaxVersion /\ ObjectOf(h) \in Blob
  BY FileAssumption DEF OpenHandle, Files, ObjectOf, Blob

\* The parts of a rename in progress.
LEMMA RenameParts ==
    ASSUME NEW c \in Calls, c.op = "rename"
    PROVE  c.h \in OpenHandle /\ c.oid \in Oid
  BY DEF Calls, Idle

\* A write of an object file, ended or not, lets no directory show other contents than
\* those of the write.
LEMMA FileKeeps ==
    ASSUME StorageInv, NEW h \in OpenHandle, NEW next, NEW quiet, NEW file,
           Wrote(h, next, quiet, file)
    PROVE  /\ obj' \in [Files -> {Missing, Torn} \cup Blob] /\ obj'[Zero] = Missing
           /\ may' \in [Oid -> SUBSET Data] /\ h.data \in may'[h.oid]
           /\ IsDir(dir) => DirOk(dir, obj', may')
           /\ \A f \in Files : f # h.fid => obj'[f] = obj[f]
           /\ call' = Idle \/ (call' = next /\ obj'[h.fid] = ObjectOf(h))
  <1>1. /\ obj' = [obj EXCEPT ![h.fid] = file] /\ may' = [may EXCEPT ![h.oid] = @ \cup {h.data}]
        /\ file \in {obj[h.fid], ObjectOf(h), Torn}
        /\ call' = Idle \/ (call' = next /\ file = ObjectOf(h))
    BY DEF Wrote
  <1>2. /\ h.oid \in Oid /\ h.fid \in Files /\ h.fid # Zero /\ h.data \in Data
        /\ ObjectOf(h) \in Blob /\ Zero \in Files
    BY HandleParts DEF Files
  <1>3. obj \in [Files -> {Missing, Torn} \cup Blob] /\ obj[Zero] = Missing /\ may \in [Oid -> SUBSET Data]
    BY DEF StorageInv, StorageTypes
  <1>4. file \in {Missing, Torn} \cup Blob
    BY <1>1, <1>2, <1>3
  <1>5. /\ obj' \in [Files -> {Missing, Torn} \cup Blob] /\ obj'[Zero] = Missing
        /\ \A f \in Files : obj'[f] = IF f = h.fid THEN file ELSE obj[f]
    BY <1>1, <1>2, <1>3, <1>4
  <1>6. /\ may' \in [Oid -> SUBSET Data] /\ h.data \in may'[h.oid]
        /\ \A o \in Oid : may[o] \in SUBSET may'[o]
    BY <1>1, <1>2, <1>3
  <1>7. ASSUME IsDir(dir) PROVE DirOk(dir, obj', may')
    <2>1. DirOk(dir, obj, may) /\ dir \in Seq(Entry)
      BY <1>7 DEF StorageInv, StorageTypes, IsDir
    <2>2. Fresh(dir, obj', may')
      <3> SUFFICES ASSUME NEW i \in DOMAIN dir, Shows(obj', dir[i])
                   PROVE  obj'[dir[i].fid].data \in may'[dir[i].oid]
        BY DEF Fresh
      <3>0. dir[i] \in Entry
        BY <2>1, Numbered
      <3>1. dir[i].fid \in Files /\ dir[i].oid \in Oid
        BY <3>0 DEF Entry, Files
      <3>2. CASE obj'[dir[i].fid] = obj[dir[i].fid]
        BY <1>6, <2>1, <3>1, <3>2 DEF DirOk, Fresh, Shows
      <3>3. CASE obj'[dir[i].fid] # obj[dir[i].fid]
        <4>1. dir[i].fid = h.fid /\ obj'[dir[i].fid] = ObjectOf(h)
          <5>1. obj'[dir[i].fid] # Torn
            BY DEF Shows, decrypts
          <5> QED BY <1>1, <1>5, <3>1, <3>3, <5>1
        <4>2. dir[i].oid = h.oid /\ obj'[dir[i].fid].data = h.data
          BY <4>1 DEF Shows, decrypts, ObjectOf
        <4> QED BY <1>6, <4>2
      <3> QED BY <3>2, <3>3
    <2> QED BY <2>1, <2>2 DEF DirOk
  <1> QED BY <1>1, <1>2, <1>5, <1>6, <1>7

\* A call that returns leaves nothing to be said of it.
LEMMA IdleKeeps ==
    ASSUME call' = Idle
    PROVE  call' \in Calls /\ CallOk'
  BY DEF Calls, CallOk, Idle

\* A refused call.
LEMMA RefusedKeeps ==
    ASSUME StorageInv, Refused
    PROVE  StorageInv'
  <1>1. call' \in Calls /\ CallOk' /\ ret' \in {"ok", "err"}
    BY IdleKeeps DEF Refused
  <1>2. UNCHANGED <<dir, obj, handles, may, calm>>
    BY DEF Refused
  <1> QED BY <1>1, <1>2 DEF StorageInv, StorageTypes, IsDir, DirOk, Doubles, Fresh, Shows, decrypts

\* create.
LEMMA CreateKeeps ==
    ASSUME StorageInv, NEW n \in Slot, NEW o \in Oid, NEW d \in Data \cup {Oversize}, Create(n, o, d)
    PROVE  StorageInv'
  <1>0. StorageTypes
    BY DEF StorageInv
  <1>1. PICK r \in load_dir_full :
          IF d = Oversize \/ Listed(unwrap_or_default(r), o) THEN Refuse
          ELSE \E f \in FreshFileIds :
                 LET h == [oid |-> o, fid |-> f, ver |-> 1, data |-> d]
                 IN  /\ write_object(h, [op |-> "create", at |-> "store_dir", h |-> h, slot |-> n,
                                         entries |-> Append(ObjectIds(unwrap_or_default(r)), o)],
                                     r = dir /\ unwrap_or_default(r) = <<>>)
                     /\ UNCHANGED handles
    BY Zenon DEF Create
  <1>2. CASE d = Oversize \/ Listed(unwrap_or_default(r), o)
    <2>1. Refused
      BY <1>1, <1>2 DEF Refuse, Return, Refused
    <2> QED BY <2>1, RefusedKeeps
  <1>3. CASE ~(d = Oversize \/ Listed(unwrap_or_default(r), o))
    <2> DEFINE entries == unwrap_or_default(r)
               quiet == r = dir /\ entries = <<>>
    <2>a. PICK f \in FreshFileIds :
            LET h == [oid |-> o, fid |-> f, ver |-> 1, data |-> d]
            IN  /\ write_object(h, [op |-> "create", at |-> "store_dir", h |-> h, slot |-> n,
                                    entries |-> Append(ObjectIds(entries), o)], quiet)
                /\ handles' = handles
      BY <1>1, <1>3, Zenon
    <2>b. PICK h : h = [oid |-> o, fid |-> f, ver |-> 1, data |-> d]
      BY Zenon
    <2>1. /\ h = [oid |-> o, fid |-> f, ver |-> 1, data |-> d]
          /\ write_object(h, [op |-> "create", at |-> "store_dir", h |-> h, slot |-> n,
                              entries |-> Append(ObjectIds(entries), o)], quiet)
          /\ handles' = handles
      BY <2>a, <2>b
    <2> DEFINE next == [op |-> "create", at |-> "store_dir", h |-> h, slot |-> n,
                        entries |-> Append(ObjectIds(entries), o)]
    <2>2. h \in OpenHandle /\ h.oid = o /\ d \in Data
      <3>1. 1 \in 1..MaxVersion /\ f \in FileId /\ d \in Data
        BY <1>3, BoundsAssumption DEF FreshFileIds
      <3> QED BY <2>1, <3>1 DEF OpenHandle
    <2>3. quiet \in BOOLEAN
      OBVIOUS
    <2> HIDE DEF quiet
    <2>4. PICK file : Wrote(h, next, quiet, file)
      BY <1>0, <2>1, <2>3, ObjectWrites
    <2>5. /\ obj' \in [Files -> {Missing, Torn} \cup Blob] /\ obj'[Zero] = Missing
          /\ may' \in [Oid -> SUBSET Data] /\ h.data \in may'[h.oid]
          /\ IsDir(dir) => DirOk(dir, obj', may')
          /\ call' = Idle \/ (call' = next /\ obj'[h.fid] = ObjectOf(h))
      <3> HIDE DEF next
      <3> QED BY <2>2, <2>4, FileKeeps
    <2>6. dir' = dir /\ ret' \in {"ok", "err"} /\ calm' \in BOOLEAN
      BY <2>4 DEF Wrote
    <2>7. entries \in Seq(Entry) /\ ~Listed(entries, o) /\ (entries = <<>> \/ (entries = dir /\ IsDir(dir)))
      BY <1>0, <1>3, Reads
    <2> HIDE DEF entries
    <2>8. Append(ObjectIds(entries), o) \in Seq(Oid)
      <3>1. Len(entries) \in Nat /\ DOMAIN entries = 1..Len(entries) /\ \A i \in DOMAIN entries : entries[i] \in Entry
        BY <2>7, Numbered
      <3>2. /\ ObjectIds(entries) = [k \in 1..Len(entries) |-> ObjectIds(entries)[k]]
            /\ \A k \in 1..Len(entries) : ObjectIds(entries)[k] \in Oid
        BY <3>1 DEF ObjectIds, Entry
      <3>3. ObjectIds(entries) \in Seq(Oid)
        BY <3>1, <3>2, IndexedIsSeq
      <3> QED BY <3>3, AppendProperties
    <2>9. call' \in Calls /\ CallOk'
      <3>1. CASE call' = Idle
        BY <3>1, IdleKeeps
      <3>2. CASE call' = next /\ obj'[h.fid] = ObjectOf(h)
        <4>1. /\ call'.op = "create" /\ call'.h = h /\ call'.entries = Append(ObjectIds(entries), o)
              /\ call' \in Calls
          BY <2>2, <2>8, <3>2, Zenon DEF Calls
        <4>2. \/ call'.entries = <<h.oid>>
              \/ /\ IsDir(dir) /\ call'.entries = Append(ObjectIds(dir), h.oid)
                 /\ \A i \in DOMAIN dir : dir[i].oid # h.oid
          <5>1. CASE entries = <<>>
            <6>1. ObjectIds(entries) = <<>>
              BY <5>1 DEF ObjectIds
            <6> QED BY <2>2, <4>1, <6>1
          <5>2. CASE entries = dir /\ IsDir(dir)
            <6>1. \A i \in DOMAIN dir : dir[i].oid # o
              BY <2>7, <5>2, PositionFinds
            <6> QED BY <2>2, <4>1, <5>2, <6>1
          <5> QED BY <2>7, <5>1, <5>2
        <4> QED BY <2>5, <2>6, <3>2, <4>1, <4>2 DEF CallOk, IsDir
      <3> QED BY <2>5, <3>1, <3>2
    <2>10. StorageTypes'
      BY <1>0, <2>1, <2>5, <2>6, <2>9 DEF StorageTypes
    <2>11. IsDir(dir') => DirOk(dir', obj', may')
      BY <2>5, <2>6
    <2> QED BY <2>9, <2>10, <2>11 DEF StorageInv, IsDir, DirOk, Doubles, Fresh, Shows, decrypts
  <1> QED BY <1>2, <1>3

\* What open returns names a file that is there.
LEMMA OpenedIs ==
    ASSUME StorageTypes, NEW o \in Oid, Opens(dir, o)
    PROVE  /\ IsDir(dir) /\ dir \in Seq(Entry) /\ position(dir, o) \in DOMAIN dir
           /\ dir[position(dir, o)].oid = o /\ Shows(obj, dir[position(dir, o)])
           /\ Opened(dir, o) \in OpenHandle
           /\ Opened(dir, o).oid = o /\ Opened(dir, o).fid = dir[position(dir, o)].fid
           /\ Opened(dir, o).data = obj[dir[position(dir, o)].fid].data
  <1> DEFINE e == dir[position(dir, o)]
  <1>1. IsDir(dir) /\ dir \in Seq(Entry) /\ Listed(dir, o) /\ decrypts(o, e.ver, obj[e.fid])
    BY DEF Opens, StorageTypes, IsDir
  <1>2. position(dir, o) \in DOMAIN dir /\ e.oid = o
    BY <1>1, PositionFinds
  <1>3. e \in Entry
    BY <1>1, <1>2, Numbered
  <1>4. Opened(dir, o) = [oid |-> o, fid |-> e.fid, ver |-> e.ver, data |-> obj[e.fid].data]
    BY DEF Opened
  <1>5. Shows(obj, e)
    BY <1>1, <1>2 DEF Shows
  <1> HIDE DEF e
  <1>6. e.fid \in FileId /\ e.ver \in 1..MaxVersion /\ obj[e.fid].data \in Data
    <2>1. obj \in [Files -> {Missing, Torn} \cup Blob] /\ obj[Zero] = Missing
      BY DEF StorageTypes
    <2>2. obj[e.fid] \notin {Missing, Torn}
      BY <1>1 DEF decrypts
    <2>3. e.fid \in Files /\ e.fid # Zero /\ e.ver \in 1..MaxVersion
      BY <1>3, <2>1, <2>2 DEF Entry, Files
    <2>4. obj[e.fid] \in Blob
      BY <2>1, <2>2, <2>3
    <2> QED BY <2>3, <2>4 DEF Files, Blob
  <1> QED BY <1>1, <1>2, <1>4, <1>5, <1>6 DEF OpenHandle, e

\* open.
LEMMA OpenKeeps ==
    ASSUME StorageInv, NEW n \in Slot, NEW o \in Oid, Open(n, o)
    PROVE  StorageInv'
  <1>0. StorageTypes
    BY DEF StorageInv
  <1>1. call' = Idle /\ UNCHANGED <<dir, obj, may, calm>> /\ ret' \in {"ok", "err"}
    BY DEF Open
  <1>2. handles' \in [Slot -> {Missing} \cup OpenHandle]
    <2>1. CASE handles' = handles
      BY <1>0, <2>1 DEF StorageTypes
    <2>2. CASE Opens(dir, o) /\ handles' = [handles EXCEPT ![n] = Opened(dir, o)]
      <3>1. Opened(dir, o) \in OpenHandle
        BY <1>0, <2>2, OpenedIs
      <3> HIDE DEF OpenHandle
      <3> QED BY <1>0, <2>2, <3>1 DEF StorageTypes
    <2> QED BY <2>1, <2>2 DEF Open
  <1>3. call' \in Calls /\ CallOk'
    BY <1>1, IdleKeeps
  <1> QED BY <1>1, <1>2, <1>3 DEF StorageInv, StorageTypes, IsDir, DirOk, Doubles, Fresh, Shows, decrypts

\* A write of an object file keeps the invariant when the rest of the step does.
LEMMA WroteKeeps ==
    ASSUME StorageInv, NEW h \in OpenHandle, NEW next, NEW quiet, NEW file,
           Wrote(h, next, quiet, file), handles' \in [Slot -> {Missing} \cup OpenHandle],
           next \in Calls, next.op \in {"write", "rename"}, next.h = h,
           next.op = "rename" => next.at = "delete"
    PROVE  StorageInv'
  <1>1. /\ obj' \in [Files -> {Missing, Torn} \cup Blob] /\ obj'[Zero] = Missing
        /\ may' \in [Oid -> SUBSET Data] /\ h.data \in may'[h.oid]
        /\ IsDir(dir) => DirOk(dir, obj', may')
        /\ call' = Idle \/ (call' = next /\ obj'[h.fid] = ObjectOf(h))
    BY FileKeeps
  <1>2. dir' = dir /\ ret' \in {"ok", "err"} /\ calm' \in BOOLEAN
    BY DEF Wrote
  <1>3. call' \in Calls /\ CallOk'
    <2>1. CASE call' = Idle
      BY <2>1, IdleKeeps
    <2>2. CASE call' = next /\ obj'[h.fid] = ObjectOf(h)
      BY <1>1, <2>2 DEF CallOk
    <2> QED BY <1>1, <2>1, <2>2
  <1>4. StorageTypes'
    BY <1>1, <1>2, <1>3 DEF StorageTypes, StorageInv
  <1>5. IsDir(dir') => DirOk(dir', obj', may')
    BY <1>1, <1>2
  <1> QED BY <1>3, <1>4, <1>5 DEF StorageInv, IsDir, DirOk, Doubles, Fresh, Shows, decrypts

\* write and truncate.
LEMMA WriteKeeps ==
    ASSUME StorageInv, NEW n \in Slot, NEW d \in Data \cup {Oversize}, Write(n, d)
    PROVE  StorageInv'
  <1>0. StorageTypes
    BY DEF StorageInv
  <1>1. CASE d = Oversize
    <2>1. Refused
      BY <1>1 DEF Write, Refuse, Return, Refused
    <2> QED BY <2>1, RefusedKeeps
  <1>2. CASE d # Oversize
    <2>1. PICK h : h = [handles[n] EXCEPT !.data = d, !.ver = @ + 1]
      OBVIOUS
    <2> DEFINE next == [op |-> "write", at |-> "upsert_dir", h |-> h]
    <2>2. /\ h.ver <= MaxVersion /\ handles' = [handles EXCEPT ![n] = h]
          /\ write_object(h, next, TRUE) /\ handles[n] # Missing
      BY <1>2, <2>1, Zenon DEF Write
    <2>3. h \in OpenHandle
      <3>1. handles[n] \in OpenHandle
        BY <1>0, <2>2 DEF StorageTypes
      <3>2. /\ h.oid = handles[n].oid /\ h.fid = handles[n].fid /\ h.data = d /\ h.ver = handles[n].ver + 1
            /\ h = [oid |-> h.oid, fid |-> h.fid, ver |-> h.ver, data |-> h.data]
        BY <2>1, <3>1, Zenon DEF OpenHandle
      <3>3. handles[n].ver \in Nat /\ MaxVersion \in Nat /\ handles[n].ver >= 1
        BY <3>1, BoundsAssumption DEF OpenHandle
      <3>4. h.ver \in 1..MaxVersion
        BY <2>2, <3>2, <3>3
      <3> QED BY <1>2, <3>1, <3>2, <3>4 DEF OpenHandle
    <2>4. handles' \in [Slot -> {Missing} \cup OpenHandle]
      <3> HIDE DEF OpenHandle
      <3> QED BY <1>0, <2>2, <2>3 DEF StorageTypes
    <2>5. next \in Calls /\ next.op = "write" /\ next.h = h
      BY <2>3 DEF Calls
    <2> HIDE DEF next
    <2>6. PICK file : Wrote(h, next, TRUE, file)
      BY <1>0, <2>2, ObjectWrites, Zenon
    <2> QED BY <2>3, <2>4, <2>5, <2>6, WroteKeeps, Zenon
  <1> QED BY <1>1, <1>2

\* The first part of rename.
LEMMA RenameKeeps ==
    ASSUME StorageInv, NEW old \in Oid, NEW new \in Oid, Rename(old, new)
    PROVE  StorageInv'
  <1>0. StorageTypes
    BY DEF StorageInv
  <1>1. CASE Refuse
    <2>1. Refused
      BY <1>1 DEF Refuse, Return, Refused
    <2> QED BY <2>1, RefusedKeeps
  <1>2. CASE ~Refuse
    <2>0. PICK g : g = Opened(dir, old)
      OBVIOUS
    <2>1. PICK h : h = [g EXCEPT !.oid = new, !.ver = @ + 1]
      OBVIOUS
    <2> DEFINE next == [op |-> "rename", at |-> "delete", h |-> h, oid |-> old, rest |-> <<>>]
    <2>2. Opens(dir, old) /\ h.ver <= MaxVersion /\ write_object(h, next, FALSE) /\ handles' = handles
      BY <1>2, <2>0, <2>1, Zenon DEF Rename
    <2>3. h \in OpenHandle
      <3>1. g \in OpenHandle
        BY <1>0, <2>0, <2>2, OpenedIs
      <3>2. /\ h.oid = new /\ h.fid = g.fid /\ h.data = g.data /\ h.ver = g.ver + 1
            /\ h = [oid |-> h.oid, fid |-> h.fid, ver |-> h.ver, data |-> h.data]
        BY <2>1, <3>1, Zenon DEF OpenHandle
      <3>3. g.ver \in Nat /\ MaxVersion \in Nat /\ g.ver >= 1
        BY <3>1, BoundsAssumption DEF OpenHandle
      <3>4. h.ver \in 1..MaxVersion
        BY <2>2, <3>2, <3>3
      <3> QED BY <3>1, <3>2, <3>4 DEF OpenHandle
    <2>4. handles' \in [Slot -> {Missing} \cup OpenHandle]
      BY <1>0, <2>2 DEF StorageTypes
    <2>5. next \in Calls /\ next.op = "rename" /\ next.at = "delete" /\ next.h = h
      BY <2>3, NothingListed DEF Calls
    <2> HIDE DEF next
    <2>6. PICK file : Wrote(h, next, FALSE, file)
      BY <1>0, <2>2, ObjectWrites, Zenon
    <2> QED BY <2>3, <2>4, <2>5, <2>6, WroteKeeps, Zenon
  <1> QED BY <1>1, <1>2

\* The removal of a file, with success or without, lets no directory show more.
LEMMA RemovalKeeps ==
    ASSUME StorageInv, NEW o \in Oid, NEW next, RemovedFile(o, next)
    PROVE  /\ obj' \in [Files -> {Missing, Torn} \cup Blob] /\ obj'[Zero] = Missing
           /\ \A f \in Files : obj'[f] \in {Missing, obj[f]}
           /\ dir \in Seq(Entry) /\ IsDir(dir) /\ DirOk(dir, obj', may)
           /\ LET rest == remove(dir, position(dir, o))
              IN  /\ rest \in Seq(Entry) /\ Doubles(rest) /\ NoFileOf(rest, o) /\ Part(rest, dir)
                  /\ call' = [next EXCEPT !.rest = rest]
  <1>1. PICK left \in {Missing, obj[dir[position(dir, o)].fid]} :
          obj' = [obj EXCEPT ![dir[position(dir, o)].fid] = left]
    BY Zenon DEF RemovedFile
  <1>2. IsDir(dir) /\ Listed(dir, o) /\ call' = [next EXCEPT !.rest = remove(dir, position(dir, o))]
    BY DEF RemovedFile
  <1>3. dir \in Seq(Entry) /\ DirOk(dir, obj, may) /\ obj \in [Files -> {Missing, Torn} \cup Blob]
        /\ obj[Zero] = Missing /\ Zero \in Files
    BY <1>2 DEF StorageInv, StorageTypes, IsDir, Files
  <1>4. /\ obj' \in [Files -> {Missing, Torn} \cup Blob] /\ obj'[Zero] = Missing
        /\ \A f \in Files : obj'[f] \in {Missing, obj[f]}
    BY <1>1, <1>3, Zenon
  <1>5. DirOk(dir, obj', may)
    <2>1. ASSUME NEW i \in DOMAIN dir, Shows(obj', dir[i])
          PROVE  obj'[dir[i].fid].data \in may[dir[i].oid]
      <3>0. dir[i] \in Entry
        BY <1>3, Numbered
      <3>1. dir[i].fid \in Files
        BY <3>0 DEF Entry, Files
      <3>2. obj'[dir[i].fid] # Missing
        BY <2>1 DEF Shows, decrypts
      <3>3. obj'[dir[i].fid] = obj[dir[i].fid]
        BY <1>4, <3>1, <3>2
      <3> QED BY <1>3, <2>1, <3>3 DEF DirOk, Fresh, Shows
    <2> QED BY <1>3, <2>1 DEF DirOk, Fresh
  <1>6. LET rest == remove(dir, position(dir, o))
        IN  rest \in Seq(Entry) /\ Doubles(rest) /\ NoFileOf(rest, o) /\ Part(rest, dir)
    BY <1>2, <1>3, RestOk DEF DirOk
  <1> QED BY <1>2, <1>3, <1>4, <1>5, <1>6

\* The first part of delete.
LEMMA DeleteKeeps ==
    ASSUME StorageInv, NEW o \in Oid, Delete(o)
    PROVE  StorageInv'
  <1> DEFINE next == [op |-> "delete", at |-> "store_dir_full", oid |-> o, rest |-> <<>>]
  <1>0. StorageTypes
    BY DEF StorageInv
  <1>1. Refused \/ RemovedFile(o, next)
    BY <1>0, FileRemoves DEF Delete
  <1>2. CASE Refused
    BY <1>2, RefusedKeeps
  <1>3. CASE RemovedFile(o, next)
    <2>0. PICK rest : rest = remove(dir, position(dir, o))
      OBVIOUS
    <2>1. /\ obj' \in [Files -> {Missing, Torn} \cup Blob] /\ obj'[Zero] = Missing
          /\ dir \in Seq(Entry) /\ IsDir(dir) /\ DirOk(dir, obj', may)
          /\ rest \in Seq(Entry) /\ Doubles(rest) /\ NoFileOf(rest, o) /\ Part(rest, dir)
          /\ call' = [next EXCEPT !.rest = rest]
      <3> HIDE DEF next
      <3> QED BY <1>3, <2>0, RemovalKeeps
    <2>2. UNCHANGED <<dir, handles, ret, may>> /\ calm' \in BOOLEAN
      BY <1>3 DEF RemovedFile
    <2>3. /\ call' = [op |-> "delete", at |-> "store_dir_full", oid |-> o, rest |-> rest]
          /\ call'.op = "delete" /\ call'.oid = o /\ call'.rest = rest
      BY <2>1
    <2>4. call' \in Calls
      BY <2>1, <2>3 DEF Calls
    <2>5. CallOk'
      BY <2>1, <2>2, <2>3 DEF CallOk, IsDir, Part, Doubles, NoFileOf
    <2>6. StorageTypes'
      BY <1>0, <2>1, <2>2, <2>4 DEF StorageTypes
    <2> QED BY <2>1, <2>2, <2>5, <2>6 DEF StorageInv, IsDir, DirOk, Doubles, Fresh, Shows, decrypts
  <1> QED BY <1>1, <1>2, <1>3

\* The second part of rename.
LEMMA RenameDeleteKeeps ==
    ASSUME StorageInv, RenameDelete
    PROVE  StorageInv'
  <1>c. PICK c : c = call
    OBVIOUS
  <1> DEFINE next == [c EXCEPT !.at = "store_dir_full"]
  <1>0. StorageTypes
    BY DEF StorageInv
  <1>p. /\ c \in [op : {"rename"}, at : {"delete", "store_dir_full", "store_dir"}, h : OpenHandle, oid : Oid,
                  rest : Seq(Entry)]
        /\ c.op = "rename"
    BY <1>0, <1>c DEF RenameDelete, StorageTypes, Calls, Idle
  <1>q. c.h \in OpenHandle /\ c.oid \in Oid
    BY <1>p
  <1>1. Refused \/ RemovedFile(c.oid, next)
    BY <1>0, <1>c, FileRemoves DEF RenameDelete
  <1>2. CASE Refused
    BY <1>2, RefusedKeeps
  <1>3. CASE RemovedFile(c.oid, next)
    <2>0. PICK rest : rest = remove(dir, position(dir, c.oid))
      OBVIOUS
    <2>1. /\ obj' \in [Files -> {Missing, Torn} \cup Blob] /\ obj'[Zero] = Missing
          /\ \A f \in Files : obj'[f] \in {Missing, obj[f]}
          /\ dir \in Seq(Entry) /\ IsDir(dir) /\ DirOk(dir, obj', may)
          /\ rest \in Seq(Entry) /\ Doubles(rest) /\ NoFileOf(rest, c.oid) /\ Part(rest, dir)
          /\ call' = [next EXCEPT !.rest = rest]
      <3> HIDE DEF next
      <3> QED BY <1>q, <1>3, <2>0, RemovalKeeps
    <2>2. UNCHANGED <<dir, handles, ret, may>> /\ calm' \in BOOLEAN
      BY <1>3 DEF RemovedFile
    <2>3. /\ call' \in [op : {"rename"}, at : {"delete", "store_dir_full", "store_dir"}, h : OpenHandle, oid : Oid,
                        rest : Seq(Entry)]
          /\ call'.op = "rename" /\ call'.at = "store_dir_full"
          /\ call'.oid = c.oid /\ call'.rest = rest /\ call'.h = c.h
      <3> HIDE DEF OpenHandle
      <3> QED BY <1>p, <2>1, Zenon
    <2>4. call' \in Calls
      BY <2>3 DEF Calls
    <2>5. CallOk'
      <3>1. obj'[c.h.fid] \in {Missing, ObjectOf(c.h)} /\ c.h.data \in may[c.h.oid]
        <4>1. c.h.fid \in Files
          BY <1>q, HandleParts
        <4>2. obj[c.h.fid] \in {Missing, ObjectOf(c.h)} /\ c.h.data \in may[c.h.oid]
          BY <1>c, <1>p DEF StorageInv, CallOk
        <4> QED BY <2>1, <4>1, <4>2
      <3>2. ObjectOf(call.h)' = ObjectOf(c.h)
        BY <2>3 DEF ObjectOf
      <3> QED BY <2>1, <2>2, <2>3, <3>1, <3>2 DEF CallOk, IsDir, Part, Doubles, NoFileOf
    <2>6. StorageTypes'
      BY <1>0, <2>1, <2>2, <2>4 DEF StorageTypes
    <2> QED BY <2>1, <2>2, <2>5, <2>6 DEF StorageInv, IsDir, DirOk, Doubles, Fresh, Shows, decrypts
  <1> QED BY <1>1, <1>2, <1>3
================================================================================
