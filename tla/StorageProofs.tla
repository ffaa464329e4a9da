---------------------------- MODULE StorageProofs ----------------------------
(***************************************************************************)
(* Theorems about secure storage, for any number of objects, versions,     *)
(* handles and directory entries: the steps that write the directory keep  *)
(* the invariant, what the invariant gives, and what list shows as long as *)
(* no file operation fails, nothing is renamed and no object is created    *)
(* beside another.                                                         *)
(***************************************************************************)
EXTENDS StorageSteps

-----------------------------------------------------------------------------
(* The invariant is kept by a write of the directory *)

\* A write of the directory, with success or without, keeps the invariant when the new
\* directory is a good one both before and after the call is acknowledged.
LEMMA DirKeeps ==
    ASSUME StorageInv, NEW new \in Seq(Entry), NEW quiet, NEW m \in [Oid -> SUBSET Data],
           WroteDir(new, quiet, m), DirOk(new, obj, may), DirOk(new, obj, m),
           handles' \in [Slot -> {Missing} \cup OpenHandle], call' \in Calls, CallOk'
    PROVE  StorageInv'
  <1>1. obj' = obj /\ ret' \in {"ok", "err"} /\ calm' \in BOOLEAN
    BY DEF WroteDir
  <1>2. (dir' = new /\ may' = m) \/ (dir' \in {dir, new, Torn} /\ may' = may)
    BY DEF WroteDir
  <1>3. StorageTypes'
    BY <1>1, <1>2 DEF StorageInv, StorageTypes
  <1>4. IsDir(dir') => DirOk(dir', obj, may')
    <2>1. CASE dir' = Torn
      BY <2>1 DEF IsDir
    <2>2. CASE dir' = new
      BY <1>2, <2>2
    <2>3. CASE dir' = dir /\ may' = may
      BY <2>3 DEF StorageInv
    <2> QED BY <1>2, <2>1, <2>2, <2>3
  <1> QED BY <1>1, <1>3, <1>4, Zenon DEF StorageInv, IsDir, DirOk, Doubles, Fresh, Shows, decrypts

\* The history of one object changes nothing for a directory that has no file of it.
LEMMA HistoryFrame ==
    ASSUME NEW d \in Seq(Entry), NEW files, NEW m \in [Oid -> SUBSET Data], NEW o \in Oid, NEW S,
           DirOk(d, files, m), files[Zero] = Missing, NoFileOf(d, o)
    PROVE  DirOk(d, files, [m EXCEPT ![o] = S])
  <1> DEFINE n == [m EXCEPT ![o] = S]
  <1>1. ASSUME NEW i \in DOMAIN d, Shows(files, d[i])
        PROVE  files[d[i].fid].data \in n[d[i].oid]
    <2>0. d[i] \in Entry
      BY Numbered
    <2>1. d[i].oid \in Oid
      BY <2>0 DEF Entry
    <2>2. d[i].fid # Zero
      BY <1>1 DEF Shows, decrypts
    <2>3. d[i].oid # o
      BY <2>2 DEF NoFileOf
    <2>4. n[d[i].oid] = m[d[i].oid]
      BY <2>1, <2>3
    <2> QED BY <1>1, <2>4 DEF DirOk, Fresh
  <1> QED BY <1>1 DEF DirOk, Fresh

\* Nor has the empty directory anything to show.
LEMMA EmptyDirOk == ASSUME NEW files, NEW m PROVE DirOk(<<>>, files, m)
  BY DEF DirOk, Doubles, Fresh

\* The second part of create.
LEMMA CreateStoreDirKeeps ==
    ASSUME StorageInv, CreateStoreDir
    PROVE  StorageInv'
  <1>0. StorageTypes
    BY DEF StorageInv
  <1>c. PICK c : c = call
    OBVIOUS
  <1>p. /\ c \in [op : {"create"}, at : {"store_dir"}, h : OpenHandle, slot : Slot, entries : Seq(Oid)]
        /\ c.op = "create"
    BY <1>0, <1>c DEF CreateStoreDir, StorageTypes, Calls, Idle
  <1>q. c.h \in OpenHandle /\ c.slot \in Slot
    BY <1>p
  <1>h. PICK h : h = c.h
    OBVIOUS
  <1>1. PICK m : m = [may EXCEPT ![h.oid] = {h.data}]
    BY Zenon
  <1>2. PICK r \in load_dir_full :
          /\ WroteDir(store_dir(c.entries, r, h), r = dir, m) /\ call' = Idle
          /\ handles' \in {handles, [handles EXCEPT ![c.slot] = h]}
    BY <1>0, <1>c, <1>h, <1>1, CreateStores, Zenon
  <1>3. h.oid \in Oid /\ h.data \in Data /\ h.fid \in Files /\ h \in OpenHandle
    BY <1>q, <1>h, HandleParts
  <1>4. /\ obj[h.fid] = ObjectOf(h) /\ h.data \in may[h.oid]
        /\ \/ c.entries = <<h.oid>>
           \/ /\ IsDir(dir) /\ c.entries = Append(ObjectIds(dir), h.oid)
              /\ \A i \in DOMAIN dir : dir[i].oid # h.oid
    BY <1>c, <1>p, <1>h DEF StorageInv, CallOk
  <1>5. m \in [Oid -> SUBSET Data] /\ h.data \in m[h.oid] /\ obj[Zero] = Missing
    BY <1>0, <1>1, <1>3 DEF StorageTypes
  <1>6. /\ Read(r) /\ (r # Missing => r = dir /\ IsDir(dir)) /\ (IsDir(dir) => dir \in Seq(Entry) /\ dir # Missing)
    BY <1>0, <1>2, Reads
  <1>7. PICK D : D = IF IsDir(dir) THEN dir ELSE <<>>
    OBVIOUS
  <1>8. D \in Seq(Entry) /\ ((r = D /\ r # Missing) \/ r = Missing) /\ DirOk(D, obj, may)
    <2>1. <<>> \in Seq(Entry)
      BY EmptySeq
    <2> QED BY <1>6, <1>7, <2>1, EmptyDirOk DEF StorageInv
  <1>9. c.entries = <<h.oid>> \/ (c.entries = Append(ObjectIds(D), h.oid) /\ DirOk(D, obj, m))
    <2>1. CASE c.entries = <<h.oid>>
      BY <2>1
    <2>2. CASE /\ IsDir(dir) /\ c.entries = Append(ObjectIds(dir), h.oid)
               /\ \A i \in DOMAIN dir : dir[i].oid # h.oid
      <3>1. NoFileOf(dir, h.oid) /\ D = dir
        BY <1>7, <2>2 DEF NoFileOf
      <3>2. DirOk(D, obj, m)
        BY <1>0, <1>1, <1>3, <1>5, <1>8, <3>1, HistoryFrame, Zenon DEF StorageTypes
      <3> QED BY <2>2, <3>1, <3>2
    <2> QED BY <1>4, <2>1, <2>2
  <1>10. /\ store_dir(c.entries, r, h) \in Seq(Entry) /\ DirOk(store_dir(c.entries, r, h), obj, may)
         /\ DirOk(store_dir(c.entries, r, h), obj, m)
    <2>1. c.entries = <<h.oid>> \/ (c.entries = Append(ObjectIds(D), h.oid) /\ DirOk(D, obj, may))
      BY <1>8, <1>9
    <2>2. obj[h.fid] \in {Missing, ObjectOf(h)}
      BY <1>4
    <2>3. store_dir(c.entries, r, h) \in Seq(Entry) /\ DirOk(store_dir(c.entries, r, h), obj, may)
      BY <1>3, <1>4, <1>5, <1>8, <2>1, <2>2, StoreDirOk, Zenon
    <2>4. DirOk(store_dir(c.entries, r, h), obj, m)
      BY <1>3, <1>5, <1>8, <1>9, <2>2, StoreDirOk, Zenon
    <2> QED BY <2>3, <2>4
  <1>11. handles' \in [Slot -> {Missing} \cup OpenHandle]
    <2> HIDE DEF OpenHandle
    <2> QED BY <1>0, <1>2, <1>3, <1>q DEF StorageTypes
  <1>12. call' \in Calls /\ CallOk'
    BY <1>2, IdleKeeps
  <1> QED BY <1>2, <1>5, <1>10, <1>11, <1>12, DirKeeps

\* The second part of write.
LEMMA UpsertDirKeeps ==
    ASSUME StorageInv, UpsertDir
    PROVE  StorageInv'
  <1>0. StorageTypes
    BY DEF StorageInv
  <1>h. PICK h : h = call.h
    OBVIOUS
  <1>p. h \in OpenHandle /\ call.op = "write"
    BY <1>0, <1>h DEF UpsertDir, StorageTypes, Calls, Idle
  <1>1. PICK m : m = [may EXCEPT ![h.oid] = {h.data}]
    BY Zenon
  <1>2. PICK r \in load_dir_full :
          /\ WroteDir(upsert_dir(unwrap_or_default(r), h), r = dir, m) /\ call' = Idle /\ handles' = handles
    BY <1>0, <1>h, <1>1, UpsertStores, Zenon
  <1>3. h.oid \in Oid /\ h.data \in Data
    BY <1>p, HandleParts
  <1>4. obj[h.fid] = ObjectOf(h) /\ h.data \in may[h.oid]
    BY <1>h, <1>p DEF StorageInv, CallOk
  <1>5. m \in [Oid -> SUBSET Data] /\ h.data \in m[h.oid] /\ obj[Zero] = Missing
        /\ \A o \in Oid : o # h.oid => m[o] = may[o]
    BY <1>0, <1>1, <1>3 DEF StorageTypes
  <1>6. PICK d : d = unwrap_or_default(r)
    OBVIOUS
  <1>7. d \in Seq(Entry) /\ DirOk(d, obj, may)
    BY <1>0, <1>2, <1>6, Reads, EmptyDirOk DEF StorageInv
  <1>8. upsert_dir(d, h) \in Seq(Entry) /\ DirOk(upsert_dir(d, h), obj, may)
    BY <1>p, <1>4, <1>5, <1>7, UpsertOk
  <1>9. DirOk(upsert_dir(d, h), obj, m)
    BY <1>p, <1>4, <1>5, <1>7, UpsertOk
  <1>10. handles' \in [Slot -> {Missing} \cup OpenHandle] /\ call' \in Calls /\ CallOk'
    BY <1>0, <1>2, IdleKeeps DEF StorageTypes
  <1> QED BY <1>2, <1>5, <1>6, <1>8, <1>9, <1>10, DirKeeps

\* A part of a good directory is a good one when its ids are as good.
LEMMA PartOk ==
    ASSUME NEW rest, NEW d, NEW files, NEW m, DirOk(d, files, m), Doubles(rest), Part(rest, d)
    PROVE  DirOk(rest, files, m)
  BY DEF DirOk, Fresh, Part

\* The second part of delete.
LEMMA DeleteStoreDirKeeps ==
    ASSUME StorageInv, DeleteStoreDir
    PROVE  StorageInv'
  <1>0. StorageTypes
    BY DEF StorageInv
  <1>1. PICK o, rest : o = call.oid /\ rest = call.rest
    OBVIOUS
  <1>2. call.op = "delete" /\ o \in Oid /\ rest \in Seq(Entry)
    BY <1>0, <1>1 DEF DeleteStoreDir, StorageTypes, Calls, Idle
  <1>3. IsDir(dir) /\ Doubles(rest) /\ NoFileOf(rest, o) /\ Part(rest, dir)
    BY <1>1, <1>2 DEF StorageInv, CallOk
  <1>4. may \in [Oid -> SUBSET Data] /\ obj[Zero] = Missing
    BY <1>0 DEF StorageTypes
  <1>5. DirOk(rest, obj, may)
    BY <1>3, PartOk DEF StorageInv
  <1>6. DirOk(rest, obj, [may EXCEPT ![o] = {}]) /\ [may EXCEPT ![o] = {}] \in [Oid -> SUBSET Data]
    BY <1>2, <1>3, <1>4, <1>5, HistoryFrame, Zenon
  <1>7. WroteDir(rest, TRUE, [may EXCEPT ![o] = {}]) /\ call' = Idle /\ handles' = handles
    BY <1>0, <1>1, DeleteStores, Zenon
  <1>8. handles' \in [Slot -> {Missing} \cup OpenHandle] /\ call' \in Calls /\ CallOk'
    BY <1>0, <1>7, IdleKeeps DEF StorageTypes
  <1> QED BY <1>2, <1>5, <1>6, <1>7, <1>8, DirKeeps, Zenon

\* The third part of rename.
LEMMA RenameStoreDeletedKeeps ==
    ASSUME StorageInv, RenameStoreDeleted
    PROVE  StorageInv'
  <1>0. StorageTypes
    BY DEF StorageInv
  <1>c. PICK c : c = call
    OBVIOUS
  <1>p. /\ c \in [op : {"rename"}, at : {"delete", "store_dir_full", "store_dir"}, h : OpenHandle, oid : Oid,
                  rest : Seq(Entry)]
        /\ c.op = "rename" /\ c.at = "store_dir_full"
    BY <1>0, <1>c DEF RenameStoreDeleted, StorageTypes, Calls, Idle
  <1>q. c.h \in OpenHandle /\ c.oid \in Oid /\ c.rest \in Seq(Entry)
    BY <1>p
  <1>3. /\ IsDir(dir) /\ Doubles(c.rest) /\ NoFileOf(c.rest, c.oid) /\ Part(c.rest, dir)
        /\ obj[c.h.fid] \in {Missing, ObjectOf(c.h)} /\ c.h.data \in may[c.h.oid]
    BY <1>c, <1>p DEF StorageInv, CallOk
  <1>4. may \in [Oid -> SUBSET Data]
    BY <1>0 DEF StorageTypes
  <1>5. DirOk(c.rest, obj, may)
    BY <1>3, PartOk DEF StorageInv
  <1>6. /\ WroteDir(c.rest, FALSE, may) /\ handles' = handles
        /\ call' = Idle \/ (call' = [c EXCEPT !.at = "store_dir", !.rest = <<>>] /\ dir' = c.rest)
    BY <1>0, <1>c, RenameDeletes, Zenon
  <1>7. obj' = obj /\ may' = may
    BY <1>6 DEF WroteDir
  <1>8. handles' \in [Slot -> {Missing} \cup OpenHandle]
    BY <1>0, <1>6 DEF StorageTypes
  <1>9. call' \in Calls /\ CallOk'
    <2>1. CASE call' = Idle
      BY <2>1, IdleKeeps
    <2>2. CASE call' = [c EXCEPT !.at = "store_dir", !.rest = <<>>] /\ dir' = c.rest
      <3>1. <<>> \in Seq(Entry)
        BY EmptySeq
      <3>2. /\ call' \in [op : {"rename"}, at : {"delete", "store_dir_full", "store_dir"}, h : OpenHandle,
                          oid : Oid, rest : Seq(Entry)]
            /\ call'.op = "rename" /\ call'.at = "store_dir" /\ call'.oid = c.oid /\ call'.h = c.h
        <4> HIDE DEF OpenHandle
        <4> QED BY <1>p, <2>2, <3>1, Zenon
      <3>3. ObjectOf(call.h)' = ObjectOf(c.h)
        BY <3>2 DEF ObjectOf
      <3>4. IsDir(dir)' /\ NoFileOf(dir, call.oid)'
        BY <1>q, <1>3, <2>2, <3>2, FileAssumption DEF IsDir, NoFileOf
      <3>5. CallOk'
        BY <1>3, <1>7, <3>2, <3>3, <3>4 DEF CallOk
      <3> QED BY <3>2, <3>5 DEF Calls
    <2> QED BY <1>6, <2>1, <2>2
  <1> QED BY <1>q, <1>4, <1>5, <1>6, <1>8, <1>9, DirKeeps, Zenon

\* The last part of rename.
LEMMA RenameStoreDirKeeps ==
    ASSUME StorageInv, RenameStoreDir
    PROVE  StorageInv'
  <1>0. StorageTypes
    BY DEF StorageInv
  <1>h. PICK h, o : h = call.h /\ o = call.oid
    OBVIOUS
  <1>p. h \in OpenHandle /\ o \in Oid /\ call.op = "rename" /\ call.at = "store_dir"
    <2>1. call.op = "rename" /\ call.at = "store_dir"
      BY DEF RenameStoreDir
    <2>2. call \in Calls
      BY <1>0 DEF StorageTypes
    <2> QED BY <1>h, <2>1, <2>2, RenameParts, Zenon
  <1>1. PICK S, m : S = may[o] \cap (IF o = h.oid THEN {h.data} ELSE {}) /\ m = [may EXCEPT ![o] = S]
    BY Zenon
  <1>e. m = [may EXCEPT ![o] = @ \cap IF o = h.oid THEN {h.data} ELSE {}]
    BY <1>1
  <1>2. PICK r \in load_dir_full, s \in load_dir_full :
          /\ WroteDir(store_dir(Append(ObjectIds(unwrap_or_default(r)), h.oid), s, h), FALSE, m)
          /\ call' = Idle /\ handles' = handles
    BY <1>0, <1>h, <1>e, RenameStores, Zenon
  <1>3. /\ IsDir(dir) /\ NoFileOf(dir, o) /\ obj[h.fid] \in {Missing, ObjectOf(h)} /\ h.data \in may[h.oid]
    BY <1>h, <1>p DEF StorageInv, CallOk
  <1>4. h.oid \in Oid /\ h.data \in Data
    BY <1>p, HandleParts
  <1>5. may \in [Oid -> SUBSET Data] /\ m \in [Oid -> SUBSET Data] /\ obj[Zero] = Missing
    <2>1. may \in [Oid -> SUBSET Data] /\ obj[Zero] = Missing
      BY <1>0 DEF StorageTypes
    <2> QED BY <1>p, <1>1, <2>1
  <1>6. h.data \in m[h.oid]
    <2>1. CASE o = h.oid
      BY <1>p, <1>1, <1>3, <1>5, <2>1
    <2>2. CASE o # h.oid
      BY <1>1, <1>3, <1>4, <1>5, <2>2
    <2> QED BY <2>1, <2>2
  <1>7. /\ dir \in Seq(Entry) /\ dir # Missing /\ ((s = dir /\ s # Missing) \/ s = Missing)
        /\ unwrap_or_default(r) = <<>> \/ unwrap_or_default(r) = dir
    <2>1. dir \in Seq(Entry) /\ dir # Missing
      BY <1>0, <1>2, <1>3, Reads
    <2>2. unwrap_or_default(r) = <<>> \/ unwrap_or_default(r) = dir
      BY <1>0, <1>2, Reads
    <2>3. (s = dir /\ s # Missing) \/ s = Missing
      BY <1>0, <1>2, Reads
    <2> QED BY <2>1, <2>2, <2>3
  <1>8. DirOk(dir, obj, may) /\ DirOk(dir, obj, m)
    <2>1. DirOk(dir, obj, may)
      BY <1>3 DEF StorageInv
    <2> QED BY <1>p, <1>1, <1>3, <1>5, <1>7, <2>1, HistoryFrame, Zenon
  <1>9. PICK ids : ids = Append(ObjectIds(unwrap_or_default(r)), h.oid)
    BY Zenon
  <1>10. ids = <<h.oid>> \/ ids = Append(ObjectIds(dir), h.oid)
    <2>1. CASE unwrap_or_default(r) = <<>>
      <3>1. ObjectIds(unwrap_or_default(r)) = <<>>
        BY <2>1 DEF ObjectIds
      <3> QED BY <1>9, <3>1
    <2>2. CASE unwrap_or_default(r) = dir
      BY <1>9, <2>2
    <2> QED BY <1>7, <2>1, <2>2
  <1>11. store_dir(ids, s, h) \in Seq(Entry) /\ DirOk(store_dir(ids, s, h), obj, may)
    BY <1>p, <1>3, <1>5, <1>7, <1>8, <1>10, StoreDirOk
  <1>12. DirOk(store_dir(ids, s, h), obj, m)
    BY <1>p, <1>3, <1>5, <1>6, <1>7, <1>8, <1>10, StoreDirOk
  <1>13. handles' \in [Slot -> {Missing} \cup OpenHandle] /\ call' \in Calls /\ CallOk'
    BY <1>0, <1>2, IdleKeeps DEF StorageTypes
  <1> QED BY <1>2, <1>5, <1>9, <1>11, <1>12, <1>13, DirKeeps, Zenon

\* A restart.
LEMMA RestartKeeps ==
    ASSUME StorageInv, Restart
    PROVE  StorageInv'
  <1>1. call' \in Calls /\ CallOk' /\ ret' \in {"ok", "err"}
    BY IdleKeeps DEF Restart
  <1>2. UNCHANGED <<dir, obj, may>> /\ calm' \in BOOLEAN
    BY DEF Restart, StorageInv, StorageTypes
  <1>3. handles' \in [Slot -> {Missing} \cup OpenHandle]
    BY DEF Restart
  <1> QED BY <1>1, <1>2, <1>3 DEF StorageInv, StorageTypes, IsDir, DirOk, Doubles, Fresh, Shows, decrypts

\* The invariant holds at first.
LEMMA StorageInit == Init => StorageInv
  <1> SUFFICES ASSUME Init PROVE StorageInv
    OBVIOUS
  <1>1. call \in Calls /\ CallOk
    BY DEF Init, Calls, CallOk, Idle
  <1>2. StorageTypes
    BY <1>1 DEF Init, StorageTypes, Files
  <1>3. ~IsDir(dir)
    BY DEF Init, IsDir
  <1> QED BY <1>1, <1>2, <1>3 DEF StorageInv

\* Every step keeps it.
LEMMA StorageInductive == StorageInv /\ [Next]_vars => StorageInv'
  <1> SUFFICES ASSUME StorageInv, [Next]_vars PROVE StorageInv'
    OBVIOUS
  <1>1. CASE Next
    BY <1>1, CreateKeeps, OpenKeeps, WriteKeeps, DeleteKeeps, RenameKeeps, RenameDeleteKeeps,
       CreateStoreDirKeeps, UpsertDirKeeps, DeleteStoreDirKeeps, RenameStoreDeletedKeeps,
       RenameStoreDirKeeps, RestartKeeps DEF Next
  <1>2. CASE UNCHANGED vars
    BY <1>2, ZenonT(60) DEF vars, StorageInv, StorageTypes, CallOk, IsDir, DirOk, Doubles, Fresh, Shows, decrypts,
       ObjectOf, ObjectIds, NoFileOf, Part
  <1> QED BY <1>1, <1>2

\* The invariant holds in every state.
LEMMA StorageHolds == Spec => []StorageInv
  BY StorageInit, StorageInductive, PTL DEF Spec

-----------------------------------------------------------------------------
(* What the invariant gives *)

\* Every file, handle and call of ReeFs has its type: in particular the version in a
\* directory entry is never 0, which no object file has.
THEOREM StorageTyped == Spec => []TypeOK
  <1>1. StorageInv => TypeOK
    <2> SUFFICES ASSUME StorageInv PROVE TypeOK
      OBVIOUS
    <2>0. StorageTypes
      BY DEF StorageInv
    <2>1. dir \in {Missing, Torn} \/ \A i \in DOMAIN dir : dir[i] \in Entry
      BY <2>0, Numbered DEF StorageTypes
    <2>2. \A f \in FileId \cup {Zero} : obj[f] \in {Missing, Torn} \/ obj[f] \in Blob
      BY <2>0 DEF StorageTypes, Files
    <2>3. \A n \in Slot : handles[n] = Missing \/ handles[n] \in Handle
      <3>1. OpenHandle \subseteq Handle
        BY DEF OpenHandle, Handle
      <3> QED BY <2>0, <3>1 DEF StorageTypes
    <2>4. call.op \in {"idle", "create", "write", "delete", "rename"}
      BY <2>0 DEF StorageTypes, Calls, Idle
    <2>5. ret \in {"ok", "err"} /\ may \in [Oid -> SUBSET Data] /\ calm \in BOOLEAN
      BY <2>0 DEF StorageTypes
    <2> QED BY <2>1, <2>2, <2>3, <2>4, <2>5, Zenon DEF TypeOK
  <1> QED BY <1>1, StorageHolds, PTL

\* Whatever file operation fails and whenever the guest restarts, open of ReeFs never shows
\* contents that a later acknowledged call replaced, nor those of another object.
THEOREM NothingStale == Spec => []NoStaleData
  <1>1. StorageInv => NoStaleData
    <2> SUFFICES ASSUME StorageInv, NEW o \in Oid, Opens(dir, o)
                 PROVE  Opened(dir, o).data \in may[o]
      BY DEF NoStaleData
    <2>0. StorageTypes
      BY DEF StorageInv
    <2>1. PICK i : i = position(dir, o)
      OBVIOUS
    <2>2. /\ IsDir(dir) /\ i \in DOMAIN dir /\ dir[i].oid = o /\ Shows(obj, dir[i])
          /\ Opened(dir, o).data = obj[dir[i].fid].data
      BY <2>0, <2>1, OpenedIs, Zenon
    <2> QED BY <2>2 DEF StorageInv, DirOk, Fresh
  <1> QED BY <1>1, StorageHolds, PTL

\* The directory upsert_dir writes opens the object, with the contents of its file.
LEMMA UpsertOpens ==
    ASSUME NEW d \in Seq(Entry), NEW h \in OpenHandle
    PROVE  LET new == upsert_dir(d, h)
           IN  IsDir(new) /\ Listed(new, h.oid)
               /\ new[position(new, h.oid)] = [oid |-> h.oid, fid |-> h.fid, ver |-> h.ver]
  <1>1. PICK new : new = upsert_dir(d, h)
    OBVIOUS
  <1>2. new \in Seq(Entry) /\ \E p : Upserted(new, d, h, p)
    BY <1>1, UpsertIs
  <1>3. PICK p : Upserted(new, d, h, p)
    BY <1>2
  <1>4. IsDir(new)
    BY <1>2, FileAssumption DEF IsDir
  <1>5. p \in DOMAIN new /\ new[p] = [oid |-> h.oid, fid |-> h.fid, ver |-> h.ver] /\ new[p].oid = h.oid
    BY <1>3 DEF Upserted
  <1>6. Listed(new, h.oid) /\ position(new, h.oid) \in DOMAIN new /\ position(new, h.oid) <= p
        /\ new[position(new, h.oid)].oid = h.oid
    BY <1>2, <1>5, PositionFinds
  <1>7. position(new, h.oid) = p
    <2>1. PICK q : q = position(new, h.oid)
      OBVIOUS
    <2>2. q \in Nat /\ p \in Nat
      BY <1>2, <1>5, <1>6, <2>1, Numbered
    <2>3. CASE q # p
      <3>1. q < p /\ q \in DOMAIN d
        BY <1>3, <1>6, <2>1, <2>2, <2>3 DEF Upserted
      <3>2. d[q].oid # h.oid /\ new[q] = d[q]
        BY <1>3, <2>3, <3>1 DEF Upserted
      <3> QED BY <1>6, <2>1, <3>2
    <2> QED BY <2>1, <2>3
  <1> QED BY <1>1, <1>4, <1>5, <1>6, <1>7

\* A write or truncate of ReeFs that returned Ok has stored what the handle holds: the
\* object opens with it, whatever the directory looked like and whichever read failed.
THEOREM AckedWritesOpen == Spec => AckedWriteOpens
  <1>1. ASSUME StorageInv, Next, call.op = "write", call' = Idle, ret' = "ok", NEW o \in Oid, o = call.h.oid
        PROVE  Opens(dir, o)' /\ Opened(dir, o)'.data = call.h.data
    <2>0. StorageTypes
      BY <1>1 DEF StorageInv
    <2>1. UpsertDir
      <3>1. call # Idle
        BY <1>1 DEF Idle
      <3>2. ~Restart
        BY <1>1 DEF Restart
      <3> QED BY <1>1, <3>1, <3>2, Zenon DEF Next, Create, Open, Write, Delete, Rename, RenameDelete, CreateStoreDir,
              DeleteStoreDir, RenameStoreDeleted, RenameStoreDir
    <2>h. PICK h : h = call.h
      OBVIOUS
    <2>2. h \in OpenHandle
      BY <1>1, <2>0, <2>h DEF StorageTypes, Calls, Idle
    <2>3. PICK r \in load_dir_full :
            /\ WroteDir(upsert_dir(unwrap_or_default(r), h), r = dir, [may EXCEPT ![h.oid] = {h.data}])
            /\ dir' = upsert_dir(unwrap_or_default(r), h)
      BY <1>1, <2>0, <2>1, <2>h, UpsertStores, Zenon
    <2>4. unwrap_or_default(r) \in Seq(Entry)
      BY <2>0, Reads
    <2>5. /\ IsDir(dir') /\ Listed(dir', h.oid)
          /\ dir'[position(dir', h.oid)] = [oid |-> h.oid, fid |-> h.fid, ver |-> h.ver]
      BY <2>2, <2>3, <2>4, UpsertOpens
    <2>6. obj'[h.fid] = ObjectOf(h) /\ obj'[h.fid] \notin {Missing, Torn}
      <3>1. obj' = obj /\ obj[h.fid] = ObjectOf(h)
        BY <1>1, <2>3, <2>h, Zenon DEF WroteDir, StorageInv, CallOk
      <3>2. ObjectOf(h) \in Blob
        BY <2>2, HandleParts
      <3> QED BY <3>1, <3>2, FileAssumption
    <2>7. PICK e : e = dir'[position(dir', h.oid)]
      OBVIOUS
    <2>8. decrypts(h.oid, e.ver, obj'[e.fid]) /\ obj'[e.fid].data = h.data
      BY <2>5, <2>6, <2>7 DEF decrypts, ObjectOf
    <2>9. Opens(dir, h.oid)' /\ Opened(dir, h.oid)'.data = h.data
      BY <2>5, <2>7, <2>8 DEF Opens, Opened, IsDir, decrypts
    <2> QED BY <1>1, <2>h, <2>9
  <1>2. StorageInv /\ [Next]_vars
        => [call.op = "write" /\ call' = Idle /\ ret' = "ok"
              => \A o \in Oid : o = call.h.oid => Opens(dir, o)' /\ Opened(dir, o)'.data = call.h.data]_vars
    BY <1>1
  <1> QED BY <1>2, StorageHolds, PTL DEF Spec, AckedWriteOpens

-----------------------------------------------------------------------------
(* As long as all is calm *)

\* Object o has file f: by the directory, by a handle or by the call.
Uses(f, o) ==
  \/ IsDir(dir) /\ \E i \in DOMAIN dir : dir[i].fid = f /\ dir[i].oid = o
  \/ \E n \in Slot : handles[n] # Missing /\ handles[n].fid = f /\ handles[n].oid = o
  \/ call.op \in {"create", "write"} /\ call.h.fid = f /\ call.h.oid = o

OneOwner == \A f \in Files, o, p \in Oid : Uses(f, o) /\ Uses(f, p) => o = p

NoDoubles(d) == \A i, j \in DOMAIN d : d[i].oid = d[j].oid => i = j

CalmOk ==
  calm =>
    /\ dir # Torn /\ call.op # "rename" /\ OneOwner
    /\ IsDir(dir) => NoDoubles(dir)
    /\ call = Idle /\ IsDir(dir) => \A i \in DOMAIN dir : Shows(obj, dir[i])
    /\ call.op = "create" => call.entries = <<call.h.oid>> /\ (IsDir(dir) => dir = <<>>)
    /\ call.op = "write" /\ IsDir(dir) =>
         \A i \in DOMAIN dir : dir[i].fid # call.h.fid => Shows(obj, dir[i])
    /\ call.op = "delete" => NoDoubles(call.rest) /\ \A i \in DOMAIN call.rest : Shows(obj, call.rest[i])

-----------------------------------------------------------------------------
(* The calm invariant is kept *)

\* A step that gives no file to an object keeps the owners apart.
LEMMA OwnersShrink ==
    ASSUME OneOwner, \A f \in Files, o \in Oid : Uses(f, o)' => Uses(f, o)
    PROVE  OneOwner'
  BY DEF OneOwner

\* A refused call.
LEMMA RefusedCalm ==
    ASSUME CalmOk, call = Idle, Refused
    PROVE  CalmOk'
  <1> SUFFICES ASSUME calm' PROVE CalmOk'
    BY DEF CalmOk
  <1>1. call' = call /\ dir' = dir /\ obj' = obj /\ handles' = handles /\ calm
    BY DEF Refused
  <1>2. OneOwner'
    BY <1>1 DEF CalmOk, OneOwner, Uses, IsDir
  <1> QED BY <1>1, <1>2, ZenonT(60) DEF CalmOk, IsDir, NoDoubles, Shows, decrypts, Idle

\* open takes a handle on a file that the directory gives to the object.
LEMMA OpenCalm ==
    ASSUME StorageInv, CalmOk, NEW n \in Slot, NEW o \in Oid, Open(n, o)
    PROVE  CalmOk'
  <1> SUFFICES ASSUME calm' PROVE CalmOk'
    BY Zenon DEF CalmOk
  <1>0. StorageTypes
    BY DEF StorageInv
  <1>1. call = Idle /\ call' = call /\ dir' = dir /\ obj' = obj /\ calm
    BY DEF Open
  <1>2. ASSUME NEW f \in Files, NEW p \in Oid, Uses(f, p)'
        PROVE  Uses(f, p)
    <2>1. CASE handles' = handles
      BY <1>1, <1>2, <2>1 DEF Uses, IsDir
    <2>2. CASE Opens(dir, o) /\ handles' = [handles EXCEPT ![n] = Opened(dir, o)]
      <3>1. PICK i, h : i = position(dir, o) /\ h = Opened(dir, o)
        OBVIOUS
      <3>2. IsDir(dir) /\ i \in DOMAIN dir /\ dir[i].oid = o /\ h.oid = o /\ h.fid = dir[i].fid
        BY <1>0, <2>2, <3>1, OpenedIs, Zenon
      <3>3. \A k \in Slot : handles'[k] = IF k = n THEN h ELSE handles[k]
        BY <1>0, <2>2, <3>1 DEF StorageTypes
      <3> QED BY <1>1, <1>2, <3>2, <3>3 DEF Uses, IsDir
    <2> QED BY <2>1, <2>2 DEF Open
  <1>3. OneOwner'
    BY <1>1, <1>2, OwnersShrink DEF CalmOk
  <1> QED BY <1>1, <1>3 DEF CalmOk, IsDir, NoDoubles, Shows, decrypts, Idle

\* write has the file of its handle, and changes no other.
LEMMA WriteCalm ==
    ASSUME StorageInv, CalmOk, NEW n \in Slot, NEW d \in Data \cup {Oversize}, Write(n, d)
    PROVE  CalmOk'
  <1>0. StorageTypes
    BY DEF StorageInv
  <1>1. CASE d = Oversize
    <2>1. Refused /\ call = Idle
      BY <1>1 DEF Write, Refuse, Return, Refused
    <2> QED BY <2>1, RefusedCalm
  <1>2. CASE d # Oversize
    <2> SUFFICES ASSUME calm' PROVE CalmOk'
      BY Zenon DEF CalmOk
    <2>1. PICK h : h = [handles[n] EXCEPT !.data = d, !.ver = @ + 1]
      OBVIOUS
    <2>2. PICK next : next = [op |-> "write", at |-> "upsert_dir", h |-> h]
      BY Zenon
    <2>3. /\ call = Idle /\ handles' = [handles EXCEPT ![n] = h] /\ write_object(h, next, TRUE)
          /\ handles[n] # Missing
      BY <1>2, <2>1, <2>2, Zenon DEF Write
    <2>4. h.oid = handles[n].oid /\ h.fid = handles[n].fid /\ h.fid \in Files
      <3>1. handles[n] \in OpenHandle
        BY <1>0, <2>3 DEF StorageTypes
      <3> QED BY <2>1, <3>1 DEF OpenHandle, Files
    <2>5. PICK file : Wrote(h, next, TRUE, file)
      BY <1>0, <2>3, ObjectWrites, Zenon
    <2>6. obj' = [obj EXCEPT ![h.fid] = file] /\ dir' = dir /\ call' = next /\ calm
      BY <2>5 DEF Wrote
    <2>7. call'.op = "write" /\ call'.h = h
      BY <2>2, <2>6
    <2>8. ASSUME NEW f \in Files, NEW p \in Oid, Uses(f, p)'
          PROVE  Uses(f, p)
      <3>1. \A k \in Slot : handles'[k] = IF k = n THEN h ELSE handles[k]
        BY <1>0, <2>3 DEF StorageTypes
      <3> QED BY <2>3, <2>4, <2>6, <2>7, <2>8, <3>1 DEF Uses, IsDir
    <2>9. OneOwner'
      BY <2>6, <2>8, OwnersShrink DEF CalmOk
    <2>10. ASSUME IsDir(dir), NEW i \in DOMAIN dir, dir[i].fid # h.fid
           PROVE  Shows(obj, dir[i])'
      <3>0. dir[i] \in Entry
        BY <1>0, <2>10, Numbered DEF StorageTypes, IsDir
      <3>1. dir[i].fid \in Files /\ Shows(obj, dir[i])
        BY <2>3, <2>6, <2>10, <3>0, Zenon DEF Entry, Files, CalmOk
      <3>2. obj'[dir[i].fid] = obj[dir[i].fid]
        BY <1>0, <2>6, <2>10, <3>1, Zenon DEF StorageTypes
      <3> QED BY <2>6, <3>1, <3>2 DEF Shows, decrypts
    <2>11. call' # Idle
      BY <2>7 DEF Idle
    <2> QED BY <2>6, <2>7, <2>9, <2>10, <2>11, Zenon DEF CalmOk, IsDir, NoDoubles
  <1> QED BY <1>1, <1>2

\* create takes a file id that nobody has.
LEMMA CreateCalm ==
    ASSUME StorageInv, CalmOk, NEW n \in Slot, NEW o \in Oid, NEW d \in Data \cup {Oversize}, Create(n, o, d)
    PROVE  CalmOk'
  <1>0. StorageTypes /\ call = Idle
    BY DEF StorageInv, Create
  <1>1. PICK r \in load_dir_full :
          IF d = Oversize \/ Listed(unwrap_or_default(r), o) THEN Refuse
          ELSE \E f \in FreshFileIds :
                 LET h == [oid |-> o, fid |-> f, ver |-> 1, data |-> d]
                 IN  /\ write_object(h, [op |-> "create", at |-> "store_dir", h |-> h, slot |-> n,
                                         entries |-> Append(ObjectIds(unwrap_or_default(r)), o)],
                                     r = dir /\ unwrap_or_default(r) = <<>>)
                     /\ UNCHANGED handles
    BY Zenon DEF Create
  <1>2. CASE d = Oversize \/ Listed(unwrap_or_default(r), o)
    <2>1. Refused
      BY <1>1, <1>2 DEF Refuse, Return, Refused
    <2> QED BY <1>0, <2>1, RefusedCalm
  <1>3. CASE ~(d = Oversize \/ Listed(unwrap_or_default(r), o))
    <2> SUFFICES ASSUME calm' PROVE CalmOk'
      BY Zenon DEF CalmOk
    <2>0. PICK entries, quiet : entries = unwrap_or_default(r) /\ quiet = (r = dir /\ entries = <<>>)
      OBVIOUS
    <2>a. PICK f \in FreshFileIds :
            LET h == [oid |-> o, fid |-> f, ver |-> 1, data |-> d]
            IN  /\ write_object(h, [op |-> "create", at |-> "store_dir", h |-> h, slot |-> n,
                                    entries |-> Append(ObjectIds(entries), o)], quiet)
                /\ handles' = handles
      BY <1>1, <1>3, <2>0, Zenon
    <2>b. PICK h : h = [oid |-> o, fid |-> f, ver |-> 1, data |-> d]
      BY Zenon
    <2>c. PICK next : next = [op |-> "create", at |-> "store_dir", h |-> h, slot |-> n,
                              entries |-> Append(ObjectIds(entries), o)]
      BY Zenon
    <2>1. write_object(h, next, quiet) /\ handles' = handles /\ h.oid = o /\ h.fid = f
      BY <2>a, <2>b, <2>c, Zenon
    <2>2. PICK file : Wrote(h, next, quiet, file)
      <3>1. quiet \in BOOLEAN
        BY <2>0
      <3> QED BY <1>0, <2>1, <3>1, ObjectWrites
    <2>3. dir' = dir /\ call' = next /\ calm /\ quiet
      BY <2>2 DEF Wrote
    <2>4. entries = <<>> /\ (IsDir(dir) => dir = <<>>)
      <3>1. r = dir /\ entries = <<>>
        BY <2>0, <2>3, Zenon
      <3> QED BY <2>0, <3>1, Reads, <1>0, Zenon DEF IsDir
    <2>5. call'.op = "create" /\ call'.h = h /\ call'.entries = <<o>>
      <3>1. ObjectIds(entries) = <<>>
        BY <2>4 DEF ObjectIds
      <3> QED BY <2>c, <2>3, <3>1
    <2>6. \A k \in Slot : handles[k] = Missing \/ handles[k].fid # f
      BY DEF FreshFileIds
    <2>7. ASSUME NEW g \in Files, NEW p \in Oid
          PROVE  Uses(g, p)' <=> (g = f /\ p = o) \/ (g # f /\ Uses(g, p))
      <3>1. ~(IsDir(dir) /\ \E i \in DOMAIN dir : TRUE)
        BY <2>4
      <3>2. call.op \notin {"create", "write"}
        BY <1>0 DEF Idle
      <3> QED BY <2>1, <2>3, <2>5, <2>6, <3>1, <3>2, Zenon DEF Uses, IsDir
    <2>8. OneOwner'
      BY <2>3, <2>7 DEF OneOwner, CalmOk
    <2>9. call' # Idle
      BY <2>5 DEF Idle
    <2> QED BY <2>1, <2>3, <2>4, <2>5, <2>8, <2>9, Zenon DEF CalmOk, IsDir, NoDoubles
  <1> QED BY <1>2, <1>3

\* delete removes the file of one object and keeps the files of the others.
LEMMA DeleteCalm ==
    ASSUME StorageInv, CalmOk, NEW o \in Oid, Delete(o)
    PROVE  CalmOk'
  <1>0. StorageTypes /\ call = Idle
    BY DEF StorageInv, Delete
  <1>n. PICK next : next = [op |-> "delete", at |-> "store_dir_full", oid |-> o, rest |-> <<>>]
    BY Zenon
  <1>1. Refused \/ RemovedFile(o, next)
    BY <1>0, <1>n, FileRemoves DEF Delete
  <1>2. CASE Refused
    BY <1>0, <1>2, RefusedCalm
  <1>3. CASE RemovedFile(o, next)
    <2> SUFFICES ASSUME calm' PROVE CalmOk'
      BY Zenon DEF CalmOk
    <2>0. PICK p, rest : p = position(dir, o) /\ rest = remove(dir, p)
      OBVIOUS
    <2>1. /\ IsDir(dir) /\ Listed(dir, o) /\ obj' = [obj EXCEPT ![dir[p].fid] = Missing]
          /\ call' = [next EXCEPT !.rest = rest] /\ dir' = dir /\ handles' = handles /\ calm
      BY <1>3, <2>0 DEF RemovedFile
    <2>2. call'.op = "delete" /\ call'.rest = rest
      BY <1>n, <2>1
    <2>3. dir \in Seq(Entry) /\ NoDoubles(dir) /\ OneOwner /\ \A i \in DOMAIN dir : Shows(obj, dir[i])
      BY <1>0, <2>1 DEF CalmOk, StorageTypes, IsDir
    <2>4. p \in DOMAIN dir /\ dir[p].oid = o
      BY <2>0, <2>1, <2>3, PositionFinds
    <2>5. Len(dir) \in Nat /\ DOMAIN dir = 1..Len(dir) /\ \A i \in DOMAIN dir : dir[i] \in Entry
      BY <2>3, Numbered
    <2>6. /\ DOMAIN rest = 1..(Len(dir) - 1)
          /\ \A i \in DOMAIN rest : rest[i] = IF i < p THEN dir[i] ELSE dir[i + 1]
      BY <2>0, <2>3, <2>4, Removed, Zenon
    <2> DEFINE at(i) == IF i < p THEN i ELSE i + 1
    <2>7. /\ \A i \in DOMAIN rest : at(i) \in DOMAIN dir /\ at(i) # p /\ rest[i] = dir[at(i)]
          /\ \A i, j \in DOMAIN rest : at(i) = at(j) => i = j
      BY <2>4, <2>5, <2>6
    <2> HIDE DEF at
    <2>8. NoDoubles(rest)
      BY <2>3, <2>7 DEF NoDoubles
    <2>9. ASSUME NEW i \in DOMAIN rest
          PROVE  Shows(obj', rest[i])
      <3>1. PICK k \in DOMAIN dir : k # p /\ rest[i] = dir[k]
        BY <2>7
      <3>2. dir[k] \in Entry /\ dir[p] \in Entry
        BY <2>4, <2>5
      <3>3. dir[k].fid \in Files /\ dir[k].oid \in Oid /\ dir[p].fid \in Files
        BY <3>2 DEF Entry, Files
      <3>4. dir[k].oid # dir[p].oid
        BY <2>3, <2>4, <3>1 DEF NoDoubles
      <3>5. Uses(dir[k].fid, dir[k].oid) /\ Uses(dir[p].fid, dir[p].oid)
        BY <2>1, <2>4 DEF Uses
      <3>6. dir[k].fid # dir[p].fid
        BY <2>3, <2>4, <3>3, <3>4, <3>5 DEF OneOwner
      <3>7. obj'[dir[k].fid] = obj[dir[k].fid]
        BY <1>0, <2>1, <3>3, <3>6 DEF StorageTypes
      <3> QED BY <2>3, <3>1, <3>7 DEF Shows
    <2>10. OneOwner'
      BY <2>1, <2>2, <2>3, OwnersShrink DEF Uses, IsDir
    <2>11. call' # Idle
      BY <2>2 DEF Idle
    <2>12. \A i \in DOMAIN call'.rest : Shows(obj, call.rest[i])'
      BY <2>2, <2>9 DEF Shows, decrypts
    <2>13. NoDoubles(call'.rest)
      BY <2>2, <2>8
    <2> QED BY <2>1, <2>2, <2>3, <2>10, <2>11, <2>12, <2>13, Zenon DEF CalmOk, IsDir, NoDoubles
  <1> QED BY <1>1, <1>2, <1>3

\* A good directory is written at the end of a calm call.
LEMMA EndCalm ==
    ASSUME CalmOk, calm, call' = Idle, obj' = obj, dir' \in Seq(Entry), NoDoubles(dir'),
           \A i \in DOMAIN dir' : Shows(obj, dir'[i]),
           \A f \in Files, o \in Oid : Uses(f, o)' => Uses(f, o)
    PROVE  CalmOk'
  <1>1. OneOwner'
    BY OwnersShrink, Zenon DEF CalmOk
  <1>2. dir' # Torn
    BY FileAssumption
  <1>3. call'.op = "idle"
    BY DEF Idle
  <1> QED BY <1>1, <1>2, <1>3, Zenon DEF CalmOk, NoDoubles, Shows, decrypts, IsDir

\* The second part of delete.
LEMMA DeleteStoreDirCalm ==
    ASSUME StorageInv, CalmOk, DeleteStoreDir
    PROVE  CalmOk'
  <1> SUFFICES ASSUME calm' PROVE CalmOk'
    BY Zenon DEF CalmOk
  <1>0. StorageTypes
    BY DEF StorageInv
  <1>r. PICK rest : rest = call.rest
    OBVIOUS
  <1>1. call.op = "delete" /\ rest \in Seq(Entry)
    BY <1>0, <1>r DEF DeleteStoreDir, StorageTypes, Calls, Idle
  <1>2. dir' = rest /\ obj' = obj /\ calm /\ call' = Idle /\ handles' = handles
    BY <1>0, <1>r, DeleteStores DEF WroteDir
  <1>3. NoDoubles(rest) /\ \A i \in DOMAIN rest : Shows(obj, rest[i])
    BY <1>r, <1>1, <1>2 DEF CalmOk
  <1>4. IsDir(dir) /\ Part(rest, dir)
    BY <1>r, <1>1 DEF StorageInv, CallOk
  <1>5. ASSUME NEW f \in Files, NEW o \in Oid, Uses(f, o)'
        PROVE  Uses(f, o)
    BY <1>2, <1>4, <1>5 DEF Uses, Part, Idle
  <1> QED BY <1>1, <1>2, <1>3, <1>5, EndCalm

\* The second part of create: the object is the only one.
LEMMA CreateStoreDirCalm ==
    ASSUME StorageInv, CalmOk, CreateStoreDir
    PROVE  CalmOk'
  <1> SUFFICES ASSUME calm' PROVE CalmOk'
    BY Zenon DEF CalmOk
  <1>0. StorageTypes
    BY DEF StorageInv
  <1>h. PICK h : h = call.h
    OBVIOUS
  <1>p. call.op = "create" /\ h \in OpenHandle
    BY <1>0, <1>h DEF CreateStoreDir, StorageTypes, Calls, Idle
  <1>1. PICK r \in load_dir_full :
          /\ WroteDir(store_dir(call.entries, r, h), r = dir, [may EXCEPT ![h.oid] = {h.data}])
          /\ call' = Idle /\ handles' \in {handles, [handles EXCEPT ![call.slot] = h]}
    BY <1>0, <1>h, CreateStores
  <1>2. dir' = store_dir(call.entries, r, h) /\ obj' = obj /\ calm /\ r = dir
    BY <1>1 DEF WroteDir
  <1>3. call.entries = <<h.oid>> /\ (IsDir(dir) => dir = <<>>)
    BY <1>h, <1>p, <1>2 DEF CalmOk
  <1>4. h.oid \in Oid /\ h.fid \in Files /\ ObjectOf(h) \in Blob
    BY <1>p, HandleParts
  <1>5. Stored(dir', <<h.oid>>, <<>>, h)
    <2>1. <<>> \in Seq(Entry) /\ <<h.oid>> \in Seq(Oid) /\ <<h.oid>> # <<>>
      BY <1>4, EmptySeq
    <2>2. r = <<>> \/ r = Missing
      BY <1>0, <1>1, <1>3, Reads
    <2>3. Missing # <<>>
      BY <2>1, FileAssumption
    <2>4. r = <<>> \/ (r = Missing /\ <<>> = <<>>)
      BY <2>2
    <2>5. r = <<>> => r # Missing
      BY <2>3
    <2> QED BY <1>p, <1>2, <1>3, <2>1, <2>4, <2>5, StoreDirIs
  <1>6. /\ dir' \in Seq(Entry) /\ DOMAIN dir' = {1}
        /\ dir'[1].oid = h.oid /\ dir'[1].fid = h.fid /\ dir'[1].ver = h.ver
    <2>1. DOMAIN <<h.oid>> = {1} /\ <<h.oid>>[1] = h.oid
      OBVIOUS
    <2> QED BY <1>5, <2>1 DEF Stored
  <1>7. NoDoubles(dir')
    BY <1>6 DEF NoDoubles
  <1>8. \A i \in DOMAIN dir' : Shows(obj, dir'[i])
    <2>1. obj[h.fid] = ObjectOf(h) /\ obj[h.fid] \notin {Missing, Torn}
      BY <1>h, <1>p, <1>4, FileAssumption DEF StorageInv, CallOk
    <2> QED BY <1>6, <2>1 DEF Shows, decrypts, ObjectOf
  <1>9. ASSUME NEW f \in Files, NEW o \in Oid, Uses(f, o)'
        PROVE  Uses(f, o)
    <2>1. Uses(h.fid, h.oid)
      BY <1>h, <1>p DEF Uses
    <2>2. \A k \in Slot : handles'[k] = h \/ handles'[k] = handles[k]
      BY <1>0, <1>1 DEF StorageTypes
    <2> QED BY <1>1, <1>6, <1>9, <2>1, <2>2, SMTT(40) DEF Uses, Idle
  <1> QED BY <1>1, <1>2, <1>6, <1>7, <1>8, <1>9, EndCalm, Zenon

\* The second part of write: no other object has the file.
LEMMA UpsertDirCalm ==
    ASSUME StorageInv, CalmOk, UpsertDir
    PROVE  CalmOk'
  <1> SUFFICES ASSUME calm' PROVE CalmOk'
    BY DEF CalmOk
  <1>0. StorageTypes
    BY DEF StorageInv
  <1>h. PICK h : h = call.h
    OBVIOUS
  <1>p. call.op = "write" /\ h \in OpenHandle
    BY <1>0, <1>h DEF UpsertDir, StorageTypes, Calls, Idle
  <1>1. PICK r \in load_dir_full :
          /\ WroteDir(upsert_dir(unwrap_or_default(r), h), r = dir, [may EXCEPT ![h.oid] = {h.data}])
          /\ call' = Idle /\ handles' = handles
    BY <1>0, <1>h, UpsertStores
  <1>d. PICK d : d = unwrap_or_default(r)
    OBVIOUS
  <1>2. dir' = upsert_dir(d, h) /\ obj' = obj /\ calm /\ r = dir
    BY <1>1, <1>d DEF WroteDir
  <1>3. d \in Seq(Entry) /\ (d = <<>> \/ (d = dir /\ IsDir(dir)))
    BY <1>0, <1>1, <1>d, Reads
  <1>4. h.oid \in Oid /\ h.fid \in Files /\ ObjectOf(h) \in Blob
    BY <1>p, HandleParts
  <1>5. dir' \in Seq(Entry)
    BY <1>p, <1>2, <1>3, UpsertIs
  <1>6. PICK p : Upserted(dir', d, h, p)
    BY <1>p, <1>2, <1>3, UpsertIs
  <1>7. /\ p \in DOMAIN dir' /\ DOMAIN dir' = DOMAIN d \cup {p}
        /\ dir'[p].oid = h.oid /\ dir'[p].fid = h.fid /\ dir'[p].ver = h.ver
        /\ \A i \in DOMAIN d \ {p} : dir'[i] = d[i]
        /\ p \notin DOMAIN d => \A i \in DOMAIN d : d[i].oid # h.oid
        /\ p \in DOMAIN d => d[p].oid = h.oid
    BY <1>6 DEF Upserted
  <1>8. NoDoubles(d) /\ OneOwner /\ \A i \in DOMAIN d : d[i].fid # h.fid => Shows(obj, d[i])
    BY <1>h, <1>p, <1>2, <1>3, SMTT(40) DEF CalmOk, NoDoubles
  <1>9. \A i \in DOMAIN d \ {p} : d[i].oid # h.oid
    BY <1>7, <1>8 DEF NoDoubles
  <1>10. NoDoubles(dir')
    <2> SUFFICES ASSUME NEW i \in DOMAIN dir', NEW j \in DOMAIN dir', dir'[i].oid = dir'[j].oid
                 PROVE  i = j
      BY DEF NoDoubles
    <2>1. CASE i # p /\ j # p
      BY <1>7, <1>8, <2>1 DEF NoDoubles
    <2>2. CASE i = p \/ j = p
      BY <1>7, <1>9, <2>2
    <2> QED BY <2>1, <2>2
  <1>11. ASSUME NEW i \in DOMAIN d
         PROVE  IsDir(dir) /\ d = dir /\ Uses(d[i].fid, d[i].oid)
    BY <1>3 DEF Uses
  <1>u. Uses(h.fid, h.oid)
    BY <1>h, <1>p DEF Uses
  <1>12. ASSUME NEW i \in DOMAIN dir'
         PROVE  Shows(obj, dir'[i])
    <2>1. CASE i = p
      <3>1. obj[h.fid] = ObjectOf(h) /\ obj[h.fid] \notin {Missing, Torn}
        BY <1>h, <1>p, <1>4, FileAssumption DEF StorageInv, CallOk
      <3> QED BY <1>7, <2>1, <3>1 DEF Shows, decrypts, ObjectOf
    <2>2. CASE i # p
      <3>1. i \in DOMAIN d /\ dir'[i] = d[i] /\ d[i].oid # h.oid
        BY <1>7, <1>9, <2>2
      <3>2. d[i] \in Entry
        BY <1>3, <3>1, Numbered
      <3>3. d[i].fid \in Files /\ d[i].oid \in Oid
        BY <3>2 DEF Entry, Files
      <3>4. Uses(d[i].fid, d[i].oid)
        BY <1>11, <3>1
      <3>5. d[i].fid # h.fid
        BY <1>4, <1>8, <1>u, <3>1, <3>3, <3>4 DEF OneOwner
      <3> QED BY <1>8, <3>1, <3>5
    <2> QED BY <2>1, <2>2
  <1>13. ASSUME NEW f \in Files, NEW o \in Oid, Uses(f, o)'
         PROVE  Uses(f, o)
    <2>1. CASE \E i \in DOMAIN dir' : dir'[i].fid = f /\ dir'[i].oid = o
      <3>1. PICK i \in DOMAIN dir' : dir'[i].fid = f /\ dir'[i].oid = o
        BY <2>1
      <3>2. CASE i = p
        BY <1>7, <1>u, <3>1, <3>2
      <3>3. CASE i # p
        BY <1>7, <1>11, <3>1, <3>3
      <3> QED BY <3>2, <3>3
    <2>2. CASE ~\E i \in DOMAIN dir' : dir'[i].fid = f /\ dir'[i].oid = o
      BY <1>1, <1>13, <2>2 DEF Uses, Idle
    <2> QED BY <2>1, <2>2
  <1> QED BY <1>1, <1>2, <1>5, <1>10, <1>12, <1>13, EndCalm

\* rename ends the calm, and a restart keeps it only between calls.
LEMMA RenameCalm ==
    ASSUME StorageInv, CalmOk, NEW old \in Oid, NEW new \in Oid, Rename(old, new)
    PROVE  CalmOk'
  <1>0. StorageTypes /\ call = Idle
    BY DEF StorageInv, Rename
  <1>1. CASE Refuse
    <2>1. Refused
      BY <1>1 DEF Refuse, Return, Refused
    <2> QED BY <1>0, <2>1, RefusedCalm
  <1>2. CASE ~Refuse
    <2>1. PICK h, next : write_object(h, next, FALSE)
      BY <1>2 DEF Rename
    <2>2. PICK file : Wrote(h, next, FALSE, file)
      BY <1>0, <2>1, ObjectWrites
    <2>3. ~calm'
      BY <2>2 DEF Wrote
    <2> QED BY <2>3 DEF CalmOk
  <1> QED BY <1>1, <1>2

\* A restart.
LEMMA RestartCalm ==
    ASSUME StorageInv, CalmOk, Restart
    PROVE  CalmOk'
  <1> SUFFICES ASSUME calm' PROVE CalmOk'
    BY DEF CalmOk
  <1>1. calm /\ call = Idle /\ call' = Idle /\ dir' = dir /\ obj' = obj /\ \A n \in Slot : handles'[n] = Missing
    BY DEF Restart, StorageInv, StorageTypes
  <1>2. OneOwner'
    BY <1>1, OwnersShrink DEF CalmOk, Uses, IsDir
  <1> QED BY <1>1, <1>2 DEF CalmOk, IsDir, NoDoubles, Shows, decrypts, Idle

\* The calm invariant, with the other, holds in every state.
LEMMA CalmHolds == Spec => [](StorageInv /\ CalmOk)
  <1>1. Init => CalmOk
    <2> SUFFICES ASSUME Init PROVE CalmOk
      OBVIOUS
    <2>1. dir = Missing /\ call.op = "idle" /\ \A n \in Slot : handles[n] = Missing
      BY DEF Init, Idle
    <2>2. Missing # Torn
      BY FileAssumption
    <2>3. ~IsDir(dir)
      BY <2>1 DEF IsDir
    <2>4. OneOwner
      BY <2>1, <2>3 DEF OneOwner, Uses
    <2> QED BY <2>1, <2>2, <2>3, <2>4 DEF CalmOk
  <1>2. StorageInv /\ CalmOk /\ [Next]_vars => CalmOk'
    <2> SUFFICES ASSUME StorageInv, CalmOk, [Next]_vars PROVE CalmOk'
      OBVIOUS
    <2>1. CASE RenameDelete \/ RenameStoreDeleted \/ RenameStoreDir
      <3>1. StorageTypes
        BY DEF StorageInv
      <3>2. ~calm /\ calm \in BOOLEAN
        BY <2>1, <3>1 DEF CalmOk, RenameDelete, RenameStoreDeleted, RenameStoreDir, StorageTypes
      <3>3. ~calm'
        <4>1. CASE RenameDelete
          <5>1. PICK o, next : remove_file(o, next)
            BY <4>1 DEF RenameDelete
          <5>2. Refused \/ RemovedFile(o, next)
            BY <3>1, <5>1, FileRemoves
          <5> QED BY <3>2, <5>2 DEF Refused, RemovedFile
        <4>2. CASE RenameStoreDeleted
          BY <3>1, <4>2, RenameDeletes DEF WroteDir
        <4>3. CASE RenameStoreDir
          BY <3>1, <4>3, RenameStores DEF WroteDir
        <4> QED BY <2>1, <4>1, <4>2, <4>3
      <3> QED BY <3>3 DEF CalmOk
    <2>2. CASE Next /\ ~(RenameDelete \/ RenameStoreDeleted \/ RenameStoreDir)
      BY <2>2, CreateCalm, OpenCalm, WriteCalm, DeleteCalm, RenameCalm, CreateStoreDirCalm, UpsertDirCalm,
         DeleteStoreDirCalm, RestartCalm DEF Next
    <2>3. CASE UNCHANGED vars
      <3>1. OneOwner' <=> OneOwner
        BY <2>3, SMTT(40) DEF vars, OneOwner, Uses, IsDir
      <3> QED BY <2>3, <3>1 DEF vars, CalmOk, IsDir, NoDoubles, Shows, decrypts
    <2> QED BY <2>1, <2>2, <2>3
  <1> QED BY <1>1, <1>2, StorageInit, StorageInductive, PTL DEF Spec

\* As long as no file operation of ReeFs failed, nothing was renamed and no object was
\* created beside another, every object that list shows can be opened.
THEOREM CalmObjectsOpen == Spec => []OnlyObjectOpens
  <1>1. StorageInv /\ CalmOk => OnlyObjectOpens
    <2> SUFFICES ASSUME StorageInv, CalmOk, call = Idle, calm, dir # Missing, NEW i \in DOMAIN dir
                 PROVE  Opens(dir, dir[i].oid)
      BY DEF OnlyObjectOpens
    <2>0. IsDir(dir) /\ dir \in Seq(Entry) /\ \A k \in DOMAIN dir : Shows(obj, dir[k])
      BY DEF CalmOk, IsDir, StorageInv, StorageTypes
    <2>1. PICK o, k : o = dir[i].oid /\ k = position(dir, o)
      OBVIOUS
    <2>2. Listed(dir, o) /\ k \in DOMAIN dir /\ dir[k].oid = o
      BY <2>0, <2>1, PositionFinds
    <2>3. decrypts(o, dir[k].ver, obj[dir[k].fid])
      BY <2>0, <2>2 DEF Shows
    <2> QED BY <2>0, <2>1, <2>2, <2>3 DEF Opens, IsDir
  <1> QED BY <1>1, CalmHolds, PTL
================================================================================
