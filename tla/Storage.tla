------------------------------ MODULE Storage ------------------------------
(***************************************************************************)
(* ReeFs of crates/rustee-storage: the persistent objects of one TA, kept  *)
(* as encrypted files of the normal world.  An object is a file            *)
(* obj/<file_id>; the file dir.v1 lists, for each object id, the file and  *)
(* the version it must have.  A call updates the two files one after the   *)
(* other, each by remote file operations that may fail or be cut short by  *)
(* a restart.                                                              *)
(*                                                                         *)
(* A file is its decrypted content, or Missing, or Torn when it does not   *)
(* authenticate.  The normal world does not put old files back: the        *)
(* repository says that it offers no protection against that.  A step of a *)
(* call is one file update with the reads and the local code before it;    *)
(* reads have no effect, so a crash among them is a crash before the step. *)
(* Flags and sizes of objects are left out.                                *)
(***************************************************************************)
EXTENDS Integers, Sequences, FiniteSetsExt

CONSTANTS
  Oid,        \* object ids
  FileId,     \* random file ids
  Zero,       \* the file id of sixteen zero bytes
  Data,       \* contents of an object
  Oversize,   \* contents of more than MAX_OBJECT bytes
  MaxVersion, \* bound: no object is written more often
  MaxEntries, \* bound: length of the directory
  Slot,       \* bound: places where the callers keep handles
  Faults,     \* whether file operations fail and the system restarts
  Missing,    \* there is no such file
  Torn        \* a file that does not authenticate

ASSUME BoundsAssumption == MaxVersion \in Nat \ {0} /\ MaxEntries \in Nat /\ Faults \in BOOLEAN

VARIABLES
  dir,     \* dir.v1: Missing, Torn or the sequence of entries
  obj,     \* the object files
  handles, \* the ObjectHandles of the callers, Missing where there is none
  call,    \* the call in progress, at its next file update
  ret,     \* the result of the last call
  may,     \* history: the contents an open of an object may show
  calm     \* history: no fault, no rename, never two objects so far

vars == <<dir, obj, handles, call, ret, may, calm>>

Entry == [oid : Oid, fid : FileId \cup {Zero}, ver : 1..MaxVersion]
Blob == [oid : Oid, ver : 1..MaxVersion, data : Data]
Handle == [oid : Oid, fid : FileId \cup {Zero}, ver : 1..MaxVersion, data : Data]
Idle == [op |-> "idle"]

\* No random file id is all zeros, and a readable file is neither Missing nor Torn.
ASSUME FileAssumption ==
  /\ Zero \notin FileId /\ Missing # Torn
  /\ \A x \in {Missing, Torn} : x \notin Blob /\ x \notin Seq(Entry)

\* The files, handles and calls have their types.
TypeOK ==
  /\ dir \in {Missing, Torn} \/ \A i \in DOMAIN dir : dir[i] \in Entry
  /\ \A f \in FileId \cup {Zero} : obj[f] \in {Missing, Torn} \/ obj[f] \in Blob
  /\ \A n \in Slot : handles[n] = Missing \/ handles[n] \in Handle
  /\ call.op \in {"idle", "create", "write", "delete", "rename"}
  /\ ret \in {"ok", "err"} /\ may \in [Oid -> SUBSET Data] /\ calm \in BOOLEAN

Init ==
  /\ dir = Missing
  /\ obj = [f \in FileId \cup {Zero} |-> Missing]
  /\ handles = [n \in Slot |-> Missing]
  /\ call = Idle
  /\ ret = "ok"
  /\ may = [o \in Oid |-> {}]
  /\ calm = TRUE

----------------------------------------------------------------------------
(* Files *)

\* What load_dir_full may return: the directory, or an error.
load_dir_full == IF dir \in {Missing, Torn} THEN {Missing}
                 ELSE {dir} \cup IF Faults THEN {Missing} ELSE {}

unwrap_or_default(r) == IF r = Missing THEN <<>> ELSE r

\* How a write of a whole file may end: it succeeds, or it fails and leaves
\* the old content, the new one, or a mixture.
WriteEnds(old, new) ==
  {[ok |-> TRUE, file |-> new]} \cup
  IF Faults THEN {[ok |-> FALSE, file |-> f] : f \in {old, new, Torn}} ELSE {}

position(d, o) ==
  LET found == {i \in DOMAIN d : d[i].oid = o}
  IN  IF found = {} THEN 0 ELSE Min(found)

Listed(d, o) == position(d, o) # 0

\* Faulty, for mutation: the object id inside is not compared.
decrypts_any_oid(o, ver, blob) == blob \notin {Missing, Torn} /\ blob.ver = ver

\* decrypt_object: the version is authenticated with the file, the object id
\* is compared with the one inside.
decrypts(o, ver, blob) == blob \notin {Missing, Torn} /\ blob.ver = ver /\ blob.oid = o

\* open finds o in directory d and its file is good.
Opens(d, o) ==
  /\ d \notin {Missing, Torn}
  /\ Listed(d, o)
  /\ LET e == d[position(d, o)] IN decrypts(o, e.ver, obj[e.fid])

Opened(d, o) ==
  LET e == d[position(d, o)]
  IN  [oid |-> o, fid |-> e.fid, ver |-> e.ver, data |-> obj[e.fid].data]

ObjectIds(d) == [i \in DOMAIN d |-> d[i].oid]

ObjectOf(h) == [oid |-> h.oid, ver |-> h.ver, data |-> h.data]

\* Faulty, for mutation: the default version is 0.
store_dir_ver0(ids, r, h) ==
  [i \in DOMAIN ids |-> IF i = 1 THEN [oid |-> ids[i], fid |-> h.fid, ver |-> h.ver]
                        ELSE [oid |-> ids[i], fid |-> Zero, ver |-> 0]]

\* The directory store_dir writes: its one extra pair goes to the first place
\* of the files, and an entry without a file gets the default.
store_dir(ids, r, h) ==
  LET x == [fid |-> h.fid, ver |-> h.ver]
      existing == [i \in DOMAIN unwrap_or_default(r) |-> [fid |-> r[i].fid, ver |-> r[i].ver]]
      files == IF existing = <<>> THEN <<x>> ELSE [existing EXCEPT ![1] = x]
      file(i) == IF i <= Len(files) THEN files[i] ELSE [fid |-> Zero, ver |-> 1]
  IN  [i \in DOMAIN ids |-> [oid |-> ids[i], fid |-> file(i).fid, ver |-> file(i).ver]]

\* Faulty, for mutation: an id that is not listed is not added.
upsert_dir_listed_only(d, h) ==
  IF Listed(d, h.oid) THEN [d EXCEPT ![position(d, h.oid)].ver = h.ver, ![position(d, h.oid)].fid = h.fid]
  ELSE d

\* The directory upsert_dir writes.
upsert_dir(d, h) ==
  LET e == [oid |-> h.oid, fid |-> h.fid, ver |-> h.ver]
  IN  IF Listed(d, h.oid) THEN [d EXCEPT ![position(d, h.oid)] = e] ELSE Append(d, e)

\* File ids are drawn at random: a new one differs from all in use.
FreshFileIds ==
  {f \in FileId : /\ obj[f] = Missing
                  /\ \A n \in Slot : handles[n] = Missing \/ handles[n].fid # f
                  /\ dir \in {Missing, Torn} \/ \A i \in DOMAIN dir : dir[i].fid # f}

----------------------------------------------------------------------------
(* Calls *)

Room(o) == dir \notin {Missing, Torn} => Listed(dir, o) \/ Len(dir) < MaxEntries

\* The call returns r; only a failing one returns before the last update.
Return(r) == call' = Idle /\ ret' = r

Refuse == Return("err") /\ UNCHANGED <<dir, obj, handles, may, calm>>

\* The first file update of create, write and rename.
write_object(h, next, quiet) ==
  \E w \in WriteEnds(obj[h.fid], ObjectOf(h)) :
    /\ obj' = [obj EXCEPT ![h.fid] = w.file]
    /\ may' = [may EXCEPT ![h.oid] = @ \cup {h.data}]
    /\ calm' = (calm /\ quiet /\ w.ok)
    /\ UNCHANGED dir
    /\ IF w.ok THEN call' = next /\ UNCHANGED ret ELSE Return("err")

\* create takes a directory it cannot read for an empty one.
Create(n, o, d) ==
  /\ call = Idle
  /\ Room(o)
  /\ \E r \in load_dir_full :
       LET entries == unwrap_or_default(r)
       IN  IF d = Oversize \/ Listed(entries, o) THEN Refuse
           ELSE \E f \in FreshFileIds :
                  LET h == [oid |-> o, fid |-> f, ver |-> 1, data |-> d]
                  IN  /\ write_object(h, [op |-> "create", at |-> "store_dir", h |-> h, slot |-> n,
                                          entries |-> Append(ObjectIds(entries), o)],
                                      r = dir /\ entries = <<>>)
                      /\ UNCHANGED handles

\* open leaves the handle in a place whose former handle is dropped.
Open(n, o) ==
  /\ call = Idle
  /\ \/ /\ Opens(dir, o)
        /\ handles' = [handles EXCEPT ![n] = Opened(dir, o)]
        /\ ret' = "ok"
     \/ /\ ~Opens(dir, o) \/ Faults
        /\ ret' = "err"
        /\ UNCHANGED handles
  /\ UNCHANGED <<dir, obj, call, may, calm>>

\* write and truncate change the handle before anything can fail.
Write(n, d) ==
  /\ call = Idle
  /\ handles[n] # Missing
  /\ Room(handles[n].oid)
  /\ IF d = Oversize THEN Refuse
     ELSE LET h == [handles[n] EXCEPT !.data = d, !.ver = @ + 1]
          IN  /\ h.ver <= MaxVersion
              /\ handles' = [handles EXCEPT ![n] = h]
              /\ write_object(h, [op |-> "write", at |-> "upsert_dir", h |-> h], TRUE)

\* Faulty, for mutation: the entry stays in the directory.
remove_file_keeps_entry(o, next) ==
  \E r \in load_dir_full :
    IF ~Listed(unwrap_or_default(r), o) THEN Refuse
    ELSE /\ obj' = [obj EXCEPT ![r[position(r, o)].fid] = Missing]
         /\ call' = [next EXCEPT !.rest = r]
         /\ UNCHANGED <<dir, handles, ret, may, calm>>

\* Vec::remove.
remove(d, i) == SubSeq(d, 1, i - 1) \o SubSeq(d, i + 1, Len(d))

\* delete up to the removal of the file, whose result is ignored.
remove_file(o, next) ==
  \E r \in load_dir_full :
    IF ~Listed(unwrap_or_default(r), o) THEN Refuse
    ELSE LET i == position(r, o)
         IN  \E left \in {Missing} \cup IF Faults THEN {obj[r[i].fid]} ELSE {} :
               /\ obj' = [obj EXCEPT ![r[i].fid] = left]
               /\ call' = [next EXCEPT !.rest = remove(r, i)]
               /\ calm' = (calm /\ left = Missing)
               /\ UNCHANGED <<dir, handles, ret, may>>

Delete(o) ==
  /\ call = Idle
  /\ remove_file(o, [op |-> "delete", at |-> "store_dir_full", oid |-> o, rest |-> <<>>])

\* rename opens the old id and writes the object, under the new id, to the
\* file it has; then it deletes the old id and lists the new one.
Rename(old, new) ==
  /\ call = Idle
  /\ \/ /\ Opens(dir, old)
        /\ LET h == [Opened(dir, old) EXCEPT !.oid = new, !.ver = @ + 1]
           IN  /\ h.ver <= MaxVersion
               /\ write_object(h, [op |-> "rename", at |-> "delete", h |-> h, oid |-> old, rest |-> <<>>],
                               FALSE)
               /\ UNCHANGED handles
     \/ (~Opens(dir, old) \/ Faults) /\ Refuse

RenameDelete ==
  /\ call.op = "rename" /\ call.at = "delete"
  /\ remove_file(call.oid, [call EXCEPT !.at = "store_dir_full"])

\* The write of the directory: op goes on or returns, with the history m.
store_dir_full(new, quiet, m, done) ==
  \E w \in WriteEnds(dir, new) :
    /\ dir' = w.file
    /\ calm' = (calm /\ quiet /\ w.ok)
    /\ UNCHANGED obj
    /\ IF w.ok THEN done /\ may' = m
       ELSE Return("err") /\ UNCHANGED <<handles, may>>

CreateStoreDir ==
  /\ call.op = "create"
  /\ \E r \in load_dir_full :
       store_dir_full(store_dir(call.entries, r, call.h), r = dir,
                      [may EXCEPT ![call.h.oid] = {call.h.data}],
                      Return("ok") /\ handles' = [handles EXCEPT ![call.slot] = call.h])

UpsertDir ==
  /\ call.op = "write"
  /\ \E r \in load_dir_full :
       store_dir_full(upsert_dir(unwrap_or_default(r), call.h), r = dir,
                      [may EXCEPT ![call.h.oid] = {call.h.data}],
                      Return("ok") /\ UNCHANGED handles)

DeleteStoreDir ==
  /\ call.op = "delete"
  /\ store_dir_full(call.rest, TRUE, [may EXCEPT ![call.oid] = {}],
                    Return("ok") /\ UNCHANGED handles)

RenameStoreDeleted ==
  /\ call.op = "rename" /\ call.at = "store_dir_full"
  /\ store_dir_full(call.rest, FALSE, may,
                    /\ call' = [call EXCEPT !.at = "store_dir", !.rest = <<>>]
                    /\ UNCHANGED <<handles, ret>>)

\* The directory is read twice, once for the entries and once for the files.
RenameStoreDir ==
  /\ call.op = "rename" /\ call.at = "store_dir"
  /\ \E r \in load_dir_full, s \in load_dir_full :
       store_dir_full(store_dir(Append(ObjectIds(unwrap_or_default(r)), call.h.oid), s, call.h), FALSE,
                      [may EXCEPT ![call.oid] = @ \cap IF call.oid = call.h.oid THEN {call.h.data} ELSE {}],
                      Return("ok") /\ UNCHANGED handles)

\* The guest restarts: calls and handles are gone, the files stay.
Restart ==
  /\ Faults
  /\ call' = Idle /\ ret' = "err"
  /\ handles' = [n \in Slot |-> Missing]
  /\ calm' = (calm /\ call = Idle)
  /\ UNCHANGED <<dir, obj, may>>

Next ==
  \/ \E n \in Slot, o \in Oid, d \in Data \cup {Oversize} : Create(n, o, d)
  \/ \E n \in Slot, o \in Oid : Open(n, o)
  \/ \E n \in Slot, d \in Data \cup {Oversize} : Write(n, d)
  \/ \E o \in Oid : Delete(o)
  \/ \E old \in Oid, new \in Oid : Rename(old, new)
  \/ RenameDelete
  \/ CreateStoreDir
  \/ UpsertDir
  \/ DeleteStoreDir
  \/ RenameStoreDeleted
  \/ RenameStoreDir
  \/ Restart

Spec == Init /\ [][Next]_vars

----------------------------------------------------------------------------
(* Properties *)

\* Whatever fails and whenever the system restarts, open never shows contents
\* that a later acknowledged create, write or delete of the object replaced,
\* those of an object renamed away, or those of another object:
\* decrypt_object turns every such mix-up of directory and files into an
\* error.  A rename to an id in use does not replace the object there.
NoStaleData ==
  call = Idle => \A o \in Oid : Opens(dir, o) => Opened(dir, o).data \in may[o]

\* After a write or truncate that returned Ok the object opens with the
\* contents of the handle, however the directory looked before.
AckedWriteOpens ==
  [][call.op = "write" /\ call' = Idle /\ ret' = "ok"
       => \A o \in Oid : o = call.h.oid => Opens(dir, o)' /\ Opened(dir, o)'.data = call.h.data]_vars

\* As long as no file operation failed, nothing was renamed and no object was
\* created beside another, every object that list shows can be opened: the
\* version and file in the directory are those of an existing file.
OnlyObjectOpens ==
  call = Idle /\ calm /\ dir # Missing => \A i \in DOMAIN dir : Opens(dir, dir[i].oid)

\* What the test create_list_open asserts of one object, for each: an object
\* whose create returned Ok can be opened, and so can those created before.
CreatedObjectsOpen ==
  [][call.op = "create" /\ call' = Idle /\ ret' = "ok"
       => \A o \in Oid : o = call.h.oid \/ Opens(dir, o) => Opens(dir, o)']_vars

\* An object whose rename returned Ok can be opened under its new id.
RenamedObjectOpens ==
  [][call.op = "rename" /\ call' = Idle /\ ret' = "ok"
       => \A o \in Oid : o = call.h.oid => Opens(dir, o)']_vars
============================================================================
