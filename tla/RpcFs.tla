------------------------------- MODULE RpcFs -------------------------------
(***************************************************************************)
(* How a whole file of ReeFs reaches the disk of the normal world: RpcFs   *)
(* turns each read and write into remote calls on a file descriptor, and   *)
(* the supplicant serves them.  Each call is a step.  It may fail before   *)
(* it has an effect, in the middle of one, or after it, when only the      *)
(* answer is lost; and the supplicant and the guest may restart between    *)
(* two calls.                                                              *)
(*                                                                         *)
(* The FsClient between the two is external: it passes NotFound on and     *)
(* every other failure as another error.  A read of a file that is not at  *)
(* its end returns all that was asked for.  RpcFs has one call in progress *)
(* at a time, so a descriptor is taken for the path it was opened with.    *)
(***************************************************************************)
EXTENDS Integers, Sequences, FiniteSets, FiniteSetsExt, Functions, TLC

CONSTANTS
  CHUNK,     \* bytes of a read or write
  Path,      \* paths of files
  Contents,  \* the blobs written, sequences of bytes
  NoFile,    \* there is no such file
  MaxFd,     \* bound: descriptors of one run of the supplicant
  MaxOrphans \* bound: descriptors of it that nobody will close

VARIABLES
  disk,    \* the files below the supplicant's root
  files,   \* its open descriptors, each with its path
  next_fd, \* the next descriptor
  fscall,  \* the call of RpcFs in progress
  fsret,   \* the result of the last call
  orphans  \* history: the descriptors whose close, or whose number, was lost

fsVars == <<disk, files, next_fd, fscall, fsret, orphans>>

FsIdle == [op |-> "idle"]

FsInit ==
  /\ disk = [p \in Path |-> NoFile]
  /\ files = [d \in {} |-> NoFile]
  /\ next_fd = 1
  /\ fscall = FsIdle
  /\ fsret = "ok"
  /\ orphans = 0

----------------------------------------------------------------------------
(* The supplicant *)

\* A file after set_len(n), and after data is written at off.
set_len(file, n) == [i \in 1..n |-> IF i <= Len(file) THEN file[i] ELSE 0]

write_all(file, off, data) ==
  LET end == off + Len(data)
      n == Max({Len(file), end})
  IN  [i \in 1..n |-> IF i \in off + 1 .. end THEN data[i - off] ELSE set_len(file, n)[i]]

\* An answer, with the number and the data it returns, and the state the
\* supplicant is in with it.
Answer(res, num, data, d, f, n) ==
  [res |-> res, num |-> num, data |-> data, disk |-> d, files |-> f, next_fd |-> n]

Done(num, data, d) == Answer("ok", num, data, d, files, next_fd)

Failure(e) == Answer(e, 0, <<>>, disk, files, next_fd)

\* RPC_FS_OPEN and RPC_FS_CREATE: neither empties a file that exists.
fs_open(p, create) ==
  IF disk[p] = NoFile /\ ~create THEN Failure("Io")
  ELSE Answer("ok", next_fd, <<>>, [disk EXCEPT ![p] = IF @ = NoFile THEN <<>> ELSE @],
              (next_fd :> p) @@ files, next_fd + 1)

fs_close(fd) == Answer("ok", 0, <<>>, disk, Restrict(files, DOMAIN files \ {fd}), next_fd)

fs_read(fd, off) ==
  IF fd \notin DOMAIN files THEN Failure("NotFound")
  ELSE LET file == disk[files[fd]]
           data == SubSeq(file, off + 1, Min({off + CHUNK, Len(file)}))
       IN  Done(Len(data), data, disk)

fs_write(fd, off, data) ==
  IF fd \notin DOMAIN files THEN Failure("NotFound")
  ELSE Done(Len(data), <<>>, [disk EXCEPT ![files[fd]] = write_all(@, off, data)])

fs_truncate(fd, n) ==
  IF fd \notin DOMAIN files THEN Failure("NotFound")
  ELSE Done(0, <<>>, [disk EXCEPT ![files[fd]] = set_len(@, n)])

\* The result of the removal is dropped.
fs_remove(p) == {Done(0, <<>>, [disk EXCEPT ![p] = NoFile]), Done(0, <<>>, disk)}

----------------------------------------------------------------------------
(* A remote call *)

\* What the guest may see of a call with the answers given: one of them, or a
\* failure with the effect of one of them or with none.
rpc_fs(answers) ==
  answers \cup {[a EXCEPT !.res = "Io"] : a \in answers \cup {Failure("Io")}}

\* The supplicant is in the state of the answer.
Served(a) == disk' = a.disk /\ files' = a.files /\ next_fd' = a.next_fd

\* One more descriptor is left open for ever, if orphaned.
Orphan(orphaned) ==
  /\ orphans' = orphans + IF orphaned THEN 1 ELSE 0
  /\ orphans' <= MaxOrphans

----------------------------------------------------------------------------
(* RpcFs *)

Begin(c) ==
  /\ fscall = FsIdle
  /\ fscall' = c @@ [at |-> "open", fd |-> 0, off |-> 0, res |-> "ok", out |-> <<>>, old |-> disk]
  /\ UNCHANGED <<disk, files, next_fd, fsret, orphans>>

\* ReeFs writes a file with write, and with create when that fails; write
\* creates the file itself when the error is NotFound.
FsWrite(p, data) == Begin([op |-> "write", path |-> p, data |-> data, create |-> FALSE, tries |-> 2])

FsRead(p) == Begin([op |-> "read", path |-> p, create |-> FALSE, tries |-> 0])

FsDelete(p) ==
  /\ fscall = FsIdle
  /\ \E a \in rpc_fs(fs_remove(p)) : Served(a) /\ fsret' = IF a.res = "ok" THEN "ok" ELSE "err"
  /\ UNCHANGED <<fscall, orphans>>

\* An attempt is over: return, or try again with create.
Attempted(res) ==
  IF res # "ok" /\ fscall.tries > 0
  THEN /\ fscall' = [fscall EXCEPT !.at = "open", !.create = TRUE, !.off = 0, !.res = "ok",
                                   !.tries = IF res = "NotFound" /\ ~fscall.create THEN 1 ELSE 0]
       /\ UNCHANGED fsret
  ELSE fscall' = FsIdle /\ fsret' = IF res = "ok" THEN "ok" ELSE "err"

\* with_fd: open, then the body, then close whatever the body returned.
WithFdOpen ==
  /\ fscall # FsIdle /\ fscall.at = "open"
  /\ next_fd <= MaxFd
  /\ \E a \in rpc_fs({fs_open(fscall.path, fscall.create)}) :
       /\ Served(a)
       /\ Orphan(a.res # "ok" /\ a.files # files)
       /\ IF a.res = "ok" THEN fscall' = [fscall EXCEPT !.at = "body", !.fd = a.num] /\ UNCHANGED fsret
          ELSE Attempted(a.res)

\* Faulty, for mutation: an error of the body returns at once.
BodyReturnsAtOnce(res) ==
  IF res = "ok" THEN fscall' = [fscall EXCEPT !.at = "close", !.res = res] /\ UNCHANGED fsret
  ELSE Attempted(res)

BodyReturns(res) == fscall' = [fscall EXCEPT !.at = "close", !.res = res] /\ UNCHANGED fsret

WithFdClose ==
  /\ fscall # FsIdle /\ fscall.at = "close"
  /\ \E a \in rpc_fs({fs_close(fscall.fd)}) : Served(a) /\ Orphan(fscall.fd \in DOMAIN a.files)
  /\ Attempted(fscall.res)

\* The loop of put.  A write may fail with a part of the chunk on the disk.
PutChunk ==
  /\ fscall.op = "write" /\ fscall.at = "body" /\ fscall.off < Len(fscall.data)
  /\ LET end == Min({fscall.off + CHUNK, Len(fscall.data)})
         chunk == SubSeq(fscall.data, fscall.off + 1, end)
         parts == {fs_write(fscall.fd, fscall.off, SubSeq(chunk, 1, k)) : k \in 1..Len(chunk) - 1}
     IN  \E a \in rpc_fs({fs_write(fscall.fd, fscall.off, chunk)}) \cup (rpc_fs(parts) \ parts) :
           /\ Served(a)
           /\ IF a.res = "ok" THEN fscall' = [fscall EXCEPT !.off = end] /\ UNCHANGED fsret
              ELSE BodyReturns(a.res)
  /\ UNCHANGED orphans

\* Faulty, for mutation: what is left of a longer file stays.
PutKeepsTail ==
  /\ fscall.op = "write" /\ fscall.at = "body" /\ fscall.off = Len(fscall.data)
  /\ BodyReturns("ok")
  /\ UNCHANGED <<disk, files, next_fd, orphans>>

\* The end of put.
PutTruncate ==
  /\ fscall.op = "write" /\ fscall.at = "body" /\ fscall.off = Len(fscall.data)
  /\ \E a \in rpc_fs({fs_truncate(fscall.fd, Len(fscall.data))}) : Served(a) /\ BodyReturns(a.res)
  /\ UNCHANGED orphans

\* The loop of read: a short chunk is the last.
ReadChunk ==
  /\ fscall.op = "read" /\ fscall.at = "body"
  /\ \E a \in rpc_fs({fs_read(fscall.fd, Len(fscall.out))}) :
       /\ Served(a)
       /\ IF a.res # "ok" THEN BodyReturns(a.res)
          ELSE /\ fscall' = [fscall EXCEPT !.out = @ \o a.data,
                                           !.at = IF a.num < CHUNK THEN "close" ELSE "body"]
               /\ UNCHANGED fsret
  /\ UNCHANGED orphans

----------------------------------------------------------------------------
(* Restarts *)

\* The descriptors are gone and their numbers are used again.
SupplicantRestart ==
  /\ files' = [d \in {} |-> NoFile] /\ next_fd' = 1 /\ orphans' = 0
  /\ UNCHANGED <<disk, fscall, fsret>>

\* The guest forgets the call and leaves its descriptor open.
GuestRestart ==
  /\ fscall # FsIdle
  /\ Orphan(fscall.at # "open" /\ fscall.fd \in DOMAIN files)
  /\ fscall' = FsIdle /\ fsret' = "err"
  /\ UNCHANGED <<disk, files, next_fd>>

FsNext ==
  \/ \E p \in Path, data \in Contents : FsWrite(p, data)
  \/ \E p \in Path : FsRead(p) \/ FsDelete(p)
  \/ WithFdOpen \/ PutChunk \/ PutTruncate \/ ReadChunk \/ WithFdClose
  \/ SupplicantRestart \/ GuestRestart

----------------------------------------------------------------------------
(* Properties *)

\* A whole-file call that returns Ok did all of its work in spite of the
\* failures and retries on the way: the file of a write holds the blob and
\* nothing of a longer predecessor, a read has the file to its last byte; and
\* no call, failed or not, touches another file.  Storage takes each file
\* update for one step on the strength of this.
FileCallsExact ==
  [][fscall # FsIdle /\ fscall' = FsIdle
       => /\ \A p \in Path : fscall.op = "read" \/ p # fscall.path => disk'[p] = fscall.old[p]
          /\ fsret' = "ok" /\ fscall.op = "write" => disk'[fscall.path] = fscall.data
          /\ fsret' = "ok" /\ fscall.op = "read" => disk'[fscall.path] = fscall.out]_fsVars

\* with_fd closes what it opens on every path, errors and retries included:
\* between calls the supplicant holds no descriptors but those whose close,
\* or whose number on its way to the guest, was lost.
DescriptorsClosed == fscall = FsIdle => Cardinality(DOMAIN files) <= orphans
============================================================================
