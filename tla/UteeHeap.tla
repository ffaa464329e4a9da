------------------------------ MODULE UteeHeap ------------------------------
(***************************************************************************)
(* The heap of a TA, crates/rustee-utee/src/mem.rs: a bump allocator with  *)
(* a header of two words, a magic number and the size, before each block.  *)
(* free does nothing, so blocks are never used again.  Addresses are       *)
(* offsets in the buffer; the sentinel for empty blocks is the offset      *)
(* behind it, null is -1.  A TA writes to its own blocks only.             *)
(***************************************************************************)
EXTENDS Integers, Sequences, FiniteSets

CONSTANTS
  HEAP_CAP, \* bytes of the buffer, 65536 in the code
  HDR,      \* bytes of a word and of the alignment, 8 in the code
  Sizes,    \* sizes a TA asks for
  Fills     \* bytes a TA writes, not 0

ASSUME HeapAssumption == HDR \in Nat \ {0} /\ HEAP_CAP \in Nat /\ Sizes \subseteq Nat

VARIABLES
  buf,    \* the buffer
  used,   \* end of the last block
  blocks  \* history: what the TA expects in each block it holds, by address

heapVars == <<buf, used, blocks>>

\* A number; no byte a TA writes.
MAGIC == 100
Null == -1
sentinel == HEAP_CAP

\* Bytes that nobody wrote.
Clear == 0

HeapInit ==
  /\ buf = [i \in 0..(HEAP_CAP - 1) |-> Clear]
  /\ used = 0
  /\ blocks = <<>>

----------------------------------------------------------------------------
\* A faulty alignment, for mutation: downwards.
AlignDown(n) == (n \div HDR) * HDR

\* (n + 7) & !7
Align(n) == ((n + HDR - 1) \div HDR) * HDR

\* The start of the next header.
start == Align(used)

\* The address malloc returns.
malloc_at(size) ==
  IF size = 0 THEN sentinel
  ELSE IF start + 2 * HDR + size > HEAP_CAP THEN Null
  ELSE start + 2 * HDR

\* The buffer after malloc: header words, and zeros unless NO_FILL.
malloc_buf(size, fill) ==
  [i \in DOMAIN buf |->
     IF i = start THEN MAGIC
     ELSE IF i = start + HDR THEN size
     ELSE IF fill /\ i - (start + 2 * HDR) \in 0..(size - 1) THEN Clear
     ELSE buf[i]]

\* What the block of n bytes at p holds in the buffer b.
Contents(b, p, n) == [i \in 1..n |-> b[p + i - 1]]

Block(p) == p \notin {Null, sentinel}

\* size_of: the word in front of the block, if the magic is there.
size_of(p) == IF buf[p - 2 * HDR] = MAGIC THEN buf[p - HDR] ELSE 0

\* Block p with contents c comes to the TA's blocks, old goes away.
Holding(old, p, c) ==
  blocks' = [q \in (DOMAIN blocks \cup {p}) \ {old} |-> IF q = p THEN c ELSE blocks[q]]

Malloc(size, fill) ==
  LET p == malloc_at(size)
  IN  IF Block(p)
      THEN /\ buf' = malloc_buf(size, fill)
           /\ used' = start + 2 * HDR + size
           /\ Holding(Null, p, IF fill THEN [i \in 1..size |-> Clear] ELSE Contents(buf', p, size))
      ELSE UNCHANGED heapVars

\* A faulty length, for mutation: always the new size.
copied_new_size(p, size) == size

\* The bytes realloc copies from the old block.
copied(p, size) == IF size_of(p) < size THEN size_of(p) ELSE size

\* realloc of a block.  That of null or of the sentinel is malloc; on a lack
\* of room the old block stays.
Realloc(p, size) ==
  LET q == malloc_at(size)
      n == copied(p, size)
      b == malloc_buf(size, TRUE)
  IN  IF size = 0 THEN UNCHANGED <<buf, used>> /\ blocks' = [r \in DOMAIN blocks \ {p} |-> blocks[r]]
      ELSE IF q = Null THEN UNCHANGED heapVars
      ELSE /\ buf' = [i \in DOMAIN buf |-> IF i - q \in 0..(n - 1) THEN buf[p + i - q] ELSE b[i]]
           /\ used' = start + 2 * HDR + size
           /\ Holding(p, q, [i \in 1..size |-> IF i <= Len(blocks[p]) THEN blocks[p][i] ELSE Clear])

Free(p) ==
  /\ blocks' = [q \in DOMAIN blocks \ {p} |-> blocks[q]]
  /\ UNCHANGED <<buf, used>>

MemFill(p, v) ==
  /\ buf' = [i \in DOMAIN buf |-> IF i - p \in 0..(Len(blocks[p]) - 1) THEN v ELSE buf[i]]
  /\ blocks' = [blocks EXCEPT ![p] = [i \in DOMAIN @ |-> v]]
  /\ UNCHANGED used

\* mem_move of the first n bytes of p to those of q.
MemMove(p, q, n) ==
  /\ buf' = [i \in DOMAIN buf |-> IF i - q \in 0..(n - 1) THEN buf[p + i - q] ELSE buf[i]]
  /\ blocks' = [blocks EXCEPT ![q] = [i \in DOMAIN @ |-> IF i <= n THEN blocks[p][i] ELSE @[i]]]
  /\ UNCHANGED used

HeapNext ==
  \/ \E size \in Sizes, fill \in BOOLEAN : Malloc(size, fill)
  \/ \E p \in DOMAIN blocks :
       \/ \E size \in Sizes : Realloc(p, size)
       \/ Free(p)
       \/ \E v \in Fills : MemFill(p, v)
       \/ \E q \in DOMAIN blocks : Len(blocks[p]) <= Len(blocks[q]) /\ MemMove(p, q, Len(blocks[p]))

HeapSpec == HeapInit /\ [][HeapNext]_heapVars

----------------------------------------------------------------------------
(* Properties *)

\* Every block a TA holds has the bytes the TA left there: blocks lie in the
\* buffer, no allocation, header, fill or copy for one of them touches
\* another, a block that could not be enlarged is still the old one, and one
\* that was has its old bytes followed by zeros.
HeapKeepsContents ==
  \A p \in DOMAIN blocks :
    p + Len(blocks[p]) <= HEAP_CAP /\ Contents(buf, p, Len(blocks[p])) = blocks[p]
============================================================================
