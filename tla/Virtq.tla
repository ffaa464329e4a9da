------------------------------- MODULE Virtq -------------------------------
(***************************************************************************)
(* The split virtqueue of guest/rustee-guest/src/virtio.rs, as operations  *)
(* on a record: the guest's vsock driver has one queue to receive and one  *)
(* to send.  Ring indices are free-running and wrap; a slot is the index   *)
(* modulo the queue size.  A descriptor is what its buffer holds.          *)
(*                                                                         *)
(* The device side is external: it takes the available entries in order,   *)
(* and it may read or write a buffer until it publishes it as used, which  *)
(* is when the model lets it do so.                                        *)
(***************************************************************************)
EXTENDS Naturals, Sequences

CONSTANTS
  QSIZE,  \* descriptors of a queue, 16 in the code
  Wrap    \* values of a ring index, 65536 in the code

ASSUME RingAssumption ==
  QSIZE \in Nat \ {0} /\ Wrap \in Nat /\ Wrap > QSIZE /\ Wrap % QSIZE = 0

Desc == 0..(QSIZE - 1)

\* What the buffer of a descriptor holds before it is ever used.
Empty == [op |-> "none"]

setup_queue ==
  [desc |-> [i \in Desc |-> Empty], avail_idx |-> 0, avail_ring |-> [i \in Desc |-> 0],
   used_idx |-> 0, used_ring |-> [i \in Desc |-> 0], last_used |-> 0,
   inflight |-> [i \in Desc |-> FALSE], seen |-> 0]

HasUsed(q) == q.used_idx # q.last_used

UsedId(q) == q.used_ring[q.last_used % QSIZE]

\* poll_used when there is a used entry.
poll_used(q) ==
  [q EXCEPT !.last_used = (@ + 1) % Wrap, !.inflight[UsedId(q)] = FALSE]

\* poll_used until there is none.
recycle_used(q) ==
  LET turn == (q.used_idx + Wrap - q.last_used) % Wrap
      back == {q.used_ring[((q.last_used + k) % Wrap) % QSIZE] : k \in 0..(turn - 1)}
  IN  [q EXCEPT !.last_used = q.used_idx,
                !.inflight = [i \in Desc |-> @[i] /\ i \notin back]]

\* The descriptors alloc_desc finds free; it takes the first.
FreeDesc(q) == {i \in Desc : ~recycle_used(q).inflight[i]}

alloc_desc(q) == CHOOSE i \in FreeDesc(q) : \A j \in FreeDesc(q) : i <= j

publish(q, id) ==
  [q EXCEPT !.avail_ring[q.avail_idx % QSIZE] = id, !.avail_idx = (@ + 1) % Wrap]

\* A faulty add_out_owned, for mutation: the descriptor is not marked in
\* flight and is found free again while the device still owns it.
add_out_unowned(q, pkt) ==
  LET id == alloc_desc(q)
  IN  publish([recycle_used(q) EXCEPT !.desc[id] = pkt], id)

\* add_out_owned once alloc_desc found a descriptor; before that it spins.
add_out_owned(q, pkt) ==
  LET id == alloc_desc(q)
  IN  publish([recycle_used(q) EXCEPT !.desc[id] = pkt, !.inflight[id] = TRUE], id)

\* add_in of the one receive buffer, always descriptor 0.  What it held is of
\* no use any more.
add_in(q) == publish([q EXCEPT !.desc[0] = Empty, !.inflight[0] = TRUE], 0)

----------------------------------------------------------------------------
(* The device *)

HasAvail(q) == q.seen # q.avail_idx

\* The buffer of the next available entry.
NextAvail(q) == q.avail_ring[q.seen % QSIZE]

Offered(q) == q.desc[NextAvail(q)]

device_used(q, content) ==
  [q EXCEPT !.desc[NextAvail(q)] = content,
            !.used_ring[q.used_idx % QSIZE] = NextAvail(q),
            !.used_idx = (@ + 1) % Wrap,
            !.seen = (@ + 1) % Wrap]

\* What the device has yet to take, in its order.
RingView(q) ==
  [k \in 1..((q.avail_idx + Wrap - q.seen) % Wrap) |->
     q.desc[q.avail_ring[((q.seen + k - 1) % Wrap) % QSIZE]]]
============================================================================
