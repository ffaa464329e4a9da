----------------------------- MODULE PacketFifo -----------------------------
(***************************************************************************)
(* What the transmit queue promises the guest's vsock loop: a bounded      *)
(* first-in first-out channel.  The packets of a handler are handed over   *)
(* one by one, in order; each leaves the channel once, unchanged.          *)
(***************************************************************************)
EXTENDS Naturals, Sequences

CONSTANT Capacity \* packets the channel holds

VARIABLES
  offer,  \* packets the handler has yet to hand over
  chan    \* packets in the channel

vars == <<offer, chan>>

Init == offer = <<>> /\ chan = <<>>

\* A new handler starts once everything of the former one was handed over.
Produce == offer = <<>> /\ UNCHANGED chan

Put ==
  /\ offer # <<>> /\ Len(chan) < Capacity
  /\ chan' = Append(chan, Head(offer))
  /\ offer' = Tail(offer)

Take ==
  /\ chan # <<>>
  /\ chan' = Tail(chan)
  /\ UNCHANGED offer

Next == Produce \/ Put \/ Take

Spec == Init /\ [][Next]_vars
============================================================================
