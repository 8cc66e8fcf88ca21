------------------------------ MODULE ByteChannel ------------------------------
(******************************************************************************)
(* What sfap::RingBuffer promises its two users: a bounded channel of bytes.  *)
(* The k-th byte handed in is identified with the number k, so "in order, no  *)
(* byte lost, none duplicated, none invented" is a statement about numbers.   *)
(******************************************************************************)
EXTENDS Naturals, Sequences

CONSTANT Capacity  \* bytes the channel holds at most

VARIABLES queue,   \* the bytes in the channel, oldest first
          sent     \* how many bytes were ever handed in

Init == queue = << >> /\ sent = 0

\* The producer hands in its next k bytes, all at once.
Send(k) ==
  /\ Len(queue) + k <= Capacity
  /\ queue' = queue \o [i \in 1..k |-> sent + i - 1]
  /\ sent' = sent + k

\* The k oldest bytes leave the channel: consumed, or dropped by clean().
Receive(k) ==
  /\ k <= Len(queue)
  /\ queue' = SubSeq(queue, k + 1, Len(queue))
  /\ UNCHANGED sent

Next == \E k \in 1..Capacity : Send(k) \/ Receive(k)

Spec == Init /\ [][Next]_<<queue, sent>>
================================================================================
