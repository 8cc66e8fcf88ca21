------------------------------- MODULE RingBuffer -------------------------------
(******************************************************************************)
(* sfap::RingBuffer (src/utils/ringbuffer.cpp) driven by one producer thread  *)
(* and one consumer thread.                                                   *)
(*                                                                            *)
(* A call is cut where the two threads can meet: at each access to head_,     *)
(* tail_ or a byte of storage.  An acquire load of the other thread's counter *)
(* returns any value between the last one this thread saw and the newest one  *)
(* stored (coherence); the release stores follow the accesses to the bytes in *)
(* program order.                                                             *)
(*                                                                            *)
(* The counters are std::size_t and wrap at WordSize.  sent and received are  *)
(* history variables that count the same bytes without wrapping: the byte     *)
(* stored in a slot is the number the producer gave it, its place in the      *)
(* producer's stream.                                                         *)
(******************************************************************************)
EXTENDS Integers, Sequences

CONSTANTS
  Capacity,        \* capacity_: bytes of storage
  WordSize,        \* 2^w, the number of values of std::size_t
  N,               \* bytes the producer has to send (bounds the model)
  PartialCommits,  \* may a client commit fewer bytes than it reserved?
  Bytewise         \* do the clients call put() and pop() too?

\* The constructor accepts powers of two only (std::has_single_bit), so the
\* capacity divides 2^w; a buffer of 2^w bytes does not fit the address space.
ASSUME SizeAssumption ==
  /\ Capacity \in Nat \ {0}
  /\ WordSize \in Nat /\ WordSize > Capacity
  /\ WordSize % Capacity = 0
  /\ N \in Nat
  /\ PartialCommits \in BOOLEAN /\ Bytewise \in BOOLEAN

VARIABLES
  head_, tail_,            \* the atomic counters
  pending_w_, pending_r_,  \* bytes prepared and not committed
  data_,                   \* the storage
  ppc, wview, wfill,       \* producer: where it is, its view, bytes written to it
  cpc, rview, got,         \* consumer: where it is, its view, bytes read from it
  tSeen, hSeen,            \* newest tail_ / head_ the other thread has loaded
  sent, received,          \* bytes published / released since the beginning
  base                     \* sent when the counters were last zero

shared   == <<head_, tail_, data_>>
producer == <<pending_w_, ppc, wview, wfill, tSeen>>
consumer == <<pending_r_, cpc, rview, got, hSeen>>
history  == <<sent, received, base>>
vars     == <<shared, producer, consumer, history>>

Slots == 0..(Capacity - 1)
Unwritten == -1            \* a byte the producer never wrote

-------------------------------------------------------------------------------
\* Arithmetic of std::size_t.
Add(a, b) == (a + b) % WordSize
Sub(a, b) == (a - b) % WordSize
Min(a, b) == IF a <= b THEN a ELSE b

\* The word that stands for the n-th byte of the stream.
Word(n) == (n - base) % WordSize

\* c & mask_, the storage index of a counter value.
Index(c) == c % Capacity

\* size() and free() as computed from loaded values h and t.
size(h, t) == Sub(h, t)
free(h, t) == Sub(Capacity, size(h, t))

\* Bytes a prepare call may still hand out when `room` are there and `pending`
\* of them are reserved already.
Available(room, pending) == IF room > pending THEN room - pending ELSE 0

\* Mutant: the second span starts one byte late.
SpansSecondOff(c, take) ==
  LET pos   == Index(c)
      first == Min(take, Capacity - pos)
  IN  [i \in 1..take |-> IF i <= first THEN pos + i - 1 ELSE (i - first) % Capacity]

\* Mutant: one span, not split where the storage ends.
SpansUnsplit(c, take) == [i \in 1..take |-> Index(c) + i - 1]

\* The pair of spans that covers `take` bytes from counter value c on: `first`
\* bytes up to the end of the storage, the others from its start.
Spans(c, take) ==
  LET pos   == Index(c)
      first == Min(take, Capacity - pos)
  IN  [i \in 1..take |-> IF i <= first THEN pos + i - 1 ELSE i - first - 1]

\* Values an acquire load of tail_ / head_ by the other thread may return.
TailLoads == tSeen..received
HeadLoads == hSeen..sent

-------------------------------------------------------------------------------
Init ==
  /\ head_ = 0 /\ tail_ = 0 /\ pending_w_ = 0 /\ pending_r_ = 0
  /\ data_ = [s \in Slots |-> Unwritten]
  /\ ppc = "idle" /\ wview = << >> /\ wfill = 0
  /\ cpc = "idle" /\ rview = << >> /\ got = << >>
  /\ tSeen = 0 /\ hSeen = 0
  /\ sent = 0 /\ received = 0 /\ base = 0

-------------------------------------------------------------------------------
(* The producer thread *)

\* Mutant: no test for a full buffer.
PutBeginUnchecked ==
  /\ ppc = "idle" /\ sent < N /\ Bytewise
  /\ \E t \in TailLoads : tSeen' = t /\ ppc' = "put_write"
  /\ UNCHANGED <<shared, consumer, history, pending_w_, wview, wfill>>

\* put(): the loads.  A full buffer makes it return false.
PutBegin ==
  /\ ppc = "idle" /\ sent < N /\ Bytewise
  /\ \E t \in TailLoads :
       /\ tSeen' = t
       /\ ppc' = IF free(head_, Word(t)) = 0 THEN "idle" ELSE "put_write"
  /\ UNCHANGED <<shared, consumer, history, pending_w_, wview, wfill>>

\* put(): data_[h & mask_] = c
PutWrite ==
  /\ ppc = "put_write"
  /\ data_' = [data_ EXCEPT ![Index(head_)] = sent]
  /\ ppc' = "put_store"
  /\ UNCHANGED <<head_, tail_, consumer, history, pending_w_, wview, wfill, tSeen>>

\* put(): head_.store(h + 1, release)
PutStore ==
  /\ ppc = "put_store"
  /\ head_' = Add(head_, 1)
  /\ sent' = sent + 1
  /\ ppc' = "idle"
  /\ UNCHANGED <<tail_, data_, consumer, received, base, pending_w_, wview, wfill, tSeen>>

\* prepare_write(n), appending the spans it returns to the client's view.
Reserve(n) ==
  \E t \in TailLoads :
    LET take == Min(n, Available(free(head_, Word(t)), pending_w_))
    IN  /\ tSeen' = t
        /\ pending_w_' = pending_w_ + take
        /\ wview' = wview \o Spans(head_, take)
        /\ ppc' = IF take = 0 THEN ppc ELSE "fill"
        /\ UNCHANGED <<shared, consumer, history, wfill>>

PrepareWrite(n) == ppc = "idle" /\ n <= N - sent /\ Reserve(n)

\* The client writes the next byte of its view.
FillByte ==
  /\ ppc = "fill" /\ wfill < Len(wview)
  /\ data_' = [data_ EXCEPT ![wview[wfill + 1]] = sent + wfill]
  /\ wfill' = wfill + 1
  /\ UNCHANGED <<head_, tail_, consumer, history, pending_w_, ppc, wview, tSeen>>

\* Mutant: the reservation is not given back.
CommitWriteKeepsPending(n) ==
  /\ ppc = "fill" /\ n <= wfill
  /\ PartialCommits \/ n = Len(wview)
  /\ LET can == Min(n, pending_w_)
     IN  head_' = Add(can, head_) /\ sent' = sent + can
  /\ ppc' = "idle" /\ wview' = << >> /\ wfill' = 0
  /\ UNCHANGED <<tail_, data_, consumer, pending_w_, tSeen, received, base>>

\* Mutant: everything reserved is published, not the n bytes written.
CommitWriteAll(n) ==
  /\ ppc = "fill" /\ n <= wfill
  /\ PartialCommits \/ n = Len(wview)
  /\ head_' = Add(pending_w_, head_) /\ sent' = sent + pending_w_ /\ pending_w_' = 0
  /\ ppc' = "idle" /\ wview' = << >> /\ wfill' = 0
  /\ UNCHANGED <<tail_, data_, consumer, tSeen, received, base>>

\* commit_write(n), n the number of bytes the client wrote to its view (or, where
\* PartialCommits allows it, fewer); the client then forgets the view.
CommitWrite(n) ==
  /\ ppc = "fill" /\ n <= wfill
  /\ PartialCommits \/ n = Len(wview)
  /\ LET can == Min(n, pending_w_)
     IN  /\ head_' = Add(can, head_)
         /\ pending_w_' = pending_w_ - can
         /\ sent' = sent + can
  /\ ppc' = "idle" /\ wview' = << >> /\ wfill' = 0
  /\ UNCHANGED <<tail_, data_, consumer, tSeen, received, base>>

-------------------------------------------------------------------------------
(* The consumer thread *)

\* Mutant: no test for an empty buffer.
PopBeginUnchecked ==
  /\ cpc = "idle" /\ Bytewise
  /\ \E h \in HeadLoads : hSeen' = h /\ cpc' = "pop_read"
  /\ UNCHANGED <<shared, producer, history, pending_r_, rview, got>>

\* pop(): the loads.  An empty buffer makes it return false.
PopBegin ==
  /\ cpc = "idle" /\ Bytewise
  /\ \E h \in HeadLoads :
       /\ hSeen' = h
       /\ cpc' = IF size(Word(h), tail_) = 0 THEN "idle" ELSE "pop_read"
  /\ UNCHANGED <<shared, producer, history, pending_r_, rview, got>>

\* pop(): c = data_[t & mask_]
PopRead ==
  /\ cpc = "pop_read"
  /\ got' = << data_[Index(tail_)] >>
  /\ cpc' = "pop_store"
  /\ UNCHANGED <<shared, producer, history, pending_r_, rview, hSeen>>

\* pop(): tail_.store(t + 1, release)
PopStore ==
  /\ cpc = "pop_store"
  /\ tail_' = Add(tail_, 1)
  /\ received' = received + 1
  /\ cpc' = "idle" /\ got' = << >>
  /\ UNCHANGED <<head_, data_, producer, sent, base, pending_r_, rview, hSeen>>

\* prepare_read(n), appending the spans it returns to the client's view.
ReserveRead(n) ==
  \E h \in HeadLoads :
    LET take == Min(n, Available(size(Word(h), tail_), pending_r_))
    IN  /\ hSeen' = h
        /\ pending_r_' = pending_r_ + take
        /\ rview' = rview \o Spans(tail_, take)
        /\ cpc' = IF take = 0 THEN cpc ELSE "drain"
        /\ UNCHANGED <<shared, producer, history, got>>

PrepareRead(n) == cpc = "idle" /\ ReserveRead(n)

\* The client reads the next byte of its view.
DrainByte ==
  /\ cpc = "drain" /\ Len(got) < Len(rview)
  /\ got' = Append(got, data_[rview[Len(got) + 1]])
  /\ UNCHANGED <<shared, producer, history, pending_r_, cpc, rview, hSeen>>

\* commit_read(n), n the number of bytes the client consumed.
CommitRead(n) ==
  /\ cpc = "drain" /\ n <= Len(got)
  /\ PartialCommits \/ n = Len(rview)
  /\ LET can == Min(n, pending_r_)
     IN  /\ tail_' = Add(tail_, can)
         /\ pending_r_' = pending_r_ - can
         /\ received' = received + can
  /\ cpc' = "idle" /\ rview' = << >> /\ got' = << >>
  /\ UNCHANGED <<head_, data_, producer, hSeen, sent, base>>

-------------------------------------------------------------------------------
\* clean(), called while neither thread is using the buffer, as its \warning asks.
Clean ==
  /\ ppc = "idle" /\ cpc = "idle"
  /\ head_' = 0 /\ tail_' = 0 /\ pending_w_' = 0 /\ pending_r_' = 0
  /\ base' = sent /\ received' = sent /\ tSeen' = sent /\ hSeen' = sent
  /\ UNCHANGED <<data_, ppc, wview, wfill, cpc, rview, got, sent>>

ProducerStep ==
  \/ PutBegin \/ PutWrite \/ PutStore \/ FillByte
  \/ \E n \in 1..Capacity : PrepareWrite(n)
  \/ \E n \in 0..Capacity : CommitWrite(n)

ConsumerStep ==
  \/ PopBegin \/ PopRead \/ PopStore \/ DrainByte
  \/ \E n \in 1..Capacity : PrepareRead(n)
  \/ \E n \in 0..Capacity : CommitRead(n)

Next == ProducerStep \/ ConsumerStep \/ Clean

Spec == Init /\ [][Next]_vars

-------------------------------------------------------------------------------
(* What the buffer guarantees *)

TypeOK ==
  /\ head_ \in 0..(WordSize - 1) /\ tail_ \in 0..(WordSize - 1)
  /\ pending_w_ \in Nat /\ pending_r_ \in Nat
  /\ data_ \in [Slots -> Nat \cup {Unwritten}]
  /\ ppc \in {"idle", "put_write", "put_store", "fill"}
  /\ cpc \in {"idle", "pop_read", "pop_store", "drain"}
  /\ wview \in Seq(Slots) /\ wfill \in 0..Len(wview)
  /\ rview \in Seq(Slots) /\ got \in Seq(Nat \cup {Unwritten})
  /\ tSeen \in Nat /\ hSeen \in Nat
  /\ sent \in 0..N /\ received \in Nat /\ base \in Nat

\* The slots the producer may store to, and the consumer may load from, before
\* it next synchronises with the other thread.
WriteSlots ==
  CASE ppc = "put_write" -> {Index(head_)}
    [] ppc = "fill"      -> {wview[i] : i \in 1..Len(wview)}
    [] OTHER             -> {}
ReadSlots ==
  CASE cpc = "pop_read" -> {Index(tail_)}
    [] cpc = "drain"    -> {rview[i] : i \in 1..Len(rview)}
    [] OTHER            -> {}

\* "Safe for one producer thread and one consumer thread concurrently": no byte
\* of storage is open to the producer and to the consumer at the same time,
\* whatever stale counter values put, pop and the prepare calls worked from.
NoDataRace == WriteSlots \cap ReadSlots = {}

\* Bytes come out in the order they went in, none lost, duplicated or read before
\* it was written: the i-th byte of the call in progress is number received + i - 1.
InOrder == \A i \in 1..Len(got) : got[i] = received + i - 1

\* No counter value a thread may load makes size() wrap below zero or free()
\* promise room (size() promise bytes) that is not there.
SizesAreSafe ==
  /\ \A t \in TailLoads : size(head_, Word(t)) <= Capacity
                          /\ free(head_, Word(t)) <= Capacity - (sent - received)
  /\ \A h \in HeadLoads : size(Word(h), tail_) <= sent - received

\* free() is "Number of free bytes available for writing": a producer that holds
\* no reservation is given room by prepare_write whenever free() reports some.
FreeIsWritable ==
  ppc = "idle" /\ free(head_, tail_) > 0 => Available(free(head_, tail_), pending_w_) > 0

\* The bytes in the buffer, oldest first: the slots from tail_ up to head_.
contents == [i \in 1..size(head_, tail_) |-> data_[Index(Add(tail_, i - 1))]]

Channel == INSTANCE ByteChannel WITH queue <- contents

\* The buffer implements the bounded channel: commits append exactly the
\* producer's next bytes, and no store disturbs a byte that is still queued.
ImplementsChannel == Channel!Spec

-------------------------------------------------------------------------------
(* Progress.  Both threads keep running, and keep calling as long as they have  *)
(* something to do; a value stored to a counter becomes visible to the other    *)
(* thread in finite time, so a call that can succeed eventually does.           *)

Fairness ==
  /\ WF_vars(PutWrite) /\ WF_vars(PutStore) /\ WF_vars(FillByte)
  /\ WF_vars(CommitWrite(Len(wview)))
  /\ WF_vars((PutBegin \/ \E n \in 1..Capacity : PrepareWrite(n)) /\ ppc' # "idle")
  /\ WF_vars(PopRead) /\ WF_vars(PopStore) /\ WF_vars(DrainByte)
  /\ WF_vars(CommitRead(Len(rview)))
  /\ WF_vars((PopBegin \/ \E n \in 1..Capacity : PrepareRead(n)) /\ cpc' # "idle")

FairSpec == Spec /\ Fairness

\* Neither thread starves the other: the producer gets all of its N bytes through.
AllDelivered == <>(received = N)

================================================================================
