---------------------------- MODULE RingBufferProofs ----------------------------
(******************************************************************************)
(* The inductive invariant of RingBuffer, and what follows from it for every  *)
(* capacity, word size and number of bytes.                                   *)
(*                                                                            *)
(* The idea: positions in the stream never wrap, so the argument is about     *)
(* them.  The producer has claimed the positions sent .. sent + Claimed - 1,  *)
(* the consumer works on received .. received + Wanted - 1; what a thread saw *)
(* of the other's counter keeps the two ranges less than Capacity apart, and  *)
(* positions less than Capacity apart have different slots.                   *)
(******************************************************************************)
EXTENDS RingBuffer, NumberLemmas, SequenceTheorems

\* The slot that holds the n-th byte of the stream.
Slot(n) == (n - base) % Capacity

\* Bytes from sent on that the producer may write, and those it has written.
Claimed == IF ppc \in {"put_write", "put_store"} THEN 1 ELSE Len(wview)
Written == IF ppc = "put_store" THEN 1 ELSE wfill

\* Bytes from received on that the consumer may read.
Wanted == IF cpc \in {"pop_read", "pop_store"} THEN 1 ELSE Len(rview)

\* The words are the positions, and each thread's knowledge of the other is old
\* at worst: it understates the room and the bytes there are.
Counters ==
  /\ head_ = Word(sent) /\ tail_ = Word(received)
  /\ base <= tSeen /\ tSeen <= received /\ received <= hSeen /\ hSeen <= sent

\* The producer claims only what it knows to be free, inside its reservation.
ProducerClaims ==
  /\ sent + Claimed <= tSeen + Capacity /\ sent + Claimed <= N
  /\ Len(wview) <= pending_w_
  /\ ppc # "fill" => wview = << >>
  /\ \A i \in 1..Len(wview) : wview[i] = Slot(sent + i - 1)

\* The consumer works only on what it knows to be published.
ConsumerClaims ==
  /\ received + Wanted <= hSeen
  /\ Len(rview) <= pending_r_ /\ Len(got) <= Wanted
  /\ cpc # "drain" => rview = << >>
  /\ cpc = "pop_read" => got = << >>
  /\ \A i \in 1..Len(rview) : rview[i] = Slot(received + i - 1)

\* Every published byte, and every byte written ahead, is in its slot.
Stored == \A p \in received..(sent + Written - 1) : data_[Slot(p)] = p

\* The inductive invariant.
IInv == TypeOK /\ Counters /\ ProducerClaims /\ ConsumerClaims /\ Stored /\ InOrder

-------------------------------------------------------------------------------
(* Counters and slots *)

\* Advancing a counter by k stores the word of the position k further on.
LEMMA AddToWord ==
  ASSUME base \in Int, NEW n \in Int, NEW k \in Int
  PROVE  Add(Word(n), k) = Word(n + k) /\ Add(k, Word(n)) = Word(n + k)
<1>1. WordSize \in Nat \ {0}
  BY SizeAssumption, SMT
<1>2. n - base \in Int /\ (n - base) + k = (n + k) - base
  BY SMT
<1>3. (((n - base) % WordSize) + k) % WordSize = (((n + k) - base) % WordSize)
  <2> DEFINE M(x) == x % WordSize
  <2>1. \A x \in Int : M(M(x) + k) = M(x + k)
    BY <1>1, ModAdd
  <2> HIDE DEF M
  <2>2. M(M(n - base) + k) = M((n + k) - base)
    BY <1>2, <2>1, Zenon
  <2> QED
    BY <2>2, Zenon DEF M
<1>4. ((n - base) % WordSize) \in Int
  BY <1>1, <1>2, DivMod, SMT
<1>5. k + ((n - base) % WordSize) = ((n - base) % WordSize) + k
  BY <1>4, SMT
<1> QED
  BY <1>3, <1>5 DEF Add, Word

\* A counter's index is the slot of its position, and lies in the storage.
LEMMA IndexOfWord ==
  ASSUME base \in Int, NEW n \in Int
  PROVE  Index(Word(n)) = Slot(n) /\ Slot(n) \in Slots
<1>1. /\ WordSize \in Nat \ {0} /\ Capacity \in Nat \ {0} /\ (WordSize % Capacity) = 0
      /\ n - base \in Int
  BY SizeAssumption, SMT
<1>2. (((n - base) % WordSize) % Capacity) = ((n - base) % Capacity)
  BY <1>1, ModOfWord
<1>3. ((n - base) % Capacity) \in 0..(Capacity - 1)
  BY <1>1, DivMod
<1> QED
  BY <1>2, <1>3 DEF Index, Word, Slot, Slots

\* size() and free() of two counters are the distance of their positions and
\* what it leaves of the capacity, however often either counter has wrapped.
LEMMA SizeOfWords ==
  ASSUME base \in Int, NEW s \in Int, NEW r \in Int, 0 <= s - r, s - r <= Capacity
  PROVE  size(Word(s), Word(r)) = s - r /\ free(Word(s), Word(r)) = Capacity - (s - r)
<1>1. WordSize \in Nat \ {0} /\ Capacity \in Nat /\ Capacity < WordSize
  BY SizeAssumption, SMT
<1> DEFINE a == s - base
           b == r - base
<1>2. a \in Int /\ b \in Int /\ a - b = s - r /\ 0 <= a - b /\ a - b < WordSize
  BY <1>1, SMT
<1> HIDE DEF a, b
<1>3. ((a % WordSize) - (b % WordSize)) % WordSize = s - r
  BY <1>1, <1>2, ModDistance
<1>4. size(Word(s), Word(r)) = s - r
  BY <1>3 DEF size, Sub, Word, a, b
<1>5. Capacity - (s - r) \in 0..(WordSize - 1)
  BY <1>1, SMT
<1>6. (Capacity - (s - r)) % WordSize = Capacity - (s - r)
  BY <1>1, <1>5, ModOneTurn
<1> QED
  BY <1>4, <1>6 DEF free, Sub

\* The counters stay in the range of the word.
LEMMA WordInRange ==
  ASSUME base \in Int, NEW n \in Int
  PROVE  Word(n) \in 0..(WordSize - 1)
<1>1. WordSize \in Nat \ {0} /\ n - base \in Int
  BY SizeAssumption, SMT
<1> QED
  BY <1>1, DivMod DEF Word

\* Positions less than a capacity apart have slots of their own.
LEMMA SlotInjective ==
  ASSUME base \in Int, NEW p \in Int, NEW q \in Int,
         p - q < Capacity, q - p < Capacity, Slot(p) = Slot(q)
  PROVE  p = q
<1> DEFINE a == p - base
           b == q - base
<1>1. /\ Capacity \in Nat \ {0} /\ a \in Int /\ b \in Int
      /\ a - b < Capacity /\ b - a < Capacity
  BY SizeAssumption, SMT
<1>2. (a % Capacity) = (b % Capacity)
  BY DEF Slot
<1> HIDE DEF a, b
<1>3. a = b
  BY <1>1, <1>2, ModInjective
<1> QED
  BY <1>3, SMT DEF a, b

\* The two spans a prepare call returns are the slots of the positions that
\* follow the counter, one each: the split at the end of the storage loses none.
LEMMA SpansAreSlots ==
  ASSUME base \in Int, NEW n \in Int, NEW take \in 0..Capacity
  PROVE  Spans(Word(n), take) = [i \in 1..take |-> Slot(n + i - 1)]
<1> DEFINE pos   == Slot(n)
           first == Min(take, Capacity - pos)
<1>1. Capacity \in Nat \ {0}
  BY SizeAssumption
<1>2. pos \in 0..(Capacity - 1) /\ pos = Index(Word(n))
  BY IndexOfWord DEF Slots
<1>3. first = (IF take <= Capacity - pos THEN take ELSE Capacity - pos)
  BY DEF Min
<1>4. ASSUME NEW i \in 1..take
      PROVE  (IF i <= first THEN pos + i - 1 ELSE i - first - 1) = Slot(n + i - 1)
  <2>1. Slot(n + i - 1) = ((pos + (i - 1)) % Capacity)
    <3> DEFINE M(x) == x % Capacity
    <3>1. \A x, k \in Int : M(M(x) + k) = M(x + k)
      BY <1>1, ModAdd
    <3> HIDE DEF M
    <3>2. M(M(n - base) + (i - 1)) = M((n - base) + (i - 1))
      BY <3>1, SMT
    <3>3. (n - base) + (i - 1) = (n + i - 1) - base
      BY SMT
    <3> QED
      BY <3>2, <3>3, Zenon DEF Slot, M
  <2> HIDE DEF pos, first
  <2>2. CASE pos + (i - 1) < Capacity
    <3>1. pos + (i - 1) \in 0..(Capacity - 1)
      BY <1>1, <1>2, <2>2, SMT
    <3>2. ((pos + (i - 1)) % Capacity) = pos + (i - 1)
      BY <1>1, <3>1, ModOneTurn
    <3>3. i <= first
      BY <1>1, <1>2, <1>3, <2>2, SMT
    <3> QED
      BY <1>2, <2>1, <3>2, <3>3, SMT
  <2>3. CASE ~(pos + (i - 1) < Capacity)
    <3> DEFINE a == pos + (i - 1)
    <3>1. a \in Int /\ a \in Capacity..(Capacity + Capacity - 1)
      BY <1>1, <1>2, <2>3, SMT
    <3> HIDE DEF a
    <3>2. (a % Capacity) = a - Capacity
      BY <1>1, <3>1, ModOneTurn
    <3> USE DEF a
    <3>3. ~(i <= first) /\ first = Capacity - pos
      BY <1>1, <1>2, <1>3, <2>3, SMT
    <3> QED
      BY <1>1, <1>2, <2>1, <3>2, <3>3, SMT
  <2> QED
    BY <2>2, <2>3
<1> QED
  BY <1>2, <1>4 DEF Spans

-------------------------------------------------------------------------------
(* The invariant holds initially and every step preserves it *)

\* A new buffer satisfies the invariant.
LEMMA InitIInv == Init => IInv
<1> SUFFICES ASSUME Init PROVE IInv
  OBVIOUS
<1> USE SizeAssumption
<1>1. TypeOK
  BY DEF Init, TypeOK, Slots, Unwritten
<1>2. Word(0) = 0
  <2>1. (0 % WordSize) = 0
    BY ModOneTurn
  <2> QED
    BY <2>1 DEF Init, Word
<1>3. Counters
  BY <1>2 DEF Init, Counters
<1>4. ProducerClaims /\ ConsumerClaims
  BY DEF Init, ProducerClaims, ConsumerClaims, Claimed, Wanted
<1>5. Stored /\ InOrder
  BY DEF Init, Stored, InOrder, Written
<1> QED
  BY <1>1, <1>3, <1>4, <1>5 DEF IInv

\* What the parts of the invariant say about the positions alone.
LEMMA Positions ==
  ASSUME IInv
  PROVE  /\ base \in Nat /\ tSeen \in Nat /\ received \in Nat /\ hSeen \in Nat /\ sent \in Nat
         /\ base <= tSeen /\ tSeen <= received /\ received <= hSeen /\ hSeen <= sent
         /\ Claimed \in Nat /\ Wanted \in Nat
         /\ sent + Claimed <= tSeen + Capacity /\ received + Wanted <= hSeen
         /\ Capacity \in Nat \ {0} /\ N \in Nat
<1>1. Len(wview) \in Nat /\ Len(rview) \in Nat
  BY DEF IInv, TypeOK
<1> QED
  BY <1>1, SizeAssumption, SMT
  DEF IInv, TypeOK, Counters, ProducerClaims, ConsumerClaims, Claimed, Wanted

\* A step of the producer leaves the consumer's claims as they are ...
LEMMA ConsumerUntouched ==
  ASSUME IInv, UNCHANGED <<consumer, received, base>>
  PROVE  ConsumerClaims' /\ InOrder'
BY DEF IInv, ConsumerClaims, InOrder, Wanted, Slot, consumer

\* ... and a step of the consumer those of the producer.
LEMMA ProducerUntouched ==
  ASSUME IInv, UNCHANGED <<producer, sent, base>>
  PROVE  ProducerClaims'
BY DEF IInv, ProducerClaims, Claimed, Slot, producer

\* A step that stores no byte keeps the stored ones, if it publishes only
\* written bytes.
LEMMA StoredUntouched ==
  ASSUME IInv, UNCHANGED <<data_, base>>,
         received'..(sent' + Written' - 1) \subseteq received..(sent + Written - 1)
  PROVE  Stored'
<1>1. SUFFICES ASSUME NEW p \in received..(sent + Written - 1)
               PROVE  data_'[Slot(p)'] = p
  BY DEF Stored
<1>2. data_[Slot(p)] = p
  BY DEF IInv, Stored
<1>3. Slot(p)' = Slot(p)
  BY DEF Slot
<1> QED
  BY <1>2, <1>3

\* put(): a put that goes on has seen a free slot.
LEMMA PutBeginStep == IInv /\ PutBegin => IInv'
<1> SUFFICES ASSUME IInv, PutBegin PROVE IInv'
  OBVIOUS
<1> USE DEF PutBegin
<1>1. PICK t \in TailLoads : /\ tSeen' = t
                             /\ ppc' = IF free(head_, Word(t)) = 0 THEN "idle" ELSE "put_write"
  OBVIOUS
<1>2. t \in Nat /\ tSeen <= t /\ t <= received
  BY Positions DEF TailLoads
<1>3. free(head_, Word(t)) = Capacity - (sent - t)
  <2>1. 0 <= sent - t /\ sent - t <= Capacity
    BY <1>2, Positions, SMT
  <2> QED
    BY <1>2, <2>1, Positions, SizeOfWords DEF IInv, Counters
<1>4. UNCHANGED <<consumer, shared, history, pending_w_, wview, wfill>>
  OBVIOUS
<1>5. TypeOK'
  BY <1>1, <1>2, <1>4 DEF IInv, TypeOK, consumer, shared, history
<1>6. Counters'
  BY <1>1, <1>2, <1>4, Positions DEF IInv, Counters, consumer, shared, history, Word
<1>7. ProducerClaims'
  BY <1>1, <1>2, <1>3, <1>4, Positions DEF IInv, ProducerClaims, Claimed, Slot, history
<1>8. ConsumerClaims' /\ InOrder'
  BY <1>4, ConsumerUntouched DEF history
<1>9. Stored'
  BY <1>1, <1>4 DEF IInv, Stored, Written, Slot, shared, history
<1> QED
  BY <1>5, <1>6, <1>7, <1>8, <1>9 DEF IInv

\* put(): the byte goes to the slot of position sent, which no queued byte has.
LEMMA PutWriteStep == IInv /\ PutWrite => IInv'
<1> SUFFICES ASSUME IInv, PutWrite PROVE IInv'
  OBVIOUS
<1>0. Index(head_) = Slot(sent)
  BY Positions, IndexOfWord DEF IInv, Counters
<1>1. /\ ppc = "put_write" /\ ppc' = "put_store"
      /\ data_' = [data_ EXCEPT ![Slot(sent)] = sent]
      /\ UNCHANGED <<head_, tail_, consumer, history, pending_w_, wview, wfill, tSeen>>
  BY <1>0 DEF PutWrite
<1>2. Slot(sent) \in Slots /\ sent \in Nat
  BY Positions, IndexOfWord
<1>3. TypeOK'
  BY <1>1, <1>2 DEF IInv, TypeOK, consumer, history
<1>4. Counters'
  BY <1>1 DEF IInv, Counters, consumer, history, Word
<1>5. ProducerClaims'
  BY <1>1 DEF IInv, ProducerClaims, Claimed, Slot, history
<1>6. ConsumerClaims' /\ InOrder'
  BY <1>1, ConsumerUntouched DEF history
<1>7. Stored'
  <2>1. /\ wfill = 0 /\ Written = 0 /\ Written' = 1 /\ sent' = sent /\ received' = received
        /\ Claimed = 1
    BY <1>1 DEF IInv, TypeOK, ProducerClaims, Written, Claimed, history
  <2>2. SUFFICES ASSUME NEW p \in received..sent
                 PROVE  data_'[Slot(p)'] = p
    BY <2>1, Positions DEF Stored
  <2>3. Slot(p)' = Slot(p)
    BY <1>1 DEF Slot, history
  <2>4. CASE p = sent
    BY <1>1, <1>2, <2>3, <2>4 DEF IInv, TypeOK
  <2>5. CASE p # sent
    <3>1. /\ p \in received..(sent + Written - 1) /\ p \in Int
          /\ p - sent < Capacity /\ sent - p < Capacity
      BY <2>1, <2>5, Positions
    <3>2. data_[Slot(p)] = p
      BY <3>1 DEF IInv, Stored
    <3>3. Slot(p) # Slot(sent)
      BY <2>5, <3>1, Positions, SlotInjective
    <3>4. Slot(p) \in Slots
      BY <3>1, Positions, IndexOfWord
    <3> QED
      BY <1>1, <2>3, <3>2, <3>3, <3>4 DEF IInv, TypeOK
  <2> QED
    BY <2>4, <2>5
<1> QED
  BY <1>3, <1>4, <1>5, <1>6, <1>7 DEF IInv

\* put(): the store publishes a byte that was written before.
LEMMA PutStoreStep == IInv /\ PutStore => IInv'
<1> SUFFICES ASSUME IInv, PutStore PROVE IInv'
  OBVIOUS
<1>1. /\ ppc = "put_store" /\ ppc' = "idle"
      /\ head_' = Word(sent + 1) /\ sent' = sent + 1
      /\ UNCHANGED <<tail_, data_, consumer, received, base, pending_w_, wview, wfill, tSeen>>
  BY Positions, AddToWord DEF PutStore, IInv, Counters
<1>2. wview = << >> /\ wfill = 0 /\ Claimed = 1 /\ Written = 1 /\ Written' = 0 /\ Claimed' = 0
  BY <1>1 DEF IInv, TypeOK, ProducerClaims, Claimed, Written
<1>3. sent + 1 \in 0..N
  BY <1>2, Positions DEF IInv, ProducerClaims
<1>4. TypeOK'
  <2>1. head_' \in 0..(WordSize - 1)
    BY <1>1, Positions, WordInRange
  <2> QED
    BY <1>1, <1>3, <2>1 DEF IInv, TypeOK, consumer
<1>5. Counters'
  BY <1>1, Positions DEF IInv, Counters, consumer, Word
<1>6. ProducerClaims'
  BY <1>1, <1>2, <1>3, Positions DEF IInv, ProducerClaims
<1>7. ConsumerClaims' /\ InOrder'
  BY <1>1, ConsumerUntouched
<1>8. Stored'
  BY <1>1, <1>2, Positions, StoredUntouched
<1> QED
  BY <1>4, <1>5, <1>6, <1>7, <1>8 DEF IInv

\* prepare_write from an idle producer: the view is the slots of the next
\* positions, and all of them are known to be free.
LEMMA PrepareWriteStep ==
  ASSUME IInv, NEW n \in 1..Capacity, PrepareWrite(n)
  PROVE  IInv'
<1>1. PICK t \in TailLoads :
        LET take == Min(n, Available(free(head_, Word(t)), pending_w_))
        IN  /\ tSeen' = t
            /\ pending_w_' = pending_w_ + take
            /\ wview' = wview \o Spans(head_, take)
            /\ ppc' = IF take = 0 THEN ppc ELSE "fill"
  BY DEF PrepareWrite, Reserve
<1> DEFINE take == Min(n, Available(free(head_, Word(t)), pending_w_))
<1>2. ppc = "idle" /\ n <= N - sent /\ UNCHANGED <<shared, consumer, history, wfill>>
  BY DEF PrepareWrite, Reserve
<1>3. t \in Nat /\ tSeen <= t /\ t <= received
  BY Positions DEF TailLoads
<1>4. free(head_, Word(t)) = Capacity - (sent - t)
  <2>1. 0 <= sent - t /\ sent - t <= Capacity
    BY <1>3, Positions, SMT
  <2> QED
    BY <1>3, <2>1, Positions, SizeOfWords DEF IInv, Counters
<1>5. /\ take \in 0..Capacity /\ sent + take <= t + Capacity /\ sent + take <= N
  <2> DEFINE room == free(head_, Word(t))
  <2>1. room \in Nat /\ room = Capacity - (sent - t)
    BY <1>3, <1>4, Positions, SMT
  <2>2. pending_w_ \in Nat
    BY DEF IInv, TypeOK
  <2> HIDE DEF room
  <2>3. Available(room, pending_w_) \in 0..room
    BY <2>1, <2>2, SMT DEF Available
  <2>4. take \in 0..room /\ take <= n
    <3>1. take = Min(n, Available(room, pending_w_))
      BY DEF room
    <3> HIDE DEF take
    <3> QED
      BY <2>1, <2>3, <3>1, SMT DEF Min
  <2> HIDE DEF take
  <2> QED
    BY <1>2, <1>3, <2>1, <2>4, Positions, SMT
<1> HIDE DEF take
<1>6. /\ tSeen' = t /\ pending_w_' = pending_w_ + take
      /\ wview' = wview \o Spans(head_, take)
      /\ ppc' = IF take = 0 THEN ppc ELSE "fill"
  BY <1>1 DEF take
<1>7. wview = << >> /\ wfill = 0
  BY <1>2 DEF IInv, TypeOK, ProducerClaims
<1>8. wview' = [i \in 1..take |-> Slot(sent + i - 1)]
  <2>1. Spans(head_, take) = [i \in 1..take |-> Slot(sent + i - 1)]
    BY <1>5, Positions, SpansAreSlots DEF IInv, Counters
  <2>2. [i \in 1..take |-> Slot(sent + i - 1)] \in Seq(Slots)
    <3>1. \A i \in 1..take : Slot(sent + i - 1) \in Slots
      BY Positions, IndexOfWord
    <3> QED
      BY <1>5, <3>1
  <2> QED
    BY <1>6, <1>7, <2>1, <2>2
<1>9. wview' \in Seq(Slots) /\ Len(wview') = take
  <2>1. \A i \in 1..take : Slot(sent + i - 1) \in Slots
    BY Positions, IndexOfWord
  <2> QED
    BY <1>5, <1>8, <2>1
<1>10. TypeOK'
  BY <1>2, <1>3, <1>5, <1>6, <1>7, <1>9 DEF IInv, TypeOK, shared, consumer, history
<1>11. Counters'
  BY <1>2, <1>3, <1>6, Positions DEF IInv, Counters, Word, shared, consumer, history
<1>12. ProducerClaims'
  <2>1. take = 0 => wview' = << >>
    BY <1>8
  <2>2. \A i \in 1..Len(wview') : wview'[i] = Slot(sent + i - 1)
    BY <1>8, <1>9
  <2>3. Claimed' = take
    BY <1>2, <1>6, <1>9 DEF Claimed
  <2>4. pending_w_ \in Nat
    BY DEF IInv, TypeOK
  <2>5. \A i \in 1..Len(wview') : wview'[i] = Slot(sent + i - 1)'
    BY <1>2, <2>2 DEF Slot, history
  <2> QED
    BY <1>2, <1>5, <1>6, <1>9, <2>1, <2>3, <2>4, <2>5 DEF ProducerClaims, history
<1>13. ConsumerClaims' /\ InOrder'
  BY <1>2, ConsumerUntouched DEF history
<1>14. Stored'
  <2>1. Written' = Written /\ sent' = sent /\ received' = received
    BY <1>2, <1>6 DEF Written, history
  <2> QED
    BY <1>2, <2>1, StoredUntouched DEF shared, history
<1> QED
  BY <1>10, <1>11, <1>12, <1>13, <1>14 DEF IInv

\* The client of prepare_write writes the slot of a position it claimed, which
\* no queued byte has.
LEMMA FillByteStep == IInv /\ FillByte => IInv'
<1> SUFFICES ASSUME IInv, FillByte PROVE IInv'
  OBVIOUS
<1>1. /\ ppc = "fill" /\ wfill < Len(wview)
      /\ data_' = [data_ EXCEPT ![wview[wfill + 1]] = sent + wfill]
      /\ wfill' = wfill + 1
      /\ UNCHANGED <<head_, tail_, consumer, history, pending_w_, ppc, wview, tSeen>>
  BY DEF FillByte
<1>2. wfill \in Nat /\ Len(wview) \in Nat /\ wview \in Seq(Slots)
  BY DEF IInv, TypeOK
<1>3. /\ wview[wfill + 1] = Slot(sent + wfill)
      /\ sent + wfill < tSeen + Capacity /\ sent + wfill \in Nat
  <2>1. wfill + 1 \in 1..Len(wview) /\ sent + (wfill + 1) - 1 = sent + wfill
    BY <1>1, <1>2, Positions
  <2>2. wview[wfill + 1] = Slot(sent + (wfill + 1) - 1)
    BY <2>1 DEF IInv, ProducerClaims
  <2>3. Claimed = Len(wview)
    BY <1>1 DEF Claimed
  <2> QED
    BY <1>1, <1>2, <2>1, <2>2, <2>3, Positions
<1>4. Slot(sent + wfill) \in Slots
  BY <1>3, Positions, IndexOfWord
<1>5. TypeOK'
  BY <1>1, <1>2, <1>3, <1>4 DEF IInv, TypeOK, consumer, history
<1>6. Counters'
  BY <1>1 DEF IInv, Counters, consumer, history, Word
<1>7. ProducerClaims'
  BY <1>1 DEF IInv, ProducerClaims, Claimed, Slot, history
<1>8. ConsumerClaims' /\ InOrder'
  BY <1>1, ConsumerUntouched DEF history
<1>9. Stored'
  <2>1. /\ Written = wfill /\ Written' = wfill + 1 /\ sent' = sent /\ received' = received
    BY <1>1 DEF Written, history
  <2>2. SUFFICES ASSUME NEW p \in received..(sent + wfill)
                 PROVE  data_'[Slot(p)'] = p
    BY <1>2, <2>1, Positions DEF Stored
  <2>3. Slot(p)' = Slot(p)
    BY <1>1 DEF Slot, history
  <2>4. CASE p = sent + wfill
    BY <1>1, <1>3, <1>4, <2>3, <2>4 DEF IInv, TypeOK
  <2>5. CASE p # sent + wfill
    <3>0. /\ p \in received..(sent + wfill - 1) /\ p \in Int
          /\ p - (sent + wfill) < Capacity /\ (sent + wfill) - p < Capacity
      <4>1. p \in Int /\ received <= p /\ p < sent + wfill
        BY <1>2, <2>5, Positions, SMT
      <4>2. tSeen \in Nat /\ tSeen <= received /\ Capacity \in Nat \ {0}
        BY Positions
      <4>3. wfill \in Nat /\ sent \in Nat /\ sent + wfill < tSeen + Capacity
        BY <1>2, <1>3, Positions
      <4>4. received \in Nat
        BY Positions
      <4> QED
        BY <4>1, <4>2, <4>3, <4>4, SMT
    <3>1. /\ p \in received..(sent + Written - 1) /\ p \in Int
          /\ p - (sent + wfill) < Capacity /\ (sent + wfill) - p < Capacity
      BY <2>1, <3>0
    <3>2. data_[Slot(p)] = p
      BY <3>1 DEF IInv, Stored
    <3>3. Slot(p) # Slot(sent + wfill)
      BY <1>3, <2>5, <3>1, Positions, SlotInjective
    <3>4. Slot(p) \in Slots
      BY <3>1, Positions, IndexOfWord
    <3> QED
      BY <1>1, <1>3, <2>3, <3>2, <3>3, <3>4 DEF IInv, TypeOK
  <2> QED
    BY <2>4, <2>5
<1> QED
  BY <1>5, <1>6, <1>7, <1>8, <1>9 DEF IInv

\* commit_write: only bytes the client wrote are published.
LEMMA CommitWriteStep ==
  ASSUME IInv, NEW n \in 0..Capacity, CommitWrite(n)
  PROVE  IInv'
<1>1. Len(wview) \in Nat /\ pending_w_ \in Nat /\ wfill \in 0..Len(wview)
  BY DEF IInv, TypeOK
<1>2. /\ ppc = "fill" /\ n <= wfill /\ n <= Len(wview) /\ n <= pending_w_ /\ Claimed = Len(wview)
  BY <1>1 DEF CommitWrite, IInv, ProducerClaims, Claimed
<1>3. Min(n, pending_w_) = n
  BY <1>2 DEF Min
<1>4. /\ head_' = Word(sent + n) /\ pending_w_' = pending_w_ - n /\ sent' = sent + n
      /\ ppc' = "idle" /\ wview' = << >> /\ wfill' = 0
      /\ UNCHANGED <<tail_, data_, consumer, tSeen, received, base>>
  <2>1. Add(n, head_) = Word(sent + n)
    BY Positions, AddToWord DEF IInv, Counters
  <2> QED
    BY <1>3, <2>1 DEF CommitWrite
<1>5. sent + n \in 0..N /\ sent + n <= tSeen + Capacity
  BY <1>1, <1>2, Positions DEF IInv, ProducerClaims
<1>6. TypeOK'
  <2>1. head_' \in 0..(WordSize - 1)
    BY <1>4, Positions, WordInRange
  <2> QED
    BY <1>1, <1>2, <1>4, <1>5, <2>1 DEF IInv, TypeOK, consumer
<1>7. Counters'
  BY <1>4, Positions DEF IInv, Counters, consumer, Word
<1>8. ProducerClaims'
  <2>1. Claimed' = 0
    BY <1>4 DEF Claimed
  <2>2. sent' + Claimed' <= tSeen' + Capacity /\ sent' + Claimed' <= N
    BY <1>4, <1>5, <2>1, Positions
  <2>3. Len(wview') <= pending_w_'
    BY <1>1, <1>2, <1>4
  <2> QED
    BY <1>4, <2>2, <2>3 DEF ProducerClaims
<1>9. ConsumerClaims' /\ InOrder'
  BY <1>4, ConsumerUntouched
<1>10. Stored'
  <2>1. Written = wfill /\ Written' = 0
    BY <1>2, <1>4 DEF Written
  <2>2. received' = received /\ sent' = sent + n
    BY <1>4
  <2>3. sent \in Nat /\ received \in Nat
    BY Positions
  <2>4. received'..(sent' + Written' - 1) \subseteq received..(sent + Written - 1)
    BY <1>1, <1>2, <2>1, <2>2, <2>3, SMT
  <2> QED
    BY <1>4, <2>4, StoredUntouched
<1> QED
  BY <1>6, <1>7, <1>8, <1>9, <1>10 DEF IInv

\* pop(): a pop that goes on has seen a published byte.
LEMMA PopBeginStep == IInv /\ PopBegin => IInv'
<1> SUFFICES ASSUME IInv, PopBegin PROVE IInv'
  OBVIOUS
<1>1. PICK h \in HeadLoads : /\ hSeen' = h
                             /\ cpc' = IF size(Word(h), tail_) = 0 THEN "idle" ELSE "pop_read"
  BY DEF PopBegin
<1>2. cpc = "idle" /\ UNCHANGED <<shared, producer, history, pending_r_, rview, got>>
  BY DEF PopBegin
<1>3. h \in Nat /\ hSeen <= h /\ h <= sent
  BY Positions DEF HeadLoads
<1>4. size(Word(h), tail_) = h - received
  <2>1. 0 <= h - received /\ h - received <= Capacity
    BY <1>3, Positions, SMT
  <2> QED
    BY <1>3, <2>1, Positions, SizeOfWords DEF IInv, Counters
<1>5. rview = << >> /\ got = << >> /\ Wanted = 0
  <2>1. rview = << >> /\ Wanted = 0
    BY <1>2 DEF IInv, ConsumerClaims, Wanted
  <2>2. Len(got) <= 0 /\ got \in Seq(Nat \cup {Unwritten})
    BY <2>1 DEF IInv, ConsumerClaims, TypeOK
  <2> QED
    BY <2>1, <2>2
<1>6. TypeOK'
  BY <1>1, <1>2, <1>3 DEF IInv, TypeOK, producer, shared, history
<1>7. Counters'
  BY <1>1, <1>2, <1>3, Positions DEF IInv, Counters, producer, shared, history, Word
<1>8. ConsumerClaims' /\ InOrder'
  <2>1. received + Wanted' <= h
    BY <1>1, <1>2, <1>3, <1>4, <1>5, Positions DEF Wanted
  <2> QED
    BY <1>1, <1>2, <1>5, <2>1, Positions
    DEF IInv, TypeOK, ConsumerClaims, InOrder, Wanted, history
<1>9. ProducerClaims'
  BY <1>2, ProducerUntouched DEF history
<1>10. Stored'
  <2>1. Written' = Written
    BY <1>2 DEF Written, producer
  <2> QED
    BY <1>2, <2>1, StoredUntouched DEF shared, history
<1> QED
  BY <1>6, <1>7, <1>8, <1>9, <1>10 DEF IInv

\* pop(): the byte read is the oldest one.
LEMMA PopReadStep == IInv /\ PopRead => IInv'
<1> SUFFICES ASSUME IInv, PopRead PROVE IInv'
  OBVIOUS
<1>1. Index(tail_) = Slot(received) /\ Slot(received) \in Slots
  BY Positions, IndexOfWord DEF IInv, Counters
<1>2. /\ cpc = "pop_read" /\ cpc' = "pop_store" /\ got' = << data_[Slot(received)] >>
      /\ UNCHANGED <<shared, producer, history, pending_r_, rview, hSeen>>
  BY <1>1 DEF PopRead
<1>3. Wanted = 1 /\ Wanted' = 1
  BY <1>2 DEF Wanted
<1>4. data_[Slot(received)] = received
  <2>1. Written \in Nat
    BY DEF IInv, TypeOK, Written
  <2>2. received \in received..(sent + Written - 1)
    BY <1>3, <2>1, Positions
  <2> QED
    BY <2>2 DEF IInv, Stored
<1>5. TypeOK'
  BY <1>2, <1>4, Positions DEF IInv, TypeOK, producer, shared, history
<1>6. Counters'
  BY <1>2 DEF IInv, Counters, producer, shared, history, Word
<1>7. InOrder'
  BY <1>2, <1>4, Positions DEF InOrder, history
<1>8. ConsumerClaims'
  BY <1>2, <1>3 DEF IInv, ConsumerClaims, Slot, history
<1>9. ProducerClaims'
  BY <1>2, ProducerUntouched DEF history
<1>10. Stored'
  <2>1. Written' = Written
    BY <1>2 DEF Written, producer
  <2> QED
    BY <1>2, <2>1, StoredUntouched DEF shared, history
<1> QED
  BY <1>5, <1>6, <1>7, <1>8, <1>9, <1>10 DEF IInv

\* Both ways to release bytes: received and tail_ advance by n, and the consumer
\* is idle with an empty view.
LEMMA ReleaseStep ==
  ASSUME IInv, NEW n \in Nat, n <= Wanted,
         tail_' = Add(tail_, n), received' = received + n,
         cpc' = "idle", rview' = << >>, got' = << >>, pending_r_' \in Nat,
         UNCHANGED <<head_, data_, producer, hSeen, sent, base>>
  PROVE  IInv'
<1>1. tail_' = Word(received + n)
  BY Positions, AddToWord DEF IInv, Counters
<1>2. received + n <= hSeen /\ received + n \in Nat
  BY Positions
<1>3. TypeOK'
  <2>1. tail_' \in 0..(WordSize - 1)
    BY <1>1, <1>2, Positions, WordInRange
  <2> QED
    BY <1>2, <2>1 DEF IInv, TypeOK, producer
<1>4. Counters'
  BY <1>1, <1>2, Positions DEF IInv, Counters, producer, Word
<1>5. ConsumerClaims' /\ InOrder'
  BY <1>2, Positions DEF ConsumerClaims, InOrder, Wanted
<1>6. ProducerClaims'
  BY ProducerUntouched
<1>7. Stored'
  <2>1. Written' = Written /\ Written \in Nat
    BY DEF Written, producer, IInv, TypeOK
  <2> QED
    BY <1>2, <2>1, Positions, StoredUntouched
<1> QED
  BY <1>3, <1>4, <1>5, <1>6, <1>7 DEF IInv

\* pop(): the store releases the byte that was read.
LEMMA PopStoreStep == IInv /\ PopStore => IInv'
<1> SUFFICES ASSUME IInv, PopStore PROVE IInv'
  OBVIOUS
<1>1. cpc = "pop_store" /\ rview = << >> /\ Wanted = 1
  BY DEF PopStore, IInv, ConsumerClaims, Wanted
<1>2. /\ tail_' = Add(tail_, 1) /\ received' = received + 1
      /\ cpc' = "idle" /\ rview' = << >> /\ got' = << >> /\ pending_r_' = pending_r_
      /\ UNCHANGED <<head_, data_, producer, hSeen, sent, base>>
  BY <1>1 DEF PopStore
<1>3. pending_r_' \in Nat
  BY <1>2 DEF IInv, TypeOK
<1> QED
  BY <1>1, <1>2, <1>3, ReleaseStep

\* commit_read: only bytes of the view are released.
LEMMA CommitReadStep ==
  ASSUME IInv, NEW n \in 0..Capacity, CommitRead(n)
  PROVE  IInv'
<1>1. Len(got) \in Nat /\ Len(rview) \in Nat /\ pending_r_ \in Nat
  BY DEF IInv, TypeOK
<1>2. /\ n <= Len(got) /\ n <= pending_r_ /\ n <= Wanted /\ n \in Nat
  BY <1>1 DEF CommitRead, IInv, ConsumerClaims, Wanted
<1>3. Min(n, pending_r_) = n
  BY <1>2 DEF Min
<1>4. /\ tail_' = Add(tail_, n) /\ received' = received + n
      /\ cpc' = "idle" /\ rview' = << >> /\ got' = << >> /\ pending_r_' = pending_r_ - n
      /\ UNCHANGED <<head_, data_, producer, hSeen, sent, base>>
  BY <1>3 DEF CommitRead
<1>5. pending_r_' \in Nat
  BY <1>1, <1>2, <1>4
<1> QED
  BY <1>2, <1>4, <1>5, ReleaseStep

\* The client of prepare_read reads the next byte of the stream.
LEMMA DrainByteStep == IInv /\ DrainByte => IInv'
<1> SUFFICES ASSUME IInv, DrainByte PROVE IInv'
  OBVIOUS
<1> DEFINE k == Len(got)
<1>1. /\ cpc = "drain" /\ k < Len(rview)
      /\ got' = Append(got, data_[rview[k + 1]])
      /\ UNCHANGED <<shared, producer, history, pending_r_, cpc, rview, hSeen>>
  BY DEF DrainByte
<1>2. /\ k \in Nat /\ got \in Seq(Nat \cup {Unwritten})
      /\ rview \in Seq(Slots) /\ Len(rview) \in Nat /\ Wanted = Len(rview)
  BY <1>1 DEF IInv, TypeOK, Wanted
<1>3. data_[rview[k + 1]] = received + k
  <2>1. k + 1 \in 1..Len(rview) /\ received + (k + 1) - 1 = received + k
    BY <1>1, <1>2, Positions
  <2>2. rview[k + 1] = Slot(received + k)
    BY <2>1 DEF IInv, ConsumerClaims
  <2>3. Written \in Nat
    BY DEF IInv, TypeOK, Written
  <2>4. received + k \in received..(sent + Written - 1)
    BY <1>1, <1>2, <2>3, Positions
  <2> QED
    BY <2>2, <2>4 DEF IInv, Stored
<1>4. TypeOK'
  BY <1>1, <1>2, <1>3, Positions DEF IInv, TypeOK, producer, shared, history
<1>5. Counters'
  BY <1>1 DEF IInv, Counters, producer, shared, history, Word
<1>6. InOrder'
  <2>1. Len(got') = k + 1 /\ received' = received
    BY <1>1, <1>2 DEF history
  <2>2. got'[k + 1] = received + k /\ received + k = received + (k + 1) - 1
    BY <1>1, <1>2, <1>3, Positions
  <2>3. ASSUME NEW i \in 1..k PROVE got'[i] = received + i - 1
    <3>1. got'[i] = got[i]
      BY <1>1, <1>2
    <3> QED
      BY <3>1 DEF IInv, InOrder
  <2>4. ASSUME NEW i \in 1..(k + 1) PROVE got'[i] = received + i - 1
    <3>1. i = k + 1 \/ i \in 1..k
      BY <1>2
    <3> QED
      BY <2>2, <2>3, <3>1
  <2> QED
    BY <2>1, <2>4 DEF InOrder
<1>7. ConsumerClaims'
  BY <1>1, <1>2 DEF IInv, ConsumerClaims, Wanted, Slot, history
<1>8. ProducerClaims'
  BY <1>1, ProducerUntouched DEF history
<1>9. Stored'
  <2>1. Written' = Written
    BY <1>1 DEF Written, producer
  <2> QED
    BY <1>1, <2>1, StoredUntouched DEF shared, history
<1> QED
  BY <1>4, <1>5, <1>6, <1>7, <1>8, <1>9 DEF IInv

\* prepare_read from an idle consumer: the view is the slots of the next
\* positions, and all of them are known to be published.
LEMMA PrepareReadStep ==
  ASSUME IInv, NEW n \in 1..Capacity, PrepareRead(n)
  PROVE  IInv'
<1>1. PICK h \in HeadLoads :
        LET take == Min(n, Available(size(Word(h), tail_), pending_r_))
        IN  /\ hSeen' = h
            /\ pending_r_' = pending_r_ + take
            /\ rview' = rview \o Spans(tail_, take)
            /\ cpc' = IF take = 0 THEN cpc ELSE "drain"
  BY DEF PrepareRead, ReserveRead
<1> DEFINE take == Min(n, Available(size(Word(h), tail_), pending_r_))
<1>2. cpc = "idle" /\ UNCHANGED <<shared, producer, history, got>>
  BY DEF PrepareRead, ReserveRead
<1>3. h \in Nat /\ hSeen <= h /\ h <= sent
  BY Positions DEF HeadLoads
<1>4. size(Word(h), tail_) = h - received
  <2>1. 0 <= h - received /\ h - received <= Capacity
    BY <1>3, Positions, SMT
  <2> QED
    BY <1>3, <2>1, Positions, SizeOfWords DEF IInv, Counters
<1>5. /\ take \in 0..Capacity /\ received + take <= h
  <2> DEFINE room == size(Word(h), tail_)
  <2>1. room \in 0..Capacity /\ room = h - received
    BY <1>3, <1>4, Positions, SMT
  <2>2. pending_r_ \in Nat
    BY DEF IInv, TypeOK
  <2> HIDE DEF room
  <2>3. Available(room, pending_r_) \in 0..room
    BY <2>1, <2>2, SMT DEF Available
  <2>4. take \in 0..room
    <3>1. take = Min(n, Available(room, pending_r_))
      BY DEF room
    <3> HIDE DEF take
    <3> QED
      BY <2>1, <2>3, <3>1, SMT DEF Min
  <2> HIDE DEF take
  <2> QED
    BY <1>3, <2>1, <2>4, Positions, SMT
<1> HIDE DEF take
<1>6. /\ hSeen' = h /\ pending_r_' = pending_r_ + take
      /\ rview' = rview \o Spans(tail_, take)
      /\ cpc' = IF take = 0 THEN cpc ELSE "drain"
  BY <1>1 DEF take
<1>7. rview = << >> /\ got = << >>
  <2>1. rview = << >> /\ Wanted = 0
    BY <1>2 DEF IInv, ConsumerClaims, Wanted
  <2>2. Len(got) <= 0 /\ got \in Seq(Nat \cup {Unwritten})
    BY <2>1 DEF IInv, ConsumerClaims, TypeOK
  <2> QED
    BY <2>1, <2>2
<1>8. /\ rview' = [i \in 1..take |-> Slot(received + i - 1)]
      /\ rview' \in Seq(Slots) /\ Len(rview') = take
  <2>1. Spans(tail_, take) = [i \in 1..take |-> Slot(received + i - 1)]
    BY <1>5, Positions, SpansAreSlots DEF IInv, Counters
  <2>2. \A i \in 1..take : Slot(received + i - 1) \in Slots
    BY Positions, IndexOfWord
  <2>3. [i \in 1..take |-> Slot(received + i - 1)] \in Seq(Slots)
    BY <1>5, <2>2
  <2>4. rview' = [i \in 1..take |-> Slot(received + i - 1)]
    BY <1>6, <1>7, <2>1, <2>3
  <2> QED
    BY <1>5, <2>3, <2>4
<1>9. TypeOK'
  BY <1>2, <1>3, <1>5, <1>6, <1>7, <1>8 DEF IInv, TypeOK, shared, producer, history
<1>10. Counters'
  BY <1>2, <1>3, <1>6, Positions DEF IInv, Counters, Word, shared, producer, history
<1>11. ConsumerClaims'
  <2>1. take = 0 => rview' = << >>
    BY <1>8
  <2>2. \A i \in 1..Len(rview') : rview'[i] = Slot(received + i - 1)
    BY <1>8
  <2>3. Wanted' = take
    BY <1>2, <1>6, <1>8 DEF Wanted
  <2>4. pending_r_ \in Nat
    BY DEF IInv, TypeOK
  <2>5. \A i \in 1..Len(rview') : rview'[i] = Slot(received + i - 1)'
    BY <1>2, <2>2 DEF Slot, history
  <2> QED
    BY <1>2, <1>5, <1>6, <1>7, <1>8, <2>1, <2>3, <2>4, <2>5 DEF ConsumerClaims, history
<1>12. InOrder'
  BY <1>2, <1>7 DEF InOrder
<1>13. ProducerClaims'
  BY <1>2, ProducerUntouched DEF history
<1>14. Stored'
  <2>1. Written' = Written
    BY <1>2 DEF Written, producer
  <2> QED
    BY <1>2, <2>1, StoredUntouched DEF shared, history
<1> QED
  BY <1>9, <1>10, <1>11, <1>12, <1>13, <1>14 DEF IInv

\* clean(): the counters start again from zero, and base with them.
LEMMA CleanStep == IInv /\ Clean => IInv'
<1> SUFFICES ASSUME IInv, Clean PROVE IInv'
  OBVIOUS
<1>1. /\ head_' = 0 /\ tail_' = 0 /\ pending_w_' = 0 /\ pending_r_' = 0
      /\ base' = sent /\ received' = sent /\ tSeen' = sent /\ hSeen' = sent /\ sent' = sent
      /\ ppc' = "idle" /\ cpc' = "idle"
      /\ UNCHANGED <<data_, wview, wfill, rview, got>>
  BY DEF Clean
<1>2. /\ wview = << >> /\ wfill = 0 /\ rview = << >> /\ Len(got) <= 0
      /\ Claimed' = 0 /\ Written' = 0 /\ Wanted' = 0
  BY <1>1 DEF Clean, IInv, TypeOK, ProducerClaims, ConsumerClaims, Claimed, Written, Wanted
<1>3. TypeOK'
  BY <1>1, SizeAssumption, Positions DEF IInv, TypeOK
<1>4. Counters'
  <2>1. (0 % WordSize) = 0 /\ sent - sent = 0
    BY SizeAssumption, Positions, ModOneTurn
  <2> QED
    BY <1>1, <2>1, Positions DEF Counters, Word
<1>5. ProducerClaims'
  BY <1>1, <1>2, Positions DEF IInv, TypeOK, ProducerClaims
<1>6. ConsumerClaims'
  BY <1>1, <1>2, Positions DEF IInv, TypeOK, ConsumerClaims
<1>7. Stored'
  BY <1>1, <1>2, Positions DEF Stored
<1>8. InOrder'
  BY <1>1, <1>2 DEF InOrder, IInv, TypeOK
<1> QED
  BY <1>3, <1>4, <1>5, <1>6, <1>7, <1>8 DEF IInv

\* A step that changes nothing.
LEMMA StutterStep == IInv /\ UNCHANGED vars => IInv'
<1> SUFFICES ASSUME IInv, UNCHANGED vars PROVE IInv'
  OBVIOUS
<1>1. UNCHANGED <<shared, producer, consumer, history>>
  BY DEF vars
<1>2. TypeOK' /\ Counters'
  BY <1>1 DEF IInv, TypeOK, Counters, Word, shared, producer, consumer, history
<1>3. ProducerClaims' /\ ConsumerClaims' /\ InOrder'
  BY <1>1, ProducerUntouched, ConsumerUntouched DEF history
<1>4. Stored'
  <2>1. Written' = Written
    BY <1>1 DEF Written, producer
  <2> QED
    BY <1>1, <2>1, StoredUntouched DEF shared, history
<1> QED
  BY <1>2, <1>3, <1>4 DEF IInv

\* The invariant is inductive.
LEMMA NextIInv == IInv /\ [Next]_vars => IInv'
<1> SUFFICES ASSUME IInv, [Next]_vars PROVE IInv'
  OBVIOUS
<1>1. CASE ProducerStep
  <2>1. CASE \E n \in 1..Capacity : PrepareWrite(n)
    BY <2>1, PrepareWriteStep
  <2>2. CASE \E n \in 0..Capacity : CommitWrite(n)
    BY <2>2, CommitWriteStep
  <2> QED
    BY <1>1, <2>1, <2>2, PutBeginStep, PutWriteStep, PutStoreStep, FillByteStep
    DEF ProducerStep
<1>2. CASE ConsumerStep
  <2>1. CASE \E n \in 1..Capacity : PrepareRead(n)
    BY <2>1, PrepareReadStep
  <2>2. CASE \E n \in 0..Capacity : CommitRead(n)
    BY <2>2, CommitReadStep
  <2> QED
    BY <1>2, <2>1, <2>2, PopBeginStep, PopReadStep, PopStoreStep, DrainByteStep
    DEF ConsumerStep
<1>3. CASE Clean
  BY <1>3, CleanStep
<1>4. CASE UNCHANGED vars
  BY <1>4, StutterStep
<1> QED
  BY <1>1, <1>2, <1>3, <1>4 DEF Next

\* IInv holds in every reachable state of every instance.
THEOREM Invariance == Spec => []IInv
<1>1. Init => IInv
  BY InitIInv
<1>2. IInv /\ [Next]_vars => IInv'
  BY NextIInv
<1> QED
  BY <1>1, <1>2, PTL DEF Spec

-------------------------------------------------------------------------------
(* What the invariant says about the code *)

\* Counters, reservations, views and storage keep their types.
THEOREM TypeCorrect == Spec => []TypeOK
<1>1. IInv => TypeOK
  BY DEF IInv
<1> QED
  BY <1>1, Invariance, PTL

\* The bytes a call of the consumer returns are the ones sent, in order.
THEOREM Ordered == Spec => []InOrder
<1>1. IInv => InOrder
  BY DEF IInv
<1> QED
  BY <1>1, Invariance, PTL

\* The slots open to the producer are those of positions it has claimed.
LEMMA WriteSlotsClaimed ==
  ASSUME IInv, NEW x \in WriteSlots
  PROVE  \E p \in sent..(sent + Claimed - 1) : x = Slot(p)
<1>1. CASE ppc = "put_write"
  <2>1. x = Slot(sent)
    BY <1>1, Positions, IndexOfWord DEF WriteSlots, IInv, Counters
  <2>2. Claimed = 1
    BY <1>1 DEF Claimed
  <2> QED
    BY <2>1, <2>2, Positions
<1>2. CASE ppc = "fill"
  <2>1. PICK i \in 1..Len(wview) : x = wview[i]
    BY <1>2 DEF WriteSlots
  <2>2. x = Slot(sent + i - 1)
    BY <2>1 DEF IInv, ProducerClaims
  <2>3. Claimed = Len(wview)
    BY <1>2 DEF Claimed
  <2>4. sent + i - 1 \in sent..(sent + Claimed - 1)
    BY <2>3, Positions
  <2> QED
    BY <2>2, <2>4
<1> QED
  BY <1>1, <1>2 DEF WriteSlots

\* The slots open to the consumer are those of positions it works on.
LEMMA ReadSlotsWanted ==
  ASSUME IInv, NEW x \in ReadSlots
  PROVE  \E q \in received..(received + Wanted - 1) : x = Slot(q)
<1>1. CASE cpc = "pop_read"
  <2>1. x = Slot(received)
    BY <1>1, Positions, IndexOfWord DEF ReadSlots, IInv, Counters
  <2>2. Wanted = 1
    BY <1>1 DEF Wanted
  <2> QED
    BY <2>1, <2>2, Positions
<1>2. CASE cpc = "drain"
  <2>1. PICK i \in 1..Len(rview) : x = rview[i]
    BY <1>2 DEF ReadSlots
  <2>2. x = Slot(received + i - 1)
    BY <2>1 DEF IInv, ConsumerClaims
  <2>3. Wanted = Len(rview)
    BY <1>2 DEF Wanted
  <2>4. received + i - 1 \in received..(received + Wanted - 1)
    BY <2>3, Positions
  <2> QED
    BY <2>2, <2>4
<1> QED
  BY <1>1, <1>2 DEF ReadSlots

\* One producer thread and one consumer thread never touch the same byte.
THEOREM RaceFree == Spec => []NoDataRace
<1>1. IInv => NoDataRace
  <2> SUFFICES ASSUME IInv, NEW x \in WriteSlots, x \in ReadSlots PROVE FALSE
    BY DEF NoDataRace
  <2>1. PICK p \in sent..(sent + Claimed - 1) : x = Slot(p)
    BY WriteSlotsClaimed
  <2>2. PICK q \in received..(received + Wanted - 1) : x = Slot(q)
    BY ReadSlotsWanted
  <2>3. p \in Int /\ q \in Int /\ q < p /\ p - q < Capacity /\ q - p < Capacity
    BY Positions
  <2>4. Slot(p) = Slot(q) /\ base \in Int
    BY <2>1, <2>2, Positions
  <2>5. p = q
    BY <2>3, <2>4, SlotInjective
  <2> QED
    BY <2>3, <2>5
<1> QED
  BY <1>1, Invariance, PTL

\* size() never wraps below zero and free() never overstates the room, for any
\* counter value a thread may still load.
THEOREM SizesSafe == Spec => []SizesAreSafe
<1>1. IInv => SizesAreSafe
  <2> SUFFICES ASSUME IInv PROVE SizesAreSafe
    OBVIOUS
  <2>1. ASSUME NEW t \in TailLoads
        PROVE  size(head_, Word(t)) <= Capacity
               /\ free(head_, Word(t)) <= Capacity - (sent - received)
    <3>1. t \in Int /\ t <= received /\ 0 <= sent - t /\ sent - t <= Capacity
      BY Positions DEF TailLoads
    <3>2. size(head_, Word(t)) = sent - t /\ free(head_, Word(t)) = Capacity - (sent - t)
      BY <3>1, Positions, SizeOfWords DEF IInv, Counters
    <3> QED
      BY <3>1, <3>2, Positions
  <2>2. ASSUME NEW h \in HeadLoads
        PROVE  size(Word(h), tail_) <= sent - received
    <3>1. h \in Int /\ h <= sent /\ 0 <= h - received /\ h - received <= Capacity
      BY Positions DEF HeadLoads
    <3>2. size(Word(h), tail_) = h - received
      BY <3>1, Positions, SizeOfWords DEF IInv, Counters
    <3> QED
      BY <3>1, <3>2, Positions
  <2> QED
    BY <2>1, <2>2 DEF SizesAreSafe
<1> QED
  BY <1>1, Invariance, PTL

\* Clients that commit all they reserve leave no reservation behind.
Returned == pending_w_ = Len(wview)

\* Every step of such clients keeps pending_w_ equal to the view they hold.
LEMMA ReturnedStep ==
  ASSUME ~PartialCommits, IInv, Returned, [Next]_vars
  PROVE  Returned'
<1>1. CASE \E n \in 0..Capacity : CommitWrite(n)
  <2>1. PICK n \in 0..Capacity : CommitWrite(n)
    BY <1>1
  <2>2. n = Len(wview) /\ n = pending_w_ /\ n \in Nat
    BY <2>1 DEF CommitWrite, Returned
  <2>3. Min(n, pending_w_) = n
    BY <2>2 DEF Min
  <2>4. pending_w_' = 0 /\ wview' = << >>
    BY <2>1, <2>2, <2>3 DEF CommitWrite
  <2> QED
    BY <2>4 DEF Returned
<1>2. CASE \E n \in 1..Capacity : PrepareWrite(n)
  <2>1. PICK n \in 1..Capacity : PrepareWrite(n)
    BY <1>2
  <2>2. PICK t \in TailLoads :
          LET take == Min(n, Available(free(head_, Word(t)), pending_w_))
          IN  /\ tSeen' = t
              /\ pending_w_' = pending_w_ + take
              /\ wview' = wview \o Spans(head_, take)
              /\ ppc' = IF take = 0 THEN ppc ELSE "fill"
    BY <2>1 DEF PrepareWrite, Reserve
  <2> DEFINE take == Min(n, Available(free(head_, Word(t)), pending_w_))
  <2>3. take \in 0..Capacity
    <3> DEFINE room == free(head_, Word(t))
    <3>1. room \in Nat
      <4>1. t \in Int /\ 0 <= sent - t /\ sent - t <= Capacity
        BY Positions DEF TailLoads
      <4>2. room = Capacity - (sent - t)
        BY <4>1, Positions, SizeOfWords DEF IInv, Counters
      <4> QED
        BY <4>1, <4>2, Positions
    <3> HIDE DEF room
    <3>2. pending_w_ \in Nat
      BY DEF IInv, TypeOK
    <3>3. Available(room, pending_w_) \in Nat
      BY <3>1, <3>2 DEF Available
    <3>4. take = Min(n, Available(room, pending_w_))
      BY DEF room
    <3> HIDE DEF take
    <3> QED
      BY <3>3, <3>4, SizeAssumption DEF Min
  <2> HIDE DEF take
  <2>4. pending_w_' = pending_w_ + take /\ wview' = wview \o Spans(head_, take)
    BY <2>2 DEF take
  <2>5. wview = << >> /\ pending_w_ = 0
    BY <2>1 DEF PrepareWrite, IInv, ProducerClaims, Returned
  <2>6. /\ Spans(head_, take) = [i \in 1..take |-> Slot(sent + i - 1)]
        /\ \A i \in 1..take : Slot(sent + i - 1) \in Slots
    <3>1. head_ = Word(sent) /\ sent \in Int /\ base \in Int
      BY Positions DEF IInv, Counters
    <3>2. Spans(Word(sent), take) = [i \in 1..take |-> Slot(sent + i - 1)]
      BY <2>3, <3>1, SpansAreSlots
    <3>3. \A i \in 1..take : Slot(sent + i - 1) \in Slots
      BY <3>1, IndexOfWord
    <3> QED
      BY <3>1, <3>2, <3>3
  <2>7. Spans(head_, take) \in Seq(Slots) /\ Len(Spans(head_, take)) = take
    BY <2>3, <2>6
  <2>8. wview' = Spans(head_, take)
    BY <2>4, <2>5, <2>7
  <2> QED
    BY <2>3, <2>4, <2>5, <2>7, <2>8 DEF Returned
<1>3. CASE Clean
  BY <1>3 DEF Clean, Returned, IInv, ProducerClaims
<1>4. CASE PutBegin \/ PutWrite \/ PutStore \/ FillByte
  BY <1>4 DEF PutBegin, PutWrite, PutStore, FillByte, Returned
<1>5. CASE ConsumerStep \/ UNCHANGED vars
  <2>1. UNCHANGED producer
    BY <1>5 DEF ConsumerStep, PopBegin, PopRead, PopStore, PrepareRead, ReserveRead,
                DrainByte, CommitRead, vars
  <2> QED
    BY <2>1 DEF Returned, producer
<1> QED
  BY <1>1, <1>2, <1>3, <1>4, <1>5 DEF Next, ProducerStep

\* Whoever commits what it reserved can always write where free() reports room.
THEOREM FreeWritable == ~PartialCommits => (Spec => []FreeIsWritable)
<1> SUFFICES ASSUME ~PartialCommits PROVE Spec => []FreeIsWritable
  OBVIOUS
<1>1. Init => Returned
  BY DEF Init, Returned
<1>2. Returned /\ IInv /\ [Next]_vars => Returned'
  BY ReturnedStep
<1>3. Returned /\ IInv => FreeIsWritable
  <2> SUFFICES ASSUME Returned, IInv, ppc = "idle", free(head_, tail_) > 0
               PROVE  Available(free(head_, tail_), pending_w_) > 0
    BY DEF FreeIsWritable
  <2>1. pending_w_ = 0
    BY DEF Returned, IInv, ProducerClaims
  <2>2. free(head_, tail_) = Capacity - (sent - received)
    BY Positions, SizeOfWords DEF IInv, Counters
  <2>3. free(head_, tail_) \in Int
    BY <2>2, Positions
  <2> QED
    BY <2>1, <2>3 DEF Available
<1> QED
  BY <1>1, <1>2, <1>3, Invariance, PTL DEF Spec

-------------------------------------------------------------------------------
(* The buffer implements the bounded channel *)

\* The numbers from r on, d of them: the shape of the channel's queue.
Run(r, d) == [i \in 1..d |-> r + i - 1]

\* The published bytes are the positions received .. sent - 1.
HoldsPositions ==
  /\ contents = Run(received, sent - received)
  /\ sent - received \in 0..Capacity
  /\ sent \in Nat /\ received \in Nat

\* The invariant says as much: published bytes are in their slots.
LEMMA ContentsArePositions == IInv => HoldsPositions
<1> SUFFICES ASSUME IInv PROVE HoldsPositions
  OBVIOUS
<1>1. sent - received \in 0..Capacity /\ sent \in Nat /\ received \in Nat
  BY Positions
<1>2. size(head_, tail_) = sent - received
  BY <1>1, Positions, SizeOfWords DEF IInv, Counters
<1>3. ASSUME NEW i \in 1..(sent - received)
      PROVE  data_[Index(Add(tail_, i - 1))] = received + i - 1
  <2>1. Add(tail_, i - 1) = Word(received + (i - 1))
    BY Positions, AddToWord DEF IInv, Counters
  <2>2. Index(Word(received + (i - 1))) = Slot(received + (i - 1))
    BY Positions, IndexOfWord
  <2>3. received + (i - 1) \in received..(sent + Written - 1)
    <3>1. Written \in Nat
      BY DEF IInv, TypeOK, Written
    <3> QED
      BY <3>1, Positions
  <2>4. data_[Slot(received + (i - 1))] = received + (i - 1)
    BY <2>3 DEF IInv, Stored
  <2> QED
    BY <2>1, <2>2, <2>4, Positions
<1>4. contents = Run(received, sent - received)
  BY <1>2, <1>3 DEF contents, Run
<1> QED
  BY <1>1, <1>4 DEF HoldsPositions

\* The same of the next state.
LEMMA ContentsStayPositions == IInv' => HoldsPositions'
BY ContentsArePositions, PTL

\* A run is a sequence of numbers.
LEMMA RunIsSeq ==
  ASSUME NEW r \in Nat, NEW d \in Nat
  PROVE  /\ Run(r, d) \in Seq(Nat) /\ Len(Run(r, d)) = d
         /\ \A i \in 1..d : Run(r, d)[i] = r + i - 1
BY DEF Run

\* A run grows at its end ...
LEMMA RunConcat ==
  ASSUME NEW r \in Nat, NEW d \in Nat, NEW k \in Nat
  PROVE  Run(r, d) \o Run(r + d, k) = Run(r, d + k)
<1> DEFINE a == Run(r, d)
           b == Run(r + d, k)
           c == Run(r, d + k)
<1>1. /\ a \in Seq(Nat) /\ Len(a) = d /\ \A i \in 1..d : a[i] = r + i - 1
      /\ b \in Seq(Nat) /\ Len(b) = k /\ \A i \in 1..k : b[i] = r + d + i - 1
      /\ c \in Seq(Nat) /\ Len(c) = d + k /\ \A i \in 1..(d + k) : c[i] = r + i - 1
  BY RunIsSeq
<1> HIDE DEF a, b, c
<1>2. /\ a \o b \in Seq(Nat) /\ Len(a \o b) = d + k
      /\ \A i \in 1..(d + k) : (a \o b)[i] = IF i <= d THEN a[i] ELSE b[i - d]
  BY <1>1, ConcatProperties
<1>3. ASSUME NEW i \in 1..(d + k) PROVE (a \o b)[i] = c[i]
  BY <1>1, <1>2
<1>4. a \o b = c
  BY <1>1, <1>2, <1>3, SeqEqual
<1> QED
  BY <1>4 DEF a, b, c

\* ... and is consumed from its start.
LEMMA RunSubSeq ==
  ASSUME NEW r \in Nat, NEW d \in Nat, NEW k \in 0..d
  PROVE  SubSeq(Run(r, d), k + 1, d) = Run(r + k, d - k)
<1>1. SubSeq(Run(r, d), k + 1, d) = [i \in 1..(d - k) |-> Run(r, d)[i + k]]
  BY RunIsSeq
<1>2. ASSUME NEW i \in 1..(d - k) PROVE Run(r, d)[i + k] = (r + k) + i - 1
  BY RunIsSeq
<1> QED
  BY <1>1, <1>2 DEF Run

\* A step that publishes the next k bytes is a Send(k) of the channel.
LEMMA PublishIsSend ==
  ASSUME IInv, IInv', NEW k \in 1..Capacity, sent' = sent + k, received' = received
  PROVE  Channel!Send(k)
<1> DEFINE d == sent - received
<1>1. contents = Run(received, d) /\ d \in Nat /\ sent \in Nat /\ received \in Nat
  BY ContentsArePositions DEF HoldsPositions
<1>2. /\ contents' = Run(received', sent' - received')
      /\ sent' - received' \in 0..Capacity
  BY ContentsStayPositions DEF HoldsPositions, Run
<1>3. d + k \in 0..Capacity /\ contents' = Run(received, d + k)
  <2>1. sent' - received' = d + k
    BY <1>1
  <2> QED
    BY <1>2, <2>1
<1>4. sent = received + d
  BY <1>1
<1> HIDE DEF d
<1>5. Len(contents) = d
  BY <1>1, RunIsSeq
<1>6. contents' = contents \o Run(sent, k)
  <2>1. Run(received, d) \o Run(received + d, k) = Run(received, d + k)
    <3>1. k \in Nat
      BY SizeAssumption
    <3> QED
      BY <1>1, <3>1, RunConcat
  <2> QED
    BY <1>1, <1>3, <1>4, <2>1
<1>7. Len(contents) + k <= Capacity
  BY <1>1, <1>3, <1>5
<1> QED
  BY <1>6, <1>7 DEF Channel!Send, Run

\* A step that releases or drops k bytes is a Receive(k) of the channel.
LEMMA ReleaseIsReceive ==
  ASSUME IInv, IInv', NEW k \in 1..Capacity, sent' = sent, received' = received + k
  PROVE  Channel!Receive(k)
<1> DEFINE d == sent - received
<1>1. contents = Run(received, d) /\ d \in Nat /\ sent \in Nat /\ received \in Nat
  BY ContentsArePositions DEF HoldsPositions
<1>2. /\ contents' = Run(received', sent' - received')
      /\ sent' - received' \in 0..Capacity
  BY ContentsStayPositions DEF HoldsPositions, Run
<1>3. k \in 0..d /\ contents' = Run(received + k, d - k)
  <2>1. sent' - received' = d - k
    BY <1>1
  <2> QED
    BY <1>1, <1>2, <2>1
<1> HIDE DEF d
<1>4. Len(contents) = d
  BY <1>1, RunIsSeq
<1>5. contents' = SubSeq(contents, k + 1, Len(contents))
  BY <1>1, <1>3, <1>4, RunSubSeq
<1> QED
  BY <1>3, <1>4, <1>5 DEF Channel!Receive

\* A step that moves neither end leaves the channel as it is, wherever it writes.
LEMMA QuietIsStutter ==
  ASSUME IInv, IInv', sent' = sent, received' = received
  PROVE  UNCHANGED <<contents, sent>>
<1>1. contents = Run(received, sent - received)
  BY ContentsArePositions DEF HoldsPositions
<1>2. contents' = Run(received', sent' - received')
  BY ContentsStayPositions DEF HoldsPositions, Run
<1> QED
  BY <1>1, <1>2

\* Every step of the buffer is a step of the channel, or none.
LEMMA StepIsChannelStep ==
  ASSUME IInv, IInv', [Next]_vars
  PROVE  [Channel!Next]_<<contents, sent>>
<1>1. \/ sent' = sent /\ received' = received
      \/ \E k \in 1..Capacity : sent' = sent + k /\ received' = received
      \/ \E k \in 1..Capacity : sent' = sent /\ received' = received + k
  <2>1. CASE ProducerStep
    <3>1. CASE PutStore
      BY <3>1, SizeAssumption DEF PutStore
    <3>2. ASSUME NEW n \in 0..Capacity, CommitWrite(n)
          PROVE  \E k \in 0..Capacity : sent' = sent + k /\ received' = received
      <4>1. pending_w_ \in Nat
        BY DEF IInv, TypeOK
      <4>2. Min(n, pending_w_) \in 0..Capacity
        BY <4>1, SizeAssumption DEF Min
      <4> QED
        BY <3>2, <4>2 DEF CommitWrite
    <3>3. CASE PutBegin \/ PutWrite \/ FillByte \/ \E n \in 1..Capacity : PrepareWrite(n)
      BY <3>3 DEF PutBegin, PutWrite, FillByte, PrepareWrite, Reserve, history
    <3> QED
      BY <2>1, <3>1, <3>2, <3>3, Positions DEF ProducerStep
  <2>2. CASE ConsumerStep
    <3>1. CASE PopStore
      BY <3>1, SizeAssumption DEF PopStore
    <3>2. ASSUME NEW n \in 0..Capacity, CommitRead(n)
          PROVE  \E k \in 0..Capacity : sent' = sent /\ received' = received + k
      <4>1. pending_r_ \in Nat
        BY DEF IInv, TypeOK
      <4>2. Min(n, pending_r_) \in 0..Capacity
        BY <4>1, SizeAssumption DEF Min
      <4> QED
        BY <3>2, <4>2 DEF CommitRead
    <3>3. CASE PopBegin \/ PopRead \/ DrainByte \/ \E n \in 1..Capacity : PrepareRead(n)
      BY <3>3 DEF PopBegin, PopRead, DrainByte, PrepareRead, ReserveRead, history
    <3> QED
      BY <2>2, <3>1, <3>2, <3>3, Positions DEF ConsumerStep
  <2>3. CASE Clean
    <3>1. sent' = sent /\ received' = sent
      BY <2>3 DEF Clean
    <3>2. sent - received \in 0..Capacity /\ sent = received + (sent - received)
      BY Positions
    <3> QED
      BY <3>1, <3>2, Positions
  <2>4. CASE UNCHANGED vars
    BY <2>4 DEF vars, history
  <2> QED
    BY <2>1, <2>2, <2>3, <2>4 DEF Next
<1>2. CASE sent' = sent /\ received' = received
  BY <1>2, QuietIsStutter
<1>3. CASE \E k \in 1..Capacity : sent' = sent + k /\ received' = received
  BY <1>3, PublishIsSend DEF Channel!Next
<1>4. CASE \E k \in 1..Capacity : sent' = sent /\ received' = received + k
  BY <1>4, ReleaseIsReceive DEF Channel!Next
<1> QED
  BY <1>1, <1>2, <1>3, <1>4

\* RingBuffer implements ByteChannel: a commit or a put appends exactly the
\* producer's next bytes, a release removes the oldest, and nothing else shows.
THEOREM Refinement == Spec => ImplementsChannel
<1>1. Init => Channel!Init
  <2>1. Init => contents = << >> /\ sent = 0
    <3> SUFFICES ASSUME Init PROVE contents = << >> /\ sent = 0
      OBVIOUS
    <3>1. IInv /\ sent = 0 /\ received = 0
      BY InitIInv DEF Init
    <3>2. contents = Run(received, 0)
      BY <3>1, ContentsArePositions DEF HoldsPositions
    <3> QED
      BY <3>1, <3>2 DEF Run
  <2> QED
    BY <2>1 DEF Channel!Init
<1>2. IInv /\ IInv' /\ [Next]_vars => [Channel!Next]_<<contents, sent>>
  BY StepIsChannelStep
<1> QED
  BY <1>1, <1>2, Invariance, PTL DEF Spec, ImplementsChannel, Channel!Spec

================================================================================
