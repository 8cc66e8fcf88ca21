----------------------------- MODULE ProactorProofs -----------------------------
(******************************************************************************)
(* Invariants of Proactor, and what follows from them for every number of     *)
(* coroutines, SQEs, descriptors, handles and calls.                          *)
(*                                                                            *)
(* Two ideas carry the proofs.  The OperationData objects are the only names  *)
(* a completion has for a coroutine, so a suspended coroutine and its object  *)
(* are kept together, and with a completion on the way.  And until handles    *)
(* wrap, connect() numbers handles and files alike: a handle in sockets_ is   *)
(* the number of the file its descriptor stands for.                          *)
(******************************************************************************)
EXTENDS Proactor, NumberLemmas, FiniteSetTheorems, SequenceTheorems

\* The values of handles, addresses, SQEs, operations, OperationData and awaiters.
Handles       == 0..(HandleMod - 1)
Data          == Addr \cup {Null}
Owners        == [who : Client \cup {Null}, call : Nat, file : Nat, stale : BOOLEAN]
Sqes          == [data : Data, kind : Kinds \cup {"nop"}, fd : Fd \cup {0}, len : Nat, owner : Owners]
Operations    == [data : Data, kind : Kinds \cup {"nop"}, len : Nat, owner : Owners, file : Nat]
OperationData == [coro : Client, type : Kinds, handle : Handles]
Awaiters      == [kind : Kinds \cup {"none"}, socket_ : Handles, len : Nat,
                  error_ : BOOLEAN, bytes_ : Int]

\* What await_suspend() and the completions change.
RingTypes ==
  /\ tail \in 0..(Entries - 1) /\ queued \in 0..Entries
  /\ slots \in [0..(Entries - 1) -> Sqes]
  /\ inflight \subseteq Operations /\ \A op \in inflight : op.file <= files
  /\ heap \in [Addr -> {Free} \cup OperationData]
  /\ awaiter \in [Client -> Awaiters]
  /\ at \in [Client -> {"new", "run", "suspended", "resume", "done"}]
  /\ faults \in [alloc : Nat, submit : Nat]

\* The tables of the proactor and of the kernel, and who is connected to what.
TableTypes ==
  /\ DOMAIN sockets_ \subseteq Handles /\ sockets_ \in [DOMAIN sockets_ -> Fd]
  /\ next_handle_id_ \in Handles
  /\ files \in Nat /\ fds \in [Fd -> 0..files] /\ conn \in [Client -> 0..files]
  /\ sock \in [Client -> Handles] /\ dropped \subseteq Handles

\* The threads, the completion queue and the history of the calls.
ControlTypes ==
  /\ running_ \in BOOLEAN /\ alive \in BOOLEAN
  /\ loop \in {"off", "check", "wait", "resumed", "ended", "undefined"}
  /\ stopping \in {"no", "stored", "done"}
  /\ cq \in Seq([data : Data, res : Int]) /\ (loop = "resumed" => cq # << >>)
  /\ thread \in [Client -> {"main", "loop"}]
  /\ calls \in [Client -> Nat] /\ truth \in [Client -> Int]

\* Every variable has its type.
Types == RingTypes /\ TableTypes /\ ControlTypes

\* A coroutine has an awaiter exactly while it is in a call, and the OperationData
\* objects are those of the suspended coroutines, one each.
Paired ==
  /\ \A c \in Client : awaiter[c].kind = "none" <=> at[c] \notin {"suspended", "resume"}
  /\ \A a \in Addr : heap[a] # Free =>
       at[heap[a].coro] = "suspended" /\ awaiter[heap[a].coro].kind = heap[a].type
  /\ \A a, b \in Addr : heap[a] # Free /\ heap[b] # Free /\ heap[a].coro = heap[b].coro => a = b
  /\ \A c \in Client : at[c] = "suspended" => \E a \in Addr : heap[a] # Free /\ heap[a].coro = c

\* An SQE in the ring has address a.
InRing(a) == \E sqe \in Unsubmitted(slots, tail, queued) : sqe.data = a

\* A completion for address a will come from the kernel.
OnItsWay(a) == (\E op \in inflight : op.data = a) \/ InRing(a)

\* Until the destructor, a completion of each OperationData is on the way or will be,
\* when the SQEs that are left in the ring are submitted.
Awaited ==
  alive => \A a \in Addr : heap[a] # Free =>
    OnItsWay(a) \/ \E i \in Unhandled : cq[i].data = a

\* Only a failure leaves SQEs in the ring, and no more of them happen than may.
LeftByFailures ==
  /\ faults.alloc \in 0..AllocFailures /\ faults.submit \in 0..SubmitFailures
  /\ ~Hindered => queued = 0

\* Fewer than HandleMod sockets have been made so far: no handle has wrapped.
NoWrap == files < HandleMod

\* c is in connect().
Connects(c) == awaiter[c].kind = "connect"

\* The handles of sockets_ are the numbers of the open files.
FilesMatch ==
  /\ \A h \in DOMAIN sockets_ : h # 0 /\ fds[sockets_[h]] = h
  /\ \A fd \in Fd : fds[fd] # 0 => fds[fd] \in DOMAIN sockets_ /\ sockets_[fds[fd]] = fd

\* A Socket's or pending connect()'s handle is the number of the file it stands for.
HoldersMatch ==
  /\ \A c \in Client : sock[c] # 0 => conn[c] = sock[c]
  /\ \A c \in Client : Connects(c) =>
       awaiter[c].socket_ # 0 /\ conn[c] = awaiter[c].socket_ /\ sock[c] = 0

\* Every entry has a Socket or a pending connect(), or lost its last Socket to a copy.
EntriesHeld ==
  alive => \A h \in DOMAIN sockets_ \ dropped : \E c \in Client :
    sock[c] = h \/ (Connects(c) /\ awaiter[c].socket_ = h)

\* As long as no handle has wrapped, it is the number of a file.
Numbered ==
  /\ next_handle_id_ = (files + 1) % HandleMod
  /\ NoWrap => FilesMatch /\ HoldersMatch /\ EntriesHeld

\* The inductive invariant.
IInv == Types /\ Paired /\ Awaited /\ LeftByFailures /\ Numbered

-------------------------------------------------------------------------------
(* Operators of the model *)

\* The sizes of the model are numbers, and an address is not null.
LEMMA Constants ==
  /\ Entries \in Nat \ {0} /\ MaxFd \in Nat \ {0} /\ HandleMod \in Nat \ {0, 1}
  /\ MaxLen \in Nat /\ AllocFailures \in Nat /\ SubmitFailures \in Nat
  /\ IsFiniteSet(Client) /\ Addr \subseteq Nat \ {0} /\ Fd \subseteq Nat \ {0}
<1>1. Cardinality(Client) \in Nat
  BY ProactorAssumption, FS_CardinalityType
<1> QED
  BY <1>1, ProactorAssumption DEF Addr, Fd

\* An OperationData is not a free address.
LEMMA DataNotFree ==
  /\ Free \notin OperationData
  /\ \A c, k, h : [coro |-> c, type |-> k, handle |-> h] # Free
BY DEF Free, OperationData

\* What the beginning of a call does, its bound on the number of calls left out.
LEMMA CallBegins ==
  ASSUME NEW c, Call(c)
  PROVE  /\ alive /\ at[c] = "run"
         /\ calls' = [calls EXCEPT ![c] = @ + 1] /\ truth' = [truth EXCEPT ![c] = NoAnswer]
BY DEF Call, Runs

\* The next SQE is in the ring.
LEMMA TailInRing ==
  ASSUME NEW t \in 0..(Entries - 1)
  PROVE  ((t + 1) % Entries) \in 0..(Entries - 1)
BY Constants, DivMod

\* The SQE that was filled last is the one before the next.
LEMMA BeforeTail ==
  ASSUME NEW t \in 0..(Entries - 1)
  PROVE  (((t + 1) % Entries) - 1) % Entries = t
<1>1. Entries \in Nat \ {0}
  BY Constants
<1>2. CASE t + 1 < Entries
  <2>1. ((t + 1) % Entries) = t + 1
    BY <1>1, <1>2, ModOneTurn
  <2>2. (t % Entries) = t
    BY <1>1, ModOneTurn
  <2>3. (t + 1) - 1 = t
    OBVIOUS
  <2> QED
    BY <2>1, <2>2, <2>3
<1>3. CASE t + 1 = Entries
  <2>1. ((t + 1) % Entries) = 0
    BY <1>1, <1>3, ModOneTurn
  <2>2. ((0 - 1) % Entries) = Entries - 1
    BY <1>1, ModOneTurn
  <2> QED
    BY <1>1, <1>3, <2>1, <2>2
<1> QED
  BY <1>2, <1>3, <1>1

\* The SQEs that are not submitted are SQEs of the ring.
LEMMA UnsubmittedInRing ==
  ASSUME NEW S, NEW s \in [0..(Entries - 1) -> S], NEW t \in Int, NEW q \in Nat
  PROVE  Unsubmitted(s, t, q) \subseteq S
<1> SUFFICES ASSUME NEW i \in 1..q PROVE s[(t - i) % Entries] \in S
  BY DEF Unsubmitted
<1>1. t - i \in Int
  OBVIOUS
<1>2. ((t - i) % Entries) \in 0..(Entries - 1)
  BY <1>1, Constants, DivMod
<1> QED
  BY <1>2

\* While the ring has room, an SQE that is filled overwrites none that is not submitted.
LEMMA UnsubmittedStay ==
  ASSUME NEW S, NEW s \in [0..(Entries - 1) -> S], NEW t \in 0..(Entries - 1), NEW x,
         NEW q \in Nat, q < Entries
  PROVE  {x} \cup Unsubmitted(s, t, q) \subseteq Unsubmitted([s EXCEPT ![t] = x], (t + 1) % Entries, q + 1)
<1> DEFINE r == [s EXCEPT ![t] = x]
           u == (t + 1) % Entries
<1>. Entries \in Nat \ {0}
  BY Constants
<1>1. x \in Unsubmitted(r, u, q + 1)
  <2>1. (u - 1) % Entries = t
    BY BeforeTail
  <2>2. r[(u - 1) % Entries] = x /\ 1 \in 1..(q + 1)
    BY <2>1
  <2> QED
    BY <2>2 DEF Unsubmitted
<1>2. ASSUME NEW i \in 1..q PROVE s[(t - i) % Entries] \in Unsubmitted(r, u, q + 1)
  <2>1. (u - (i + 1)) % Entries = (t - i) % Entries
    <3> DEFINE M(n) == n % Entries
    <3>1. \A n, k \in Int : M(M(n) + k) = M(n + k)
      BY ModAdd
    <3>2. M(t + 1) \in Int
      BY DivMod
    <3> HIDE DEF M
    <3>3. M(M(t + 1) + (-(i + 1))) = M((t + 1) + (-(i + 1)))
      BY <3>1
    <3>4. M(t + 1) + (-(i + 1)) = M(t + 1) - (i + 1) /\ (t + 1) + (-(i + 1)) = t - i
      BY <3>2
    <3>5. M(M(t + 1) - (i + 1)) = M(t - i)
      BY <3>3, <3>4
    <3> QED
      BY <3>5 DEF M
  <2>2. ((t - i) % Entries) \in 0..(Entries - 1) /\ ((t - i) % Entries) # t
    <3>1. ((t - i) % Entries) \in 0..(Entries - 1) /\ (t % Entries) = t
      <4>1. t - i \in Int
        OBVIOUS
      <4>2. ((t - i) % Entries) \in 0..(Entries - 1)
        BY <4>1, DivMod
      <4>3. (t % Entries) = t
        BY ModOneTurn
      <4> QED
        BY <4>2, <4>3
    <3>2. ASSUME ((t - i) % Entries) = t PROVE FALSE
      <4> DEFINE j == t - i
      <4>1. j \in Int /\ t \in Int /\ j - t < Entries /\ t - j < Entries /\ j # t
        OBVIOUS
      <4>2. (j % Entries) = (t % Entries)
        BY <3>1, <3>2
      <4> HIDE DEF j
      <4> QED
        BY <4>1, <4>2, ModInjective
    <3> QED
      BY <3>1, <3>2
  <2>3. r[(u - (i + 1)) % Entries] = s[(t - i) % Entries] /\ i + 1 \in 1..(q + 1)
    BY <2>1, <2>2
  <2> QED
    BY <2>3 DEF Unsubmitted
<1> HIDE DEF r, u
<1> QED
  BY <1>1, <1>2 DEF Unsubmitted, r, u

\* A submission takes SQEs of the ring and leaves the others in it.
LEMMA TakenOrLeft ==
  ASSUME NEW s, NEW t, NEW q \in Nat, NEW left \in 0..q
  PROVE  Unsubmitted(s, t, q) = Taken(s, t, q, left) \cup Unsubmitted(s, t, left)
<1>1. 1..q = ((left + 1)..q) \cup (1..left)
  OBVIOUS
<1> QED
  BY <1>1 DEF Unsubmitted, Taken

\* What a submission takes are operations of the kernel.
LEMMA SubmissionTyped ==
  ASSUME slots' \in [0..(Entries - 1) -> Sqes], tail' \in Int, queued \in Nat,
         inflight \subseteq Operations, files' \in Nat, fds' \in [Fd -> 0..files'],
         \A op \in inflight : op.file <= files',
         NEW left \in 0..queued, Submission(left)
  PROVE  /\ queued' \in 0..queued
         /\ inflight' \subseteq Operations /\ \A op \in inflight' : op.file <= files'
<1>1. Taken(slots', tail', queued + 1, left) \subseteq Sqes
  <2>1. Unsubmitted(slots', tail', queued + 1) \subseteq Sqes
    BY UnsubmittedInRing
  <2>2. left \in 0..(queued + 1)
    OBVIOUS
  <2> QED
    BY <2>1, <2>2, TakenOrLeft
<1>2. \A sqe \in Sqes : Issue(sqe, fds') \in Operations /\ Issue(sqe, fds').file <= files'
  BY DEF Issue, Sqes, Operations
<1>3. /\ queued' = left
      /\ inflight' = inflight \cup {Issue(sqe, fds') : sqe \in Taken(slots', tail', queued + 1, left)}
  BY DEF Submission
<1>4. inflight' \subseteq Operations /\ \A op \in inflight' : op.file <= files'
  BY <1>1, <1>2, <1>3, Zenon
<1> QED
  BY <1>3, <1>4

\* What is on its way stays so.
WaysKept == \A a \in Addr : OnItsWay(a) => OnItsWay(a)'

\* An SQE that is filled, whether it is submitted then or stays, is on its way, and
\* all that was on its way is.
LEMMA FilledIsOnItsWay ==
  ASSUME Types, queued < Entries, NEW x,
         slots' = [slots EXCEPT ![tail] = x], tail' = (tail + 1) % Entries,
         (queued' = queued + 1 /\ UNCHANGED inflight) \/ \E left \in 0..queued : Submission(left)
  PROVE  WaysKept /\ \A a \in Addr : x.data = a => OnItsWay(a)'
<1>. /\ slots \in [0..(Entries - 1) -> Sqes] /\ tail \in 0..(Entries - 1)
     /\ queued \in Nat /\ queued + 1 \in Nat
  BY DEF Types, RingTypes
<1>1. {x} \cup Unsubmitted(slots, tail, queued) \subseteq Unsubmitted(slots', tail', queued + 1)
  BY UnsubmittedStay
<1>2. inflight \subseteq inflight'
  BY DEF Submission
<1>3. ASSUME NEW sqe \in Unsubmitted(slots', tail', queued + 1)
      PROVE  \/ \E op \in inflight' : op.data = sqe.data
             \/ sqe \in Unsubmitted(slots', tail', queued')
  <2>1. CASE queued' = queued + 1
    BY <1>3, <2>1
  <2>2. ASSUME NEW left \in 0..queued, Submission(left)
        PROVE  \/ \E op \in inflight' : op.data = sqe.data
               \/ sqe \in Unsubmitted(slots', tail', queued')
    <3>1. /\ queued' = left
          /\ inflight' = inflight \cup {Issue(o, fds') : o \in Taken(slots', tail', queued + 1, left)}
      BY <2>2 DEF Submission
    <3>2. Unsubmitted(slots', tail', queued + 1)
            = Taken(slots', tail', queued + 1, left) \cup Unsubmitted(slots', tail', left)
      <4>1. left \in 0..(queued + 1)
        OBVIOUS
      <4> QED
        BY <4>1, TakenOrLeft
    <3>3. CASE sqe \in Taken(slots', tail', queued + 1, left)
      <4>1. Issue(sqe, fds') \in inflight'
        BY <3>1, <3>3, Zenon
      <4>2. Issue(sqe, fds').data = sqe.data
        BY DEF Issue
      <4> QED
        BY <4>1, <4>2, Zenon
    <3> QED
      BY <1>3, <3>1, <3>2, <3>3, Zenon
  <2> QED
    BY <2>1, <2>2
<1>4. ASSUME NEW sqe \in Unsubmitted(slots', tail', queued + 1), NEW a \in Addr, sqe.data = a
      PROVE  OnItsWay(a)'
  BY <1>3, <1>4 DEF OnItsWay, InRing
<1>5. ASSUME NEW a \in Addr, OnItsWay(a) PROVE OnItsWay(a)'
  <2>1. CASE \E op \in inflight : op.data = a
    BY <1>2, <2>1 DEF OnItsWay
  <2>2. CASE InRing(a)
    <3>1. PICK sqe \in Unsubmitted(slots, tail, queued) : sqe.data = a
      BY <2>2 DEF InRing
    <3>2. sqe \in Unsubmitted(slots', tail', queued + 1)
      BY <1>1
    <3> QED
      BY <1>4, <3>1, <3>2
  <2> QED
    BY <1>5, <2>1, <2>2 DEF OnItsWay
<1>6. x \in Unsubmitted(slots', tail', queued + 1)
  BY <1>1
<1> QED
  BY <1>4, <1>5, <1>6 DEF WaysKept

\* The kernel's results are numbers.
LEMMA ResultsAreNumbers ==
  ASSUME NEW op \in Operations
  PROVE  Results(op) \subseteq Int
BY DEF Results, Operations, Kinds, Failed

\* on_complete() of an awaiter in a call keeps what it awaits.
LEMMA CompletedAwaiter ==
  ASSUME NEW aw \in Awaiters, aw.kind \in Kinds, NEW res \in Int
  PROVE  /\ OnComplete(aw, res) \in Awaiters
         /\ OnComplete(aw, res).kind = aw.kind /\ OnComplete(aw, res).socket_ = aw.socket_
<1> DEFINE e == res < 0
           n == IF res < 0 THEN 0 ELSE res
<1>1. e \in BOOLEAN /\ n \in Int
  OBVIOUS
<1>2. \/ OnComplete(aw, res) = [aw EXCEPT !.error_ = e]
      \/ OnComplete(aw, res) = [aw EXCEPT !.error_ = FALSE]
      \/ OnComplete(aw, res) = [aw EXCEPT !.error_ = e, !.bytes_ = n]
  <2>1. aw.kind = "connect" \/ aw.kind = "sleep" \/ aw.kind \in {"send", "recv"}
    BY DEF Kinds
  <2>2. CASE aw.kind = "connect"
    BY <2>2, Zenon DEF OnComplete
  <2>3. CASE aw.kind = "sleep"
    BY <2>3 DEF OnComplete
  <2>4. CASE aw.kind \in {"send", "recv"}
    BY <2>4, Zenon DEF OnComplete
  <2> QED
    BY <2>1, <2>2, <2>3, <2>4
<1> HIDE DEF e, n
<1> QED
  BY <1>1, <1>2 DEF Awaiters

-------------------------------------------------------------------------------
(* Types and pairs *)

\* await_suspend(), whatever fails in it.
LEMMA AwaitTyped ==
  ASSUME Types, NEW c \in Client, NEW aw \in Awaiters, NEW fd \in Fd \cup {0},
         aw.kind \in Kinds,
         calls' \in [Client -> Nat], conn' \in [Client -> Nat],
         files' \in Nat, files <= files', fds' \in [Fd -> 0..files'],
         AwaitSuspend(c, aw, fd)
  PROVE  RingTypes'
<1> DEFINE own == Owner(c)
<1>1. own \in Owners /\ [own EXCEPT !.stale = TRUE] \in Owners
  BY DEF Owner, Owners
<1>2. ((tail + 1) % Entries) \in 0..(Entries - 1)
  BY TailInRing DEF Types, RingTypes
<1>. Entries \in Nat \ {0}
  BY Constants
<1>. inflight \subseteq Operations /\ \A op \in inflight : op.file <= files'
  BY DEF Types, RingTypes, TableTypes, Operations
<1>. faults \in [alloc : Nat, submit : Nat]
  BY DEF Types, RingTypes
<1>3. CASE NoSqe(c, aw)
  <2>1. \/ awaiter' = [awaiter EXCEPT ![c] = [aw EXCEPT !.error_ = TRUE]]
        \/ awaiter' = [awaiter EXCEPT ![c] = [aw EXCEPT !.error_ = FALSE]]
    BY <1>3, Zenon DEF NoSqe
  <2>2. awaiter' \in [Client -> Awaiters]
    <3>1. [aw EXCEPT !.error_ = TRUE] \in Awaiters /\ [aw EXCEPT !.error_ = FALSE] \in Awaiters
      BY DEF Awaiters
    <3> QED
      BY <2>1, <3>1 DEF Types, RingTypes
  <2> QED
    BY <1>3, <2>2 DEF NoSqe, Types, RingTypes, ring
<1>4. CASE NoMemory(c, aw)
  <2>1. slots' \in [0..(Entries - 1) -> Sqes]
    BY <1>1, <1>4 DEF NoMemory, Types, RingTypes, Sqes
  <2>2. tail' \in 0..(Entries - 1) /\ queued' \in 0..Entries
    BY <1>2, <1>4 DEF NoMemory, Types, RingTypes
  <2>3. awaiter' \in [Client -> Awaiters]
    BY <1>4 DEF NoMemory, Types, RingTypes, Awaiters
  <2>4. faults' \in [alloc : Nat, submit : Nat]
    <3>1. faults.alloc > 0 /\ faults' = [faults EXCEPT !.alloc = @ - 1]
      BY <1>4 DEF NoMemory
    <3> QED
      BY <3>1
  <2> QED
    BY <1>4, <2>1, <2>2, <2>3, <2>4 DEF NoMemory, Types, RingTypes
<1>5. CASE SubmitFails(c, aw, fd)
  <2>1. \E a \in Addr : slots' = [slots EXCEPT ![tail] = Sqe(a, aw.kind, fd, aw.len, own)]
    BY <1>5 DEF SubmitFails
  <2>2. slots' \in [0..(Entries - 1) -> Sqes]
    BY <1>1, <2>1 DEF Types, RingTypes, Awaiters, Sqe, Sqes, Data
  <2>3. tail' \in 0..(Entries - 1) /\ queued' \in 0..Entries
    BY <1>2, <1>5 DEF SubmitFails, Types, RingTypes
  <2>4. awaiter' \in [Client -> Awaiters]
    BY <1>5 DEF SubmitFails, Types, RingTypes, Awaiters
  <2>5. faults' \in [alloc : Nat, submit : Nat]
    <3>1. faults.submit > 0 /\ faults' = [faults EXCEPT !.submit = @ - 1]
      BY <1>5 DEF SubmitFails
    <3> QED
      BY <3>1
  <2>6. at' \in [Client -> {"new", "run", "suspended", "resume", "done"}]
    BY <1>5 DEF SubmitFails, Types, RingTypes
  <2>7. inflight' \subseteq Operations /\ \A op \in inflight' : op.file <= files'
    BY <1>5 DEF SubmitFails
  <2> QED
    BY <1>5, <2>2, <2>3, <2>4, <2>5, <2>6, <2>7 DEF SubmitFails, Types, RingTypes
<1>6. CASE Submitted(c, aw, fd)
  <2> USE DEF Submitted, Submit
  <2>1. PICK a \in Addr :
          /\ heap[a] = Free
          /\ heap' = [heap EXCEPT ![a] = [coro |-> c, type |-> aw.kind, handle |-> aw.socket_]]
          /\ slots' = [slots EXCEPT ![tail] = Sqe(a, aw.kind, fd, aw.len, own)]
    BY <1>6
  <2>2. slots' \in [0..(Entries - 1) -> Sqes]
    BY <1>1, <2>1 DEF Types, RingTypes, Awaiters, Sqe, Sqes, Data
  <2>3. heap' \in [Addr -> {Free} \cup OperationData]
    BY <2>1 DEF Types, RingTypes, Awaiters, OperationData
  <2>4. PICK left \in 0..queued : Submission(left)
    BY <1>6
  <2>5. tail' \in Int /\ queued \in Nat
    BY <1>2, <1>6 DEF Types, RingTypes
  <2>6. queued' \in 0..queued /\ inflight' \subseteq Operations /\ \A op \in inflight' : op.file <= files'
    BY <2>2, <2>4, <2>5, SubmissionTyped
  <2>8. awaiter' \in [Client -> Awaiters]
    BY <1>6 DEF Types, RingTypes
  <2>9. tail' \in 0..(Entries - 1) /\ queued' \in 0..Entries
    BY <1>2, <1>6, <2>6 DEF Types, RingTypes
  <2>10. faults' \in [alloc : Nat, submit : Nat]
    BY <1>6
  <2>11. at' \in [Client -> {"new", "run", "suspended", "resume", "done"}]
    BY <1>6 DEF Types, RingTypes
  <2> QED
    BY <2>2, <2>3, <2>6, <2>8, <2>9, <2>10, <2>11 DEF RingTypes
<1> QED
  BY <1>3, <1>4, <1>5, <1>6 DEF AwaitSuspend

\* An await_suspend() goes one of two ways.  The coroutine goes on at once, with an
\* awaiter for the same operation.
Returned(c, aw) ==
  /\ at' = [at EXCEPT ![c] = "resume"] /\ UNCHANGED heap /\ WaysKept
  /\ \E w \in Awaiters : w.kind = aw.kind /\ w.socket_ = aw.socket_ /\ awaiter' = [awaiter EXCEPT ![c] = w]

\* Its OperationData is with the kernel, or in the ring if not all of it was submitted.
Asked(c, aw) ==
  /\ at' = [at EXCEPT ![c] = "suspended"] /\ awaiter' = [awaiter EXCEPT ![c] = aw]
  /\ WaysKept
  /\ \E a \in Addr :
       /\ heap[a] = Free /\ OnItsWay(a)'
       /\ heap' = [heap EXCEPT ![a] = [coro |-> c, type |-> aw.kind, handle |-> aw.socket_]]

\* Whatever fails in await_suspend(), it goes one of these ways.
LEMMA AwaitOutcome ==
  ASSUME Types, NEW c \in Client, NEW aw \in Awaiters, NEW fd,
         AwaitSuspend(c, aw, fd) \/ AwaitNothing(c, aw)
  PROVE  Returned(c, aw) \/ Asked(c, aw)
<1>0. UNCHANGED <<ring, inflight>> => WaysKept
  BY DEF WaysKept, OnItsWay, InRing, ring
<1>1. CASE AwaitNothing(c, aw)
  BY <1>0, <1>1 DEF AwaitNothing, Returned
<1>2. CASE NoSqe(c, aw)
  <2>1. \/ awaiter' = [awaiter EXCEPT ![c] = [aw EXCEPT !.error_ = TRUE]]
        \/ awaiter' = [awaiter EXCEPT ![c] = [aw EXCEPT !.error_ = FALSE]]
    BY <1>2, Zenon DEF NoSqe
  <2>2. \E w \in Awaiters : w.kind = aw.kind /\ w.socket_ = aw.socket_ /\ awaiter' = [awaiter EXCEPT ![c] = w]
    <3>1. [aw EXCEPT !.error_ = TRUE] \in Awaiters /\ [aw EXCEPT !.error_ = FALSE] \in Awaiters
      BY DEF Awaiters
    <3>2. [aw EXCEPT !.error_ = TRUE].kind = aw.kind /\ [aw EXCEPT !.error_ = FALSE].kind = aw.kind
      BY DEF Awaiters
    <3>3. [aw EXCEPT !.error_ = TRUE].socket_ = aw.socket_ /\ [aw EXCEPT !.error_ = FALSE].socket_ = aw.socket_
      BY DEF Awaiters
    <3> QED
      BY <2>1, <3>1, <3>2, <3>3
  <2> QED
    BY <1>0, <1>2, <2>2 DEF NoSqe, Returned
<1>3. CASE NoMemory(c, aw) \/ SubmitFails(c, aw, fd)
  <2> DEFINE w == [aw EXCEPT !.error_ = TRUE]
  <2>1. w \in Awaiters /\ w.kind = aw.kind /\ w.socket_ = aw.socket_
    BY DEF Awaiters
  <2>2. /\ at' = [at EXCEPT ![c] = "resume"] /\ UNCHANGED heap
        /\ awaiter' = [awaiter EXCEPT ![c] = w]
    BY <1>3 DEF NoMemory, SubmitFails
  <2>3. /\ queued < Entries /\ tail' = (tail + 1) % Entries /\ queued' = queued + 1 /\ UNCHANGED inflight
        /\ \E x : slots' = [slots EXCEPT ![tail] = x]
    BY <1>3, Zenon DEF NoMemory, SubmitFails
  <2>4. WaysKept
    BY <2>3, FilledIsOnItsWay
  <2> HIDE DEF w
  <2> QED
    BY <2>1, <2>2, <2>4 DEF Returned
<1>4. CASE Submitted(c, aw, fd)
  <2> USE DEF Submitted, Submit
  <2>1. PICK a \in Addr :
          /\ heap[a] = Free
          /\ heap' = [heap EXCEPT ![a] = [coro |-> c, type |-> aw.kind, handle |-> aw.socket_]]
          /\ slots' = [slots EXCEPT ![tail] = Sqe(a, aw.kind, fd, aw.len, Owner(c))]
    BY <1>4
  <2> DEFINE x == Sqe(a, aw.kind, fd, aw.len, Owner(c))
  <2>2. x.data = a /\ slots' = [slots EXCEPT ![tail] = x]
    BY <2>1 DEF Sqe
  <2>3. queued < Entries /\ tail' = (tail + 1) % Entries /\ \E left \in 0..queued : Submission(left)
    BY <1>4
  <2> HIDE DEF x
  <2>4. WaysKept /\ OnItsWay(a)'
    BY <2>2, <2>3, FilledIsOnItsWay
  <2> QED
    BY <1>4, <2>1, <2>4 DEF Asked
<1> QED
  BY <1>1, <1>2, <1>3, <1>4 DEF AwaitSuspend

\* A call keeps coroutines and OperationData together, however it goes.
LEMMA AwaitPaired ==
  ASSUME Types, Paired, NEW c \in Client, NEW aw \in Awaiters, aw.kind \in Kinds,
         at[c] = "run", Returned(c, aw) \/ Asked(c, aw)
  PROVE  Paired'
<1>. /\ at \in [Client -> {"new", "run", "suspended", "resume", "done"}]
     /\ awaiter \in [Client -> Awaiters] /\ heap \in [Addr -> {Free} \cup OperationData]
  BY DEF Types, RingTypes
<1>. aw.kind # "none"
  BY DEF Kinds
<1>0. \A a \in Addr : heap[a] # Free => heap[a].coro \in Client /\ heap[a].coro # c
  BY DEF Paired, OperationData
<1>1. CASE Returned(c, aw)
  BY <1>0, <1>1 DEF Returned, Paired
<1>2. CASE Asked(c, aw)
  <2>1. PICK a \in Addr : heap[a] = Free /\
          heap' = [heap EXCEPT ![a] = [coro |-> c, type |-> aw.kind, handle |-> aw.socket_]]
    BY <1>2 DEF Asked
  <2>2. heap'[a] # Free /\ heap'[a].coro = c /\ heap'[a].type = aw.kind
    BY <2>1, DataNotFree
  <2>3. \A b \in Addr : b # a => heap'[b] = heap[b]
    BY <2>1
  <2>4. at'[c] = "suspended" /\ awaiter'[c] = aw /\ \A d \in Client : d # c => at'[d] = at[d] /\ awaiter'[d] = awaiter[d]
    BY <1>2 DEF Asked
  <2> QED
    BY <1>0, <2>1, <2>2, <2>3, <2>4 DEF Paired
<1> QED
  BY <1>1, <1>2

\* Each operation's awaiter is one.
LEMMA AwaitersMade ==
  ASSUME Types, NEW k \in Kinds, NEW h \in Handles, NEW len \in Nat
  PROVE  /\ NewAwaiter(k, h, len) \in Awaiters
         /\ NewAwaiter(k, h, len).kind = k /\ NewAwaiter(k, h, len).socket_ = h
BY DEF NewAwaiter, Awaiters

\* close() keeps the tables in shape.
LEMMA CloseTyped ==
  ASSUME Types, NEW h, CloseHandle(h)
  PROVE  /\ DOMAIN sockets_' \subseteq Handles /\ sockets_' \in [DOMAIN sockets_' -> Fd]
         /\ fds' \in [Fd -> 0..files]
<1>1. CASE h \in DOMAIN sockets_
  <2>1. sockets_' = [g \in DOMAIN sockets_ \ {h} |-> sockets_[g]] /\ fds' = [fds EXCEPT ![sockets_[h]] = 0]
    BY <1>1 DEF CloseHandle
  <2>2. files \in Nat /\ fds \in [Fd -> 0..files] /\ DOMAIN sockets_ \subseteq Handles
        /\ sockets_ \in [DOMAIN sockets_ -> Fd]
    BY DEF Types, TableTypes
  <2>3. DOMAIN sockets_' = DOMAIN sockets_ \ {h}
    BY <2>1
  <2>4. fds' \in [Fd -> 0..files]
    <3>1. fds' = [fds EXCEPT ![sockets_[h]] = 0] /\ 0 \in 0..files
      BY <2>1, <2>2
    <3> QED
      BY <2>2, <3>1
  <2>5. \A g \in DOMAIN sockets_' : sockets_'[g] \in Fd
    BY <2>1, <2>2
  <2> QED
    BY <2>1, <2>2, <2>3, <2>4, <2>5
<1>2. CASE h \notin DOMAIN sockets_
  BY <1>2 DEF CloseHandle, Types, TableTypes
<1> QED
  BY <1>1, <1>2

\* The calls of a client.
LEMMA CallsTyped ==
  ASSUME Types, NEW c \in Client, Call(c)
  PROVE  calls' \in [Client -> Nat] /\ truth' \in [Client -> Int]
<1>1. calls \in [Client -> Nat] /\ truth \in [Client -> Int] /\ NoAnswer \in Int
  BY DEF Types, ControlTypes, NoAnswer
<1>2. calls' = [calls EXCEPT ![c] = @ + 1] /\ truth' = [truth EXCEPT ![c] = NoAnswer]
  BY CallBegins
<1> QED
  BY <1>1, <1>2

\* connect() keeps types and pairs.
LEMMA ConnectTyped ==
  ASSUME Types, Paired, NEW c \in Client, Connect(c)
  PROVE  Types' /\ Paired'
<1>1. PICK fd \in Fd :
        /\ fds[fd] = 0
        /\ fds' = [fds EXCEPT ![fd] = files + 1] /\ files' = files + 1
        /\ next_handle_id_' = (next_handle_id_ + 1) % HandleMod
        /\ sockets_' = [h \in DOMAIN sockets_ \cup {next_handle_id_} |->
                          IF h \in DOMAIN sockets_ THEN sockets_[h] ELSE fd]
        /\ conn' = [conn EXCEPT ![c] = files + 1]
        /\ AwaitSuspend(c, NewAwaiter("connect", next_handle_id_, 0), sockets_'[next_handle_id_])
  BY DEF Connect
<1> DEFINE aw == NewAwaiter("connect", next_handle_id_, 0)
<1>2. aw \in Awaiters /\ aw.kind = "connect" /\ aw.kind \in Kinds
  <2>1. next_handle_id_ \in Handles /\ "connect" \in Kinds
    BY DEF Types, TableTypes, Kinds
  <2> QED
    BY <2>1, AwaitersMade
<1> HIDE DEF aw
<1>3. Call(c) /\ UNCHANGED <<cq, control, thread, sock, dropped>>
  BY DEF Connect
<1>4. TableTypes'
  <2>1. ((next_handle_id_ + 1) % HandleMod) \in Handles
    <3>1. next_handle_id_ + 1 \in Int
      BY DEF Types, TableTypes, Handles
    <3> QED
      BY <3>1, Constants, DivMod DEF Handles
  <2> QED
    BY <1>1, <1>3, <2>1 DEF Types, TableTypes
<1>5. sockets_'[next_handle_id_] \in Fd \cup {0}
  BY <1>1 DEF Types, TableTypes
<1>6. RingTypes'
  <2>1. calls' \in [Client -> Nat] /\ files' \in Nat /\ files <= files'
    BY <1>1, <1>3, CallsTyped DEF Types, TableTypes
  <2>2. conn' \in [Client -> Nat] /\ fds' \in [Fd -> 0..files']
    BY <1>4 DEF TableTypes
  <2> QED
    BY <1>1, <1>2, <1>5, <2>1, <2>2, AwaitTyped DEF aw
<1>7. ControlTypes'
  BY <1>3, CallsTyped DEF Types, ControlTypes, control
<1>8. Paired'
  <2>1. at[c] = "run"
    BY <1>3, CallBegins
  <2>2. Returned(c, aw) \/ Asked(c, aw)
    BY <1>1, <1>2, AwaitOutcome DEF aw
  <2> QED
    BY <1>2, <2>1, <2>2, AwaitPaired
<1> QED
  BY <1>4, <1>6, <1>7, <1>8 DEF Types

\* socket_send, socket_recv and sleep_for leave the tables alone.
LEMMA OtherCallTyped ==
  ASSUME Types, Paired, NEW c \in Client, NEW aw \in Awaiters, aw.kind \in Kinds,
         NEW fd \in Fd \cup {0}, Call(c), UNCHANGED <<cq, tables, control, thread, sock, conn>>,
         AwaitSuspend(c, aw, fd) \/ AwaitNothing(c, aw)
  PROVE  Types' /\ Paired'
<1>1. TableTypes'
  BY DEF Types, TableTypes, tables
<1>2. ControlTypes'
  BY CallsTyped DEF Types, ControlTypes, control
<1>3. RingTypes'
  <2>1. CASE AwaitSuspend(c, aw, fd)
    <3>1. calls' \in [Client -> Nat] /\ files' \in Nat /\ files <= files'
      BY CallsTyped DEF Types, TableTypes, tables
    <3>2. conn' \in [Client -> Nat] /\ fds' \in [Fd -> 0..files']
      BY <1>1 DEF TableTypes
    <3> QED
      BY <2>1, <3>1, <3>2, AwaitTyped
  <2>2. CASE AwaitNothing(c, aw)
    BY <2>2 DEF AwaitNothing, Types, RingTypes, ring, tables
  <2> QED
    BY <2>1, <2>2
<1>4. Paired'
  BY CallBegins, AwaitOutcome, AwaitPaired
<1> QED
  BY <1>1, <1>2, <1>3, <1>4 DEF Types

\* Every step keeps types and pairs.
LEMMA StepTyped ==
  ASSUME Types, Paired, [Next]_vars
  PROVE  Types' /\ Paired'
<1> USE DEF ring, kernel, tables, control, clients
<1>1. ASSUME NEW c \in Client, Start(c) PROVE Types' /\ Paired'
  <2>1. Types'
    BY <1>1 DEF Start, Types, RingTypes, TableTypes, ControlTypes
  <2>2. at[c] = "new" /\ at' = [at EXCEPT ![c] = "run"] /\ UNCHANGED <<heap, awaiter>>
    BY <1>1 DEF Start
  <2> QED
    BY <2>1, <2>2 DEF Paired, Types, RingTypes
<1>2. ASSUME NEW c \in Client, ConnectFails(c) PROVE Types' /\ Paired'
  BY <1>2, CallsTyped DEF ConnectFails, Types, RingTypes, TableTypes, ControlTypes, Paired
<1>3. ASSUME NEW c \in Client, Connect(c) PROVE Types' /\ Paired'
  BY <1>3, ConnectTyped
<1>4. ASSUME NEW c \in Client, NEW kind \in {"send", "recv"}, NEW len \in 0..MaxLen,
             Transfer(c, kind, len)
      PROVE  Types' /\ Paired'
  <2> DEFINE aw == NewAwaiter(kind, sock[c], len)
  <2>1. aw \in Awaiters /\ aw.kind \in Kinds
    <3>1. sock[c] \in Handles /\ len \in Nat /\ kind \in Kinds
      BY Constants DEF Types, TableTypes, Kinds
    <3> QED
      BY <3>1, AwaitersMade
  <2>2. Call(c) /\ UNCHANGED <<cq, tables, control, thread, sock, conn>>
    BY <1>4 DEF Transfer
  <2>3. \E fd \in Fd \cup {0} : AwaitSuspend(c, aw, fd) \/ AwaitNothing(c, aw)
    BY <1>4 DEF Transfer, Types, TableTypes
  <2> HIDE DEF aw
  <2> QED
    BY <2>1, <2>2, <2>3, OtherCallTyped
<1>5. ASSUME NEW c \in Client, SleepFor(c) PROVE Types' /\ Paired'
  <2> DEFINE aw == NewAwaiter("sleep", 0, 0)
  <2>1. aw \in Awaiters /\ aw.kind \in Kinds
    <3>1. 0 \in Handles /\ "sleep" \in Kinds
      BY Constants DEF Handles, Kinds
    <3> QED
      BY <3>1, AwaitersMade
  <2>2. Call(c) /\ UNCHANGED <<cq, tables, control, thread, sock, conn>> /\ AwaitSuspend(c, aw, 0)
    BY <1>5 DEF SleepFor
  <2> HIDE DEF aw
  <2> QED
    BY <2>1, <2>2, OtherCallTyped
<1>6. ASSUME NEW c \in Client, Close(c) PROVE Types' /\ Paired'
  <2>1. Types'
    <3>1. TableTypes'
      <4>1. /\ DOMAIN sockets_' \subseteq Handles /\ sockets_' \in [DOMAIN sockets_' -> Fd]
            /\ fds' \in [Fd -> 0..files]
        BY <1>6, CloseTyped DEF Close
      <4>2. /\ sock' = [sock EXCEPT ![c] = 0] /\ conn' = [conn EXCEPT ![c] = 0]
            /\ UNCHANGED <<files, next_handle_id_, dropped>>
        BY <1>6 DEF Close
      <4>3. 0 \in Handles
        BY Constants DEF Handles
      <4> QED
        BY <4>1, <4>2, <4>3 DEF Types, TableTypes
    <3> QED
      BY <1>6, <3>1 DEF Close, Types, RingTypes, ControlTypes
  <2> QED
    BY <1>6, <2>1 DEF Close, Paired
<1>7. ASSUME NEW c \in Client, NEW d \in Client, CopySocket(c, d) \/ MoveSocket(c, d)
      PROVE  Types' /\ Paired'
  <2>1. calls' \in [Client -> Nat] /\ truth' \in [Client -> Int]
    BY <1>7, CallsTyped DEF CopySocket, MoveSocket
  <2>2. UNCHANGED <<ring, kernel, heap, control, at, thread, awaiter, faults>> /\ files' = files
    BY <1>7 DEF CopySocket, MoveSocket
  <2>3. TableTypes'
    <3>1. 0 \in Handles /\ FileOf(d) \in 0..files /\ 0 \in 0..files
      BY Constants DEF Handles, FileOf, Types, TableTypes
    <3>2. sock' \in [Client -> Handles] /\ conn' \in [Client -> 0..files]
      BY <1>7, <3>1 DEF CopySocket, MoveSocket, Types, TableTypes
    <3>3. dropped' \subseteq Handles
      BY <1>7 DEF CopySocket, MoveSocket, Types, TableTypes
    <3>4. /\ DOMAIN sockets_' \subseteq Handles /\ sockets_' \in [DOMAIN sockets_' -> Fd]
          /\ fds' \in [Fd -> 0..files] /\ next_handle_id_' = next_handle_id_
      <4>1. CASE CloseHandle(sock[c]) /\ next_handle_id_' = next_handle_id_
        BY <4>1, CloseTyped
      <4>2. CASE UNCHANGED <<sockets_, fds, next_handle_id_>>
        BY <4>2 DEF Types, TableTypes
      <4> QED
        BY <1>7, <4>1, <4>2 DEF CopySocket, MoveSocket
    <3> QED
      BY <2>2, <3>2, <3>3, <3>4 DEF Types, TableTypes
  <2> QED
    BY <2>1, <2>2, <2>3 DEF Types, RingTypes, ControlTypes, Paired
<1>8. ASSUME NEW c \in Client, Resume(c) PROVE Types' /\ Paired'
  <2>1. /\ at[c] = "resume" /\ at' = [at EXCEPT ![c] = "run"]
        /\ awaiter' = [awaiter EXCEPT ![c] = NoAwaiter] /\ UNCHANGED <<slots, tail, queued, inflight, heap, faults, files>>
    BY <1>8 DEF Resume
  <2>2. NoAwaiter \in Awaiters /\ NoAwaiter.kind = "none"
    BY Constants DEF NoAwaiter, NewAwaiter, Awaiters, Handles
  <2>3. RingTypes'
    BY <2>1, <2>2 DEF Types, RingTypes
  <2>4. TableTypes'
    <3>1. CASE CloseHandle(awaiter[c].socket_) /\ conn' = [conn EXCEPT ![c] = 0] /\ UNCHANGED sock
      <4>1. /\ DOMAIN sockets_' \subseteq Handles /\ sockets_' \in [DOMAIN sockets_' -> Fd]
            /\ fds' \in [Fd -> 0..files]
        BY <3>1, CloseTyped
      <4>2. UNCHANGED <<files, next_handle_id_, dropped>>
        BY <1>8 DEF Resume
      <4> QED
        BY <3>1, <4>1, <4>2 DEF Types, TableTypes
    <3>2. CASE sock' = [sock EXCEPT ![c] = awaiter[c].socket_] /\ UNCHANGED <<fds, sockets_, conn>>
      BY <1>8, <3>2 DEF Resume, Types, TableTypes, RingTypes, Awaiters
    <3>3. CASE UNCHANGED <<fds, sockets_, sock, conn>>
      BY <1>8, <3>3 DEF Resume, Types, TableTypes
    <3> QED
      BY <1>8, <3>1, <3>2, <3>3 DEF Resume
  <2>5. ControlTypes'
    BY <1>8 DEF Resume, Types, ControlTypes
  <2>6. Paired'
    BY <2>1, <2>2 DEF Paired, Types, RingTypes, OperationData
  <2> QED
    BY <2>3, <2>4, <2>5, <2>6 DEF Types
<1>9. ASSUME NEW c \in Client, Finish(c) PROVE Types' /\ Paired'
  <2>1. at[c] = "run" /\ at' = [at EXCEPT ![c] = "done"] /\ UNCHANGED <<heap, awaiter>>
    BY <1>9 DEF Finish, Runs
  <2>2. Types'
    BY <1>9 DEF Finish, Types, RingTypes, TableTypes, ControlTypes
  <2> QED
    BY <2>1, <2>2 DEF Paired, Types, RingTypes
<1>10. ASSUME NEW op \in inflight, NEW res \in Results(op), Complete(op, res) PROVE Types' /\ Paired'
  <2>1. op \in Operations /\ res \in Int
    BY ResultsAreNumbers DEF Types, RingTypes
  <2>2. [data |-> op.data, res |-> res] \in [data : Data, res : Int]
    BY <2>1 DEF Operations
  <2>3. cq' \in Seq([data : Data, res : Int])
    BY <1>10, <2>2 DEF Complete, Types, ControlTypes
  <2>4. truth' \in [Client -> Int]
    BY <1>10, <2>1 DEF Complete, Types, ControlTypes
  <2>5. RingTypes' /\ TableTypes' /\ Paired'
    BY <1>10 DEF Complete, Types, RingTypes, TableTypes, Paired
  <2> QED
    BY <1>10, <2>3, <2>4, <2>5 DEF Complete, Types, ControlTypes
<1>11. CASE HandleCqe
  <2>1. CASE UNCHANGED <<heap, awaiter, at, thread>> /\ loop' \in {"resumed", "undefined"}
    BY <1>11, <2>1 DEF HandleCqe, Types, RingTypes, TableTypes, ControlTypes, Paired
  <2>2. CASE ~(UNCHANGED <<heap, awaiter, at, thread>> /\ loop' \in {"resumed", "undefined"})
    <3> DEFINE a == Head(cq).data
               c == heap[a].coro
    <3>1. Head(cq) \in [data : Data, res : Int]
      <4>1. cq # << >> /\ cq \in Seq([data : Data, res : Int])
        BY <1>11 DEF HandleCqe, Types, ControlTypes
      <4> QED
        BY <4>1, HeadTailProperties
    <3>2. /\ a # Null /\ heap[a] # Free /\ loop' = "resumed"
          /\ awaiter' = [awaiter EXCEPT ![c] = OnComplete(@, Head(cq).res)]
          /\ heap' = [heap EXCEPT ![a] = Free]
          /\ at' = [at EXCEPT ![c] = "resume"] /\ thread' = [thread EXCEPT ![c] = "loop"]
      BY <1>11, <2>2 DEF HandleCqe
    <3>3. a \in Addr /\ heap[a] \in OperationData /\ c \in Client
      BY <3>1, <3>2 DEF Data, Types, RingTypes, OperationData
    <3>4. at[c] = "suspended" /\ awaiter[c].kind = heap[a].type /\ heap[a].type \in Kinds /\ awaiter[c] \in Awaiters
      BY <3>2, <3>3 DEF Paired, OperationData, Types, RingTypes
    <3> DEFINE w == OnComplete(awaiter[c], Head(cq).res)
    <3>5. w \in Awaiters /\ w.kind = awaiter[c].kind
      BY <3>1, <3>4, CompletedAwaiter
    <3>6. awaiter' = [awaiter EXCEPT ![c] = w]
      BY <3>2
    <3> HIDE DEF a, c, w
    <3>7. RingTypes'
      BY <1>11, <3>2, <3>3, <3>5, <3>6 DEF HandleCqe, Types, RingTypes
    <3>8. TableTypes' /\ ControlTypes'
      BY <1>11, <3>2, <3>3 DEF HandleCqe, Types, TableTypes, ControlTypes
    <3>9. Paired'
      BY <3>2, <3>3, <3>4, <3>5, <3>6 DEF Paired, Types, RingTypes, OperationData, Kinds, c
    <3> QED
      BY <3>7, <3>8, <3>9 DEF Types
  <2> QED
    BY <2>1, <2>2
<1>12. CASE RunBegins \/ CheckRunning \/ WaitInterrupted \/ CqeSeen \/ StopStores
  <2>1. UNCHANGED <<slots, tail, queued, inflight, heap, awaiter, at, faults, tables, thread, calls, truth, sock, conn>>
    BY <1>12 DEF RunBegins, CheckRunning, WaitInterrupted, CqeSeen, StopStores
  <2>2. cq' \in Seq([data : Data, res : Int])
    <3>1. CASE CqeSeen
      <4>1. cq' = Tail(cq) /\ cq # << >> /\ cq \in Seq([data : Data, res : Int])
        BY <3>1 DEF CqeSeen, Types, ControlTypes
      <4> QED
        BY <4>1, HeadTailProperties
    <3> QED
      BY <1>12, <3>1 DEF RunBegins, CheckRunning, WaitInterrupted, StopStores, Types, ControlTypes
  <2>3. /\ running_' \in BOOLEAN /\ alive' \in BOOLEAN
        /\ loop' \in {"off", "check", "wait", "resumed", "ended", "undefined"}
        /\ stopping' \in {"no", "stored", "done"} /\ (loop' = "resumed" => cq' # << >>)
    BY <1>12 DEF RunBegins, CheckRunning, WaitInterrupted, CqeSeen, StopStores, Types, ControlTypes
  <2> QED
    BY <2>1, <2>2, <2>3 DEF Types, RingTypes, TableTypes, ControlTypes, Paired
<1>13. CASE StopWakes
  <2>1. UNCHANGED <<cq, heap, tables, running_, loop, alive, clients>> /\ stopping' = "done"
    BY <1>13 DEF StopWakes
  <2>2. TableTypes' /\ ControlTypes' /\ Paired'
    BY <2>1 DEF Types, TableTypes, ControlTypes, Paired
  <2>3. RingTypes'
    <3>1. CASE UNCHANGED <<slots, tail, queued, inflight, faults>>
      BY <2>1, <3>1 DEF Types, RingTypes
    <3>2. CASE queued < Entries /\ slots' = [slots EXCEPT ![tail] = BlankSqe] /\ tail' = (tail + 1) % Entries
      <4>1. BlankSqe \in Sqes
        BY DEF BlankSqe, Sqe, LoopNop, Sqes, Owners, Data
      <4>2. slots' \in [0..(Entries - 1) -> Sqes] /\ tail' \in 0..(Entries - 1) /\ queued + 1 \in 0..Entries
        BY <3>2, <4>1, TailInRing, Constants DEF Types, RingTypes
      <4>3. ASSUME NEW left \in 0..queued, Submission(left), UNCHANGED faults PROVE RingTypes'
        <5>1. fds' \in [Fd -> 0..files'] /\ files' = files /\ files \in Nat
          BY <2>1 DEF Types, TableTypes
        <5>2. \A op \in inflight : op.file <= files'
          BY <5>1 DEF Types, RingTypes
        <5>3. queued' \in 0..queued /\ inflight' \subseteq Operations /\ \A op \in inflight' : op.file <= files'
          BY <4>2, <4>3, <5>1, <5>2, SubmissionTyped DEF Types, RingTypes
        <5>4. queued' \in 0..Entries
          BY <5>3, Constants DEF Types, RingTypes
        <5> QED
          BY <2>1, <4>2, <4>3, <5>3, <5>4 DEF Types, RingTypes
      <4>5. CASE faults.submit > 0 /\ faults' = [faults EXCEPT !.submit = @ - 1]
                 /\ queued' = queued + 1 /\ UNCHANGED inflight
        <5>1. faults' \in [alloc : Nat, submit : Nat]
          BY <4>5 DEF Types, RingTypes
        <5> QED
          BY <2>1, <4>2, <4>5, <5>1 DEF tables, clients, Types, RingTypes
      <4>6. queued # Entries
        BY <3>2, Constants
      <4> QED
        BY <1>13, <4>3, <4>5, <4>6 DEF StopWakes
    <3> QED
      BY <1>13, <3>1, <3>2 DEF StopWakes
  <2> QED
    BY <2>2, <2>3 DEF Types
<1>14. CASE Destroy
  <2>1. TableTypes'
    BY <1>14 DEF Destroy, Types, TableTypes
  <2>2. cq' = << >> /\ alive' = FALSE /\ running_' = FALSE
    BY <1>14 DEF Destroy
  <2>3. RingTypes'
    BY <1>14, Constants DEF Destroy, Types, RingTypes
  <2>4. ControlTypes'
    <3>1. cq' \in Seq([data : Data, res : Int])
      BY <2>2
    <3> QED
      BY <1>14, <2>2, <3>1 DEF Destroy, Types, ControlTypes
  <2> QED
    BY <1>14, <2>1, <2>3, <2>4 DEF Destroy, Types, Paired
<1>15. CASE UNCHANGED vars
  BY <1>15 DEF vars, Types, RingTypes, TableTypes, ControlTypes, Paired
<1> QED
  BY <1>1, <1>2, <1>3, <1>4, <1>5, <1>6, <1>7, <1>8, <1>9, <1>10, <1>11, <1>12, <1>13, <1>14, <1>15
     DEF Next, ClientStep

-------------------------------------------------------------------------------
(* A completion for each OperationData *)

\* A step of a coroutine that makes a call.
Calling(c) ==
  \/ Connect(c) \/ SleepFor(c)
  \/ \E len \in 0..MaxLen : Transfer(c, "send", len) \/ Transfer(c, "recv", len)

\* Such a step begins a call that goes one of the two ways.
LEMMA CallOutcome ==
  ASSUME Types, NEW c \in Client, Calling(c)
  PROVE  /\ Call(c) /\ UNCHANGED <<cq, control, thread, sock>>
         /\ \E aw \in Awaiters : aw.kind \in Kinds /\ (Returned(c, aw) \/ Asked(c, aw))
<1> DEFINE Goal == \E aw \in Awaiters : aw.kind \in Kinds /\ (Returned(c, aw) \/ Asked(c, aw))
<1>1. Call(c) /\ UNCHANGED <<cq, control, thread, sock>>
  BY DEF Calling, Connect, SleepFor, Transfer
<1>2. ASSUME NEW aw \in Awaiters, aw.kind \in Kinds, NEW fd,
             AwaitSuspend(c, aw, fd) \/ AwaitNothing(c, aw)
      PROVE  Goal
  BY <1>2, AwaitOutcome
<1>3. \A k \in Kinds, h \in Handles, len \in Nat :
        NewAwaiter(k, h, len) \in Awaiters /\ NewAwaiter(k, h, len).kind \in Kinds
  BY AwaitersMade
<1>. next_handle_id_ \in Handles /\ sock[c] \in Handles /\ 0 \in Handles
  BY Constants DEF Types, TableTypes, Handles
<1>. {"connect", "send", "recv", "sleep"} \subseteq Kinds /\ 0..MaxLen \subseteq Nat
  BY Constants DEF Kinds
<1> HIDE DEF Goal
<1>4. ASSUME Connect(c) PROVE Goal
  <2>1. \E fd : AwaitSuspend(c, NewAwaiter("connect", next_handle_id_, 0), fd)
    BY <1>4 DEF Connect
  <2> QED
    BY <1>2, <1>3, <2>1
<1>5. ASSUME SleepFor(c) PROVE Goal
  <2>1. AwaitSuspend(c, NewAwaiter("sleep", 0, 0), 0)
    BY <1>5 DEF SleepFor
  <2> QED
    BY <1>2, <1>3, <2>1
<1>6. ASSUME NEW len \in 0..MaxLen, NEW kind \in {"send", "recv"}, Transfer(c, kind, len)
      PROVE  Goal
  <2>1. \E fd : AwaitSuspend(c, NewAwaiter(kind, sock[c], len), fd) \/ AwaitNothing(c, NewAwaiter(kind, sock[c], len))
    BY <1>6 DEF Transfer
  <2> QED
    BY <1>2, <1>3, <2>1
<1>7. Goal
  BY <1>4, <1>5, <1>6, Zenon DEF Calling
<1> QED
  BY <1>1, <1>7 DEF Goal

\* The completions that are still to be handled are completions.
LEMMA UnhandledCompletions ==
  ASSUME Types
  PROVE  Unhandled \subseteq 1..Len(cq) /\ Len(cq) \in Nat
BY DEF Unhandled, Types, ControlTypes

\* Every step keeps a completion on the way to each OperationData.
LEMMA StepAwaited ==
  ASSUME Types, Paired, Awaited, [Next]_vars
  PROVE  Awaited'
<1> DEFINE Goal(a) == OnItsWay(a)' \/ \E i \in Unhandled' : cq'[i].data = a
<1> SUFFICES ASSUME alive', NEW a \in Addr, heap'[a] # Free PROVE Goal(a)
  BY DEF Awaited
<1>a. Len(cq) \in Nat /\ cq \in Seq([data : Data, res : Int]) /\ heap \in [Addr -> {Free} \cup OperationData]
  BY DEF Types, ControlTypes, RingTypes
<1>1. ASSUME NEW c \in Client, Calling(c) PROVE Goal(a)
  <2>1. alive /\ Unhandled' = Unhandled /\ cq' = cq
    BY <1>1, CallOutcome DEF control, Unhandled
  <2>2. PICK aw \in Awaiters : Returned(c, aw) \/ Asked(c, aw)
    BY <1>1, CallOutcome
  <2>3. CASE Returned(c, aw)
    BY <2>1, <2>3 DEF Returned, Awaited, WaysKept
  <2>4. CASE Asked(c, aw)
    <3>1. PICK b \in Addr :
            /\ OnItsWay(b)'
            /\ heap' = [heap EXCEPT ![b] = [coro |-> c, type |-> aw.kind, handle |-> aw.socket_]]
      BY <2>4 DEF Asked
    <3>2. WaysKept
      BY <2>4 DEF Asked
    <3>3. CASE a = b
      BY <3>1, <3>3
    <3>4. CASE a # b
      <4>1. heap[a] # Free
        BY <1>a, <3>1, <3>4
      <4> QED
        BY <2>1, <3>2, <4>1 DEF Awaited, WaysKept
    <3> QED
      BY <3>3, <3>4
  <2> QED
    BY <2>2, <2>3, <2>4
<1>b. UNCHANGED <<ring, inflight>> => (OnItsWay(a)' <=> OnItsWay(a))
  BY DEF OnItsWay, InRing, ring
<1>2. CASE /\ UNCHANGED <<ring, inflight, cq, heap>> /\ (alive' => alive)
           /\ (loop = "resumed" <=> loop' = "resumed")
  BY <1>b, <1>2 DEF Awaited, Unhandled
<1>3. ASSUME NEW op \in inflight, NEW res \in Results(op), Complete(op, res) PROVE Goal(a)
  <2>1. /\ inflight' = inflight \ {op} /\ cq' = Append(cq, [data |-> op.data, res |-> res])
        /\ UNCHANGED <<ring, heap, loop, alive>>
    BY <1>3 DEF Complete, control
  <2>2. /\ Len(cq') = Len(cq) + 1 /\ cq'[Len(cq) + 1] = [data |-> op.data, res |-> res]
        /\ \A i \in 1..Len(cq) : cq'[i] = cq[i]
    BY <1>a, <2>1
  <2>3. Unhandled \subseteq Unhandled' /\ Unhandled \subseteq 1..Len(cq) /\ Len(cq) + 1 \in Unhandled'
    <3>1. loop = "resumed" => Len(cq) >= 1
      BY <1>a, EmptySeq DEF Types, ControlTypes
    <3> QED
      BY <1>a, <2>1, <2>2, <3>1 DEF Unhandled
  <2>4. CASE op.data = a
    BY <2>2, <2>3, <2>4
  <2>5. CASE op.data # a
    <3>1. OnItsWay(a) => OnItsWay(a)'
      BY <2>1, <2>5 DEF OnItsWay, InRing, ring
    <3> QED
      BY <2>1, <2>2, <2>3, <3>1 DEF Awaited
  <2> QED
    BY <2>4, <2>5
<1>4. CASE HandleCqe
  <2>1. CASE heap' = heap /\ loop' = "undefined"
    BY <1>2, <1>4, <2>1 DEF HandleCqe, kernel
  <2>2. CASE loop' = "resumed"
    <3>1. /\ loop = "wait" /\ UNCHANGED <<ring, inflight, cq, alive>> /\ heap[a] # Free
          /\ Head(cq).data # a /\ cq # << >>
      <4>1. loop = "wait" /\ UNCHANGED <<ring, inflight, cq, alive>> /\ cq # << >>
        BY <1>4 DEF HandleCqe, kernel
      <4>2. CASE Head(cq).data = Null
        BY <1>4, <4>1, <4>2, Constants DEF HandleCqe, Null
      <4>3. CASE Head(cq).data # Null
        <5>1. heap' = [heap EXCEPT ![Head(cq).data] = Free]
          BY <1>4, <2>2, <4>3 DEF HandleCqe
        <5> QED
          BY <1>a, <4>1, <5>1
      <4> QED
        BY <4>2, <4>3
    <3>2. \A i \in Unhandled : cq[i].data = a => i \in Unhandled'
      <4>1. Head(cq) = cq[1]
        BY <1>a, <3>1
      <4> QED
        BY <1>a, <2>2, <3>1, <4>1 DEF Unhandled
    <3> QED
      BY <1>b, <3>1, <3>2 DEF Awaited
  <2> QED
    BY <1>4, <2>1, <2>2 DEF HandleCqe
<1>5. CASE CqeSeen
  <2>1. /\ loop = "resumed" /\ loop' = "check" /\ cq' = Tail(cq) /\ cq # << >>
        /\ UNCHANGED <<ring, inflight, heap, alive>>
    BY <1>5 DEF CqeSeen, Types, ControlTypes
  <2>2. Len(cq') = Len(cq) - 1 /\ \A i \in 1..Len(cq') : cq'[i] = cq[i + 1]
    BY <1>a, <2>1, HeadTailProperties
  <2>3. Unhandled = 2..Len(cq) /\ Unhandled' = 1..(Len(cq) - 1)
    BY <2>1, <2>2 DEF Unhandled
  <2>4. ASSUME NEW i \in Unhandled, cq[i].data = a PROVE \E k \in Unhandled' : cq'[k].data = a
    <3>1. i - 1 \in Unhandled' /\ cq'[i - 1] = cq[i]
      BY <1>a, <2>2, <2>3
    <3> QED
      BY <2>4, <3>1
  <2> QED
    BY <1>b, <2>1, <2>4 DEF Awaited
<1>6. CASE StopWakes
  <2>1. UNCHANGED <<cq, heap, loop, alive>>
    BY <1>6 DEF StopWakes
  <2>2. WaysKept
    <3>1. CASE UNCHANGED <<ring, inflight>>
      BY <3>1 DEF WaysKept, OnItsWay, InRing, ring
    <3>2. CASE queued < Entries
      <4>1. slots' = [slots EXCEPT ![tail] = BlankSqe] /\ tail' = (tail + 1) % Entries
        BY <1>6, <3>2, Constants DEF StopWakes
      <4>2. (queued' = queued + 1 /\ UNCHANGED inflight) \/ \E left \in 0..queued : Submission(left)
        BY <1>6, <3>2, Constants DEF StopWakes
      <4> QED
        BY <3>2, <4>1, <4>2, FilledIsOnItsWay
    <3> QED
      BY <1>6, <3>1, <3>2 DEF StopWakes
  <2> QED
    BY <2>1, <2>2 DEF Awaited, Unhandled, WaysKept
<1>7. CASE Destroy
  BY <1>7 DEF Destroy
<1>8. ASSUME NEW c \in Client,
             \/ Start(c) \/ ConnectFails(c) \/ Close(c) \/ Resume(c) \/ Finish(c)
             \/ \E d \in Client : CopySocket(c, d) \/ MoveSocket(c, d)
      PROVE  UNCHANGED <<ring, inflight, cq, heap, alive, loop>>
  BY <1>8 DEF Start, ConnectFails, Close, Resume, Finish, CopySocket, MoveSocket, kernel, control
<1>9. CASE RunBegins \/ CheckRunning \/ WaitInterrupted \/ StopStores \/ UNCHANGED vars
  BY <1>2, <1>9 DEF RunBegins, CheckRunning, WaitInterrupted, StopStores, kernel, control, vars
<1> QED
  BY <1>1, <1>2, <1>3, <1>4, <1>5, <1>6, <1>7, <1>8, <1>9 DEF Next, ClientStep, Calling

-------------------------------------------------------------------------------
(* What is left in the ring *)

\* One failure less is left to happen.
LEMMA FaultsCount ==
  ASSUME Types, LeftByFailures,
         \/ faults.alloc > 0 /\ faults' = [faults EXCEPT !.alloc = @ - 1]
         \/ faults.submit > 0 /\ faults' = [faults EXCEPT !.submit = @ - 1]
  PROVE  LeftByFailures'
<1>1. /\ faults \in [alloc : Nat, submit : Nat] /\ AllocFailures \in Nat /\ SubmitFailures \in Nat
      /\ faults.alloc \in 0..AllocFailures /\ faults.submit \in 0..SubmitFailures
  BY Constants DEF Types, RingTypes, LeftByFailures
<1>2. /\ faults'.alloc \in 0..AllocFailures /\ faults'.submit \in 0..SubmitFailures
      /\ faults'.alloc < AllocFailures \/ faults'.submit < SubmitFailures
  BY <1>1
<1>3. Hindered'
  BY <1>1, <1>2 DEF Hindered
<1> QED
  BY <1>2, <1>3 DEF LeftByFailures

\* Without a failure a submission leaves nothing.
LEMMA SubmissionLeft ==
  ASSUME Types, LeftByFailures, NEW left \in 0..queued, Submission(left), UNCHANGED faults
  PROVE  LeftByFailures'
<1>1. queued' = left
  BY DEF Submission
<1> QED
  BY <1>1 DEF LeftByFailures, Hindered

\* await_suspend() leaves SQEs in the ring only after a failure.
LEMMA AwaitLeft ==
  ASSUME Types, LeftByFailures, NEW c, NEW aw, NEW fd, AwaitSuspend(c, aw, fd) \/ AwaitNothing(c, aw)
  PROVE  LeftByFailures'
<1>1. CASE NoMemory(c, aw)
  BY <1>1, FaultsCount DEF NoMemory
<1>2. CASE SubmitFails(c, aw, fd)
  BY <1>2, FaultsCount DEF SubmitFails
<1>3. CASE Submitted(c, aw, fd)
  BY <1>3, SubmissionLeft DEF Submitted, Submit
<1>4. CASE NoSqe(c, aw) \/ AwaitNothing(c, aw)
  BY <1>4 DEF NoSqe, AwaitNothing, LeftByFailures, Hindered, ring
<1> QED
  BY <1>1, <1>2, <1>3, <1>4 DEF AwaitSuspend

\* Every step leaves SQEs in the ring only after a failure.
LEMMA StepLeft ==
  ASSUME Types, LeftByFailures, [Next]_vars
  PROVE  LeftByFailures'
<1>1. ASSUME NEW c \in Client, Calling(c) PROVE LeftByFailures'
  <2>1. \E aw, fd : AwaitSuspend(c, aw, fd) \/ AwaitNothing(c, aw)
    BY <1>1 DEF Calling, Connect, SleepFor, Transfer
  <2> QED
    BY <2>1, AwaitLeft
<1>2. CASE UNCHANGED <<queued, faults>>
  BY <1>2 DEF LeftByFailures, Hindered
<1>3. CASE StopWakes
  <2>1. \/ UNCHANGED <<queued, faults>>
        \/ \E left \in 0..queued : Submission(left) /\ UNCHANGED faults
        \/ faults.submit > 0 /\ faults' = [faults EXCEPT !.submit = @ - 1]
    BY <1>3 DEF StopWakes, ring
  <2> QED
    BY <1>2, <2>1, SubmissionLeft, FaultsCount
<1>4. CASE Destroy
  BY <1>4 DEF Destroy, LeftByFailures, Hindered
<1>5. ASSUME NEW c \in Client,
             \/ Start(c) \/ ConnectFails(c) \/ Close(c) \/ Resume(c) \/ Finish(c)
             \/ \E d \in Client : CopySocket(c, d) \/ MoveSocket(c, d)
      PROVE  UNCHANGED <<queued, faults>>
  BY <1>5 DEF Start, ConnectFails, Close, Resume, Finish, CopySocket, MoveSocket, ring
<1>6. ASSUME NEW op \in inflight, NEW res \in Results(op), Complete(op, res)
      PROVE  UNCHANGED <<queued, faults>>
  BY <1>6 DEF Complete, ring
<1>7. ASSUME \/ RunBegins \/ CheckRunning \/ WaitInterrupted \/ HandleCqe \/ CqeSeen
             \/ StopStores \/ UNCHANGED vars
      PROVE  UNCHANGED <<queued, faults>>
  BY <1>7 DEF RunBegins, CheckRunning, WaitInterrupted, HandleCqe, CqeSeen, StopStores, ring, vars
<1> QED
  BY <1>1, <1>2, <1>3, <1>4, <1>5, <1>6, <1>7 DEF Next, ClientStep, Calling

-------------------------------------------------------------------------------
(* Handles and files *)

\* Closing the handle of an entry closes its file and no other.
LEMMA CloseMatches ==
  ASSUME Types, FilesMatch, NEW h, CloseHandle(h)
  PROVE  /\ FilesMatch' /\ DOMAIN sockets_' = DOMAIN sockets_ \ {h}
         /\ \A fd \in Fd : fds[fd] # 0 /\ fds'[fd] = 0 => fds[fd] = h
<1>. /\ DOMAIN sockets_ \subseteq Handles /\ sockets_ \in [DOMAIN sockets_ -> Fd]
     /\ fds \in [Fd -> 0..files]
  BY DEF Types, TableTypes
<1>1. CASE h \in DOMAIN sockets_
  <2>1. sockets_' = [g \in DOMAIN sockets_ \ {h} |-> sockets_[g]] /\ fds' = [fds EXCEPT ![sockets_[h]] = 0]
    BY <1>1 DEF CloseHandle
  <2>2. DOMAIN sockets_' = DOMAIN sockets_ \ {h} /\ \A g \in DOMAIN sockets_' : sockets_'[g] = sockets_[g]
    BY <2>1
  <2>3. \A fd \in Fd : fds'[fd] = IF fd = sockets_[h] THEN 0 ELSE fds[fd]
    BY <2>1
  <2>4. \A g \in DOMAIN sockets_' : sockets_[g] # sockets_[h]
    BY <1>1, <2>2 DEF FilesMatch
  <2> QED
    BY <1>1, <2>2, <2>3, <2>4 DEF FilesMatch
<1>2. CASE h \notin DOMAIN sockets_
  BY <1>2 DEF CloseHandle, FilesMatch
<1> QED
  BY <1>1, <1>2

\* connect() makes the file, the handle and the entry of one number.
LEMMA ConnectNumbered ==
  ASSUME Types, Paired, Numbered, NEW c \in Client, Connect(c)
  PROVE  Numbered'
<1> DEFINE sid == next_handle_id_
<1>1. PICK fd \in Fd :
        /\ fds[fd] = 0
        /\ fds' = [fds EXCEPT ![fd] = files + 1] /\ files' = files + 1
        /\ next_handle_id_' = (sid + 1) % HandleMod
        /\ sockets_' = [h \in DOMAIN sockets_ \cup {sid} |->
                          IF h \in DOMAIN sockets_ THEN sockets_[h] ELSE fd]
        /\ conn' = [conn EXCEPT ![c] = files + 1]
        /\ AwaitSuspend(c, NewAwaiter("connect", sid, 0), sockets_'[sid])
  BY DEF Connect
<1>2. /\ files \in Nat /\ fds \in [Fd -> 0..files] /\ DOMAIN sockets_ \subseteq Handles
      /\ sockets_ \in [DOMAIN sockets_ -> Fd] /\ conn \in [Client -> 0..files]
      /\ HandleMod \in Nat \ {0, 1} /\ sock \in [Client -> Handles] /\ sid \in Handles
      /\ awaiter \in [Client -> Awaiters]
  BY Constants DEF Types, TableTypes, RingTypes
<1>3. next_handle_id_' = (files' + 1) % HandleMod
  <2>1. (((files + 1) % HandleMod) + 1) % HandleMod = ((files + 1) + 1) % HandleMod
    <3> DEFINE M(x) == x % HandleMod
    <3>1. \A n, k \in Int : M(M(n) + k) = M(n + k)
      BY <1>2, ModAdd
    <3> HIDE DEF M
    <3>2. M(M(files + 1) + 1) = M((files + 1) + 1)
      BY <1>2, <3>1
    <3> QED
      BY <3>2, Zenon DEF M
  <2> QED
    BY <1>1, <2>1 DEF Numbered
<1>4. ASSUME NoWrap' PROVE FilesMatch' /\ HoldersMatch' /\ EntriesHeld'
  <2>1. files + 1 < HandleMod /\ FilesMatch /\ HoldersMatch /\ EntriesHeld
    BY <1>1, <1>2, <1>4 DEF NoWrap, Numbered
  <2>2. sid = files + 1
    <3>1. ((files + 1) % HandleMod) = files + 1
      BY <1>2, <2>1, ModOneTurn
    <3> QED
      BY <3>1 DEF Numbered
  <2>3. sid \notin DOMAIN sockets_
    <3>1. \A h \in DOMAIN sockets_ : h <= files
      BY <1>2, <2>1 DEF FilesMatch
    <3> QED
      BY <1>2, <2>2, <3>1
  <2>4. /\ DOMAIN sockets_' = DOMAIN sockets_ \cup {sid} /\ sockets_'[sid] = fd
        /\ \A h \in DOMAIN sockets_ : sockets_'[h] = sockets_[h]
    BY <1>1, <2>3
  <2>5. fds'[fd] = sid /\ \A g \in Fd : g # fd => fds'[g] = fds[g]
    BY <1>1, <1>2, <2>2
  <2>6. FilesMatch'
    BY <1>1, <1>2, <2>1, <2>2, <2>4, <2>5 DEF FilesMatch
  <2>7. PICK aw \in Awaiters : /\ aw.kind = "connect" /\ aw.socket_ = sid
                               /\ awaiter' = [awaiter EXCEPT ![c] = aw]
    <3> DEFINE new == NewAwaiter("connect", sid, 0)
    <3>1. new \in Awaiters /\ new.kind = "connect" /\ new.socket_ = sid
      <4>1. "connect" \in Kinds /\ next_handle_id_ \in Handles /\ 0 \in Nat
        BY <1>2 DEF Kinds
      <4>2. /\ NewAwaiter("connect", next_handle_id_, 0) \in Awaiters
            /\ NewAwaiter("connect", next_handle_id_, 0).kind = "connect"
            /\ NewAwaiter("connect", next_handle_id_, 0).socket_ = next_handle_id_
        BY <4>1, AwaitersMade
      <4> QED
        BY <4>2, Zenon
    <3>2. Returned(c, new) \/ Asked(c, new)
      BY <1>1, <3>1, AwaitOutcome
    <3> HIDE DEF new
    <3> QED
      BY <3>1, <3>2 DEF Returned, Asked
  <2>8. /\ sock[c] = 0 /\ UNCHANGED <<sock, dropped, alive>> /\ at[c] = "run"
        /\ conn'[c] = sid /\ \A d \in Client : d # c => conn'[d] = conn[d]
    BY <1>1, <1>2, <2>2, CallBegins DEF Connect, control
  <2>9. awaiter'[c] = aw /\ \A d \in Client : d # c => awaiter'[d] = awaiter[d]
    BY <1>2, <2>7
  <2>10. ~Connects(c)
    BY <2>8 DEF Connects, Paired
  <2>11. HoldersMatch'
    BY <1>2, <2>1, <2>2, <2>7, <2>8, <2>9 DEF HoldersMatch, Connects
  <2>12. EntriesHeld'
    BY <2>1, <2>4, <2>7, <2>8, <2>9, <2>10 DEF EntriesHeld, Connects
  <2> QED
    BY <2>6, <2>11, <2>12
<1> QED
  BY <1>3, <1>4 DEF Numbered

\* Steps that leave the tables and the Sockets alone.
LEMMA HoldersKept ==
  ASSUME Numbered, UNCHANGED <<tables, sock, conn>>, alive' => alive,
         \A c \in Client : Connects(c)' <=> Connects(c),
         \A c \in Client : Connects(c) => awaiter'[c].socket_ = awaiter[c].socket_
  PROVE  Numbered'
BY DEF Numbered, NoWrap, FilesMatch, HoldersMatch, EntriesHeld, tables, Connects

\* Every step keeps handles and files alike.
LEMMA StepNumbered ==
  ASSUME Types, Paired, Numbered, [Next]_vars
  PROVE  Numbered'
<1>. /\ awaiter \in [Client -> Awaiters] /\ sock \in [Client -> Handles] /\ conn \in [Client -> 0..files]
     /\ files \in Nat
  BY DEF Types, RingTypes, TableTypes
<1>1. ASSUME NEW c \in Client, Connect(c) PROVE Numbered'
  BY <1>1, ConnectNumbered
<1>2. ASSUME NEW c \in Client, SleepFor(c) \/ \E len \in 0..MaxLen : Transfer(c, "send", len) \/ Transfer(c, "recv", len)
      PROVE  Numbered'
  <2>1. UNCHANGED <<tables, sock, conn, alive>>
    BY <1>2 DEF SleepFor, Transfer, control
  <2>2. PICK kind \in {"send", "recv", "sleep"}, aw \in Awaiters :
          aw.kind = kind /\ (Returned(c, aw) \/ Asked(c, aw))
    <3>1. PICK kind \in {"send", "recv", "sleep"}, h \in Handles, len \in Nat :
            \E fd : AwaitSuspend(c, NewAwaiter(kind, h, len), fd) \/ AwaitNothing(c, NewAwaiter(kind, h, len))
      <4>1. CASE SleepFor(c)
        <5>1. 0 \in Handles
          BY Constants DEF Handles
        <5> QED
          BY <4>1, <5>1 DEF SleepFor
      <4>2. ASSUME NEW len \in 0..MaxLen, NEW kind \in {"send", "recv"}, Transfer(c, kind, len)
            PROVE  \E fd : \/ AwaitSuspend(c, NewAwaiter(kind, sock[c], len), fd)
                           \/ AwaitNothing(c, NewAwaiter(kind, sock[c], len))
        BY <4>2 DEF Transfer
      <4> QED
        BY <1>2, <4>1, <4>2, Constants
    <3>2. kind \in Kinds
      BY DEF Kinds
    <3>3. NewAwaiter(kind, h, len) \in Awaiters /\ NewAwaiter(kind, h, len).kind = kind
      BY <3>2, AwaitersMade
    <3> QED
      BY <3>1, <3>3, AwaitOutcome
  <2>3. \E w \in Awaiters : w.kind = kind /\ awaiter' = [awaiter EXCEPT ![c] = w]
    <3>1. CASE Returned(c, aw)
      <4>1. \E w \in Awaiters : w.kind = aw.kind /\ awaiter' = [awaiter EXCEPT ![c] = w]
        BY <3>1, Zenon DEF Returned
      <4>2. aw.kind = kind
        BY <2>2
      <4> QED
        BY <4>1, <4>2, Zenon
    <3>2. CASE Asked(c, aw)
      <4>1. awaiter' = [awaiter EXCEPT ![c] = aw]
        BY <3>2, Zenon DEF Asked
      <4> QED
        BY <2>2, <4>1, Zenon
    <3> QED
      BY <2>2, <3>1, <3>2
  <2>4. ~Connects(c)
    <3>1. at[c] = "run"
      BY <1>2, CallOutcome, CallBegins DEF Calling
    <3> QED
      BY <3>1 DEF Paired, Connects
  <2>5. ~Connects(c)' /\ \A d \in Client : d # c => awaiter'[d] = awaiter[d]
    BY <2>3 DEF Connects
  <2> QED
    BY <2>1, <2>4, <2>5, HoldersKept DEF Connects
<1>3. ASSUME NEW c \in Client, Close(c) PROVE Numbered'
  <2>1. /\ CloseHandle(sock[c]) /\ sock[c] # 0 /\ at[c] = "run"
        /\ sock' = [sock EXCEPT ![c] = 0] /\ conn' = [conn EXCEPT ![c] = 0]
        /\ UNCHANGED <<next_handle_id_, files, dropped, awaiter, alive>>
    BY <1>3 DEF Close, Runs, control
  <2>2. ASSUME NoWrap PROVE FilesMatch' /\ HoldersMatch' /\ EntriesHeld'
    <3>1. FilesMatch /\ HoldersMatch /\ EntriesHeld
      BY <2>2 DEF Numbered
    <3>2. FilesMatch' /\ DOMAIN sockets_' = DOMAIN sockets_ \ {sock[c]}
      BY <2>1, <3>1, CloseMatches
    <3>3. ~Connects(c)
      BY <2>1 DEF Paired, Connects
    <3> QED
      BY <2>1, <3>1, <3>2, <3>3 DEF HoldersMatch, EntriesHeld, Connects
  <2> QED
    BY <2>1, <2>2 DEF Numbered, NoWrap
<1>4. ASSUME NEW c \in Client, NEW d \in Client, CopySocket(c, d) PROVE Numbered'
  <2>1. /\ at[c] = "run" /\ UNCHANGED <<sockets_, next_handle_id_, fds, files, awaiter, alive>>
        /\ sock' = [sock EXCEPT ![c] = sock[d]] /\ conn' = [conn EXCEPT ![c] = FileOf(d)]
        /\ dropped' = dropped \cup ({sock[c]} \ ({0} \cup Range(sock')))
    BY <1>4, CallBegins DEF CopySocket, control
  <2>2. ~Connects(c)
    BY <2>1 DEF Paired, Connects
  <2>3. ASSUME NoWrap, HoldersMatch PROVE HoldersMatch'
    BY <2>1, <2>2, <2>3 DEF HoldersMatch, Connects, FileOf
  <2>4. ASSUME NoWrap, FilesMatch, EntriesHeld PROVE EntriesHeld'
    <3>1. ASSUME NEW h \in DOMAIN sockets_' \ dropped', alive'
          PROVE  \E e \in Client : sock'[e] = h \/ (Connects(e) /\ awaiter[e].socket_ = h)
      <4>1. h # 0 /\ h \in DOMAIN sockets_ \ dropped /\ alive
        BY <2>1, <2>4, <3>1 DEF FilesMatch
      <4>2. PICK e \in Client : sock[e] = h \/ (Connects(e) /\ awaiter[e].socket_ = h)
        BY <2>4, <4>1 DEF EntriesHeld
      <4>3. CASE e # c \/ Connects(e)
        BY <2>1, <2>2, <4>2, <4>3
      <4>4. CASE e = c /\ sock[c] = h
        <5>1. h \in Range(sock')
          BY <2>1, <3>1, <4>1, <4>4
        <5>2. DOMAIN sock' = Client
          BY <2>1
        <5> QED
          BY <5>1, <5>2 DEF Range
      <4> QED
        BY <4>2, <4>3, <4>4
    <3> QED
      BY <2>1, <3>1 DEF EntriesHeld, Connects
  <2> QED
    BY <2>1, <2>3, <2>4 DEF Numbered, NoWrap, FilesMatch
<1>12. ASSUME NEW c \in Client, NEW d \in Client, MoveSocket(c, d) PROVE Numbered'
  <2>1. /\ at[c] = "run" /\ c # d /\ UNCHANGED <<next_handle_id_, files, dropped, awaiter, alive>>
        /\ sock' = [sock EXCEPT ![c] = sock[d], ![d] = 0]
        /\ conn' = [conn EXCEPT ![c] = FileOf(d), ![d] = IF sock[d] = 0 THEN @ ELSE 0]
        /\ IF sock[c] # 0 THEN CloseHandle(sock[c]) ELSE UNCHANGED <<fds, sockets_>>
    BY <1>12, CallBegins DEF MoveSocket, control
  <2>2. ~Connects(c)
    BY <2>1 DEF Paired, Connects
  <2>3. /\ sock'[c] = sock[d] /\ sock'[d] = 0 /\ conn'[c] = FileOf(d)
        /\ conn'[d] = IF sock[d] = 0 THEN conn[d] ELSE 0
        /\ \A e \in Client : e # c /\ e # d => sock'[e] = sock[e] /\ conn'[e] = conn[e]
    BY <2>1
  <2>4. ASSUME NoWrap PROVE FilesMatch' /\ HoldersMatch' /\ EntriesHeld'
    <3>1. FilesMatch /\ HoldersMatch /\ EntriesHeld
      BY <2>4 DEF Numbered
    <3>2. FilesMatch' /\ DOMAIN sockets_' = DOMAIN sockets_ \ ({sock[c]} \ {0})
      <4>1. CASE sock[c] # 0
        BY <2>1, <3>1, <4>1, CloseMatches
      <4>2. CASE sock[c] = 0
        BY <2>1, <3>1, <4>2 DEF FilesMatch
      <4> QED
        BY <4>1, <4>2
    <3>3. HoldersMatch'
      BY <2>1, <2>2, <2>3, <3>1 DEF HoldersMatch, Connects, FileOf
    <3>4. EntriesHeld'
      <4>1. ASSUME NEW h \in DOMAIN sockets_' \ dropped', alive'
            PROVE  \E e \in Client : sock'[e] = h \/ (Connects(e) /\ awaiter[e].socket_ = h)
        <5>1. h # 0 /\ h # sock[c] /\ h \in DOMAIN sockets_ \ dropped /\ alive
          BY <2>1, <3>1, <3>2, <4>1 DEF FilesMatch
        <5>2. PICK e \in Client : sock[e] = h \/ (Connects(e) /\ awaiter[e].socket_ = h)
          BY <3>1, <5>1 DEF EntriesHeld
        <5> QED
          BY <2>3, <5>1, <5>2
      <4> QED
        BY <2>1, <4>1 DEF EntriesHeld, Connects
    <3> QED
      BY <3>2, <3>3, <3>4
  <2> QED
    BY <2>1, <2>4 DEF Numbered, NoWrap
<1>5. ASSUME NEW c \in Client, Resume(c) PROVE Numbered'
  <2>1. /\ awaiter' = [awaiter EXCEPT ![c] = NoAwaiter] /\ UNCHANGED <<next_handle_id_, files, dropped, alive>>
    BY <1>5 DEF Resume, control
  <2>2. ~Connects(c)' /\ \A d \in Client : d # c => awaiter'[d] = awaiter[d]
    BY <2>1 DEF Connects, NoAwaiter, NewAwaiter
  <2>3. ASSUME NoWrap PROVE FilesMatch' /\ HoldersMatch' /\ EntriesHeld'
    <3>1. FilesMatch /\ HoldersMatch /\ EntriesHeld
      BY <2>3 DEF Numbered
    <3>2. CASE ~Connects(c)
      <4>1. UNCHANGED <<fds, sockets_, sock, conn>>
        BY <1>5, <3>2 DEF Resume, Connects
      <4> QED
        BY <2>1, <2>2, <3>1, <3>2, <4>1 DEF FilesMatch, HoldersMatch, EntriesHeld, Connects
    <3>3. CASE /\ Connects(c) /\ CloseHandle(awaiter[c].socket_)
               /\ conn' = [conn EXCEPT ![c] = 0] /\ UNCHANGED sock
      <4>1. FilesMatch' /\ DOMAIN sockets_' = DOMAIN sockets_ \ {awaiter[c].socket_}
        BY <3>1, <3>3, CloseMatches
      <4> QED
        BY <2>1, <2>2, <3>1, <3>3, <4>1 DEF HoldersMatch, EntriesHeld, Connects
    <3>4. CASE /\ Connects(c) /\ sock' = [sock EXCEPT ![c] = awaiter[c].socket_]
               /\ UNCHANGED <<fds, sockets_, conn>>
      BY <2>1, <2>2, <3>1, <3>4 DEF FilesMatch, HoldersMatch, EntriesHeld, Connects
    <3> QED
      BY <1>5, <3>2, <3>3, <3>4 DEF Resume, Connects
  <2> QED
    BY <2>1, <2>3 DEF Numbered, NoWrap
<1>6. CASE HandleCqe
  <2>1. UNCHANGED <<tables, sock, conn, alive>>
    BY <1>6 DEF HandleCqe
  <2>2. CASE awaiter' = awaiter
    BY <2>1, <2>2, HoldersKept DEF Connects
  <2>3. CASE awaiter' # awaiter
    <3> DEFINE a == Head(cq).data
               c == heap[a].coro
    <3>1. Head(cq) \in [data : Data, res : Int]
      <4>1. cq # << >> /\ cq \in Seq([data : Data, res : Int])
        BY <1>6 DEF HandleCqe, Types, ControlTypes
      <4> QED
        BY <4>1, HeadTailProperties
    <3>2. /\ a # Null /\ heap[a] # Free
          /\ awaiter' = [awaiter EXCEPT ![c] = OnComplete(@, Head(cq).res)]
      BY <1>6, <2>3 DEF HandleCqe
    <3>3. a \in Addr /\ heap[a] \in OperationData /\ c \in Client
      BY <3>1, <3>2 DEF Data, Types, RingTypes, OperationData
    <3>4. awaiter[c].kind \in Kinds /\ awaiter[c] \in Awaiters
      BY <3>2, <3>3 DEF Paired, OperationData
    <3> DEFINE w == OnComplete(awaiter[c], Head(cq).res)
    <3>5. w \in Awaiters /\ w.kind = awaiter[c].kind /\ w.socket_ = awaiter[c].socket_
      BY <3>1, <3>4, CompletedAwaiter
    <3>6. awaiter' = [awaiter EXCEPT ![c] = w]
      BY <3>2
    <3> HIDE DEF a, c, w
    <3>7. \A d \in Client : awaiter'[d].kind = awaiter[d].kind /\ awaiter'[d].socket_ = awaiter[d].socket_
      BY <3>3, <3>5, <3>6
    <3> QED
      BY <2>1, <3>7, HoldersKept DEF Connects
  <2> QED
    BY <2>2, <2>3
<1>7. CASE Destroy
  <2>1. /\ sockets_' = << >> /\ ~alive' /\ UNCHANGED <<next_handle_id_, files, sock, conn, awaiter>>
        /\ fds' = [fd \in Fd |-> IF \E h \in DOMAIN sockets_ : sockets_[h] = fd THEN 0 ELSE fds[fd]]
    BY <1>7 DEF Destroy, clients
  <2>2. ASSUME NoWrap PROVE FilesMatch'
    <3>1. FilesMatch
      BY <2>2 DEF Numbered
    <3>2. \A fd \in Fd : fds'[fd] = 0
      BY <2>1, <3>1 DEF FilesMatch
    <3> QED
      BY <2>1, <3>2 DEF FilesMatch
  <2> QED
    BY <2>1, <2>2 DEF Numbered, NoWrap, HoldersMatch, EntriesHeld, Connects
<1>8. CASE UNCHANGED <<tables, sock, conn, awaiter, alive>>
  BY <1>8, HoldersKept DEF Connects
<1>9. ASSUME NEW c \in Client, Start(c) \/ ConnectFails(c) \/ Finish(c)
      PROVE  UNCHANGED <<tables, sock, conn, awaiter, alive>>
  BY <1>9 DEF Start, ConnectFails, Finish, control
<1>10. ASSUME NEW op \in inflight, NEW res \in Results(op), Complete(op, res)
       PROVE  UNCHANGED <<tables, sock, conn, awaiter, alive>>
  BY <1>10 DEF Complete, control
<1>11. ASSUME RunBegins \/ CheckRunning \/ WaitInterrupted \/ CqeSeen \/ StopStores \/ StopWakes \/ UNCHANGED vars
       PROVE  UNCHANGED <<tables, sock, conn, awaiter, alive>>
  BY <1>11 DEF RunBegins, CheckRunning, WaitInterrupted, CqeSeen, StopStores, StopWakes, clients, control, vars
<1> QED
  BY <1>1, <1>2, <1>3, <1>4, <1>5, <1>6, <1>7, <1>8, <1>9, <1>10, <1>11, <1>12 DEF Next, ClientStep

\* A step that closes a file belongs to its holder, who lets go of it.
LEMMA StepClosesOwn ==
  ASSUME Types, Paired, Numbered, NoWrap, [Next]_vars, NEW fd \in Fd, fds[fd] # 0, fds'[fd] = 0, alive'
  PROVE  \E c \in Client : conn[c] = fds[fd] /\ conn'[c] # conn[c]
<1>. FilesMatch /\ HoldersMatch /\ conn \in [Client -> 0..files] /\ files \in Nat /\ fds \in [Fd -> 0..files]
  BY DEF Numbered, Types, TableTypes
<1>1. ASSUME NEW c \in Client, Close(c) PROVE conn[c] = fds[fd] /\ conn'[c] # conn[c]
  <2>1. CloseHandle(sock[c]) /\ sock[c] # 0 /\ conn' = [conn EXCEPT ![c] = 0]
    BY <1>1 DEF Close
  <2>2. fds[fd] = sock[c]
    BY <2>1, CloseMatches
  <2> QED
    BY <2>1, <2>2 DEF HoldersMatch
<1>2. ASSUME NEW c \in Client, Resume(c) PROVE conn[c] = fds[fd] /\ conn'[c] # conn[c]
  <2>1. Connects(c) /\ CloseHandle(awaiter[c].socket_) /\ conn' = [conn EXCEPT ![c] = 0]
    BY <1>2 DEF Resume, Connects
  <2>2. fds[fd] = awaiter[c].socket_
    BY <2>1, CloseMatches
  <2> QED
    BY <2>1, <2>2 DEF HoldersMatch
<1>9. ASSUME NEW c \in Client, NEW d \in Client, MoveSocket(c, d)
      PROVE  \E e \in Client : conn[e] = fds[fd] /\ conn'[e] # conn[e]
  <2>1. /\ CloseHandle(sock[c]) /\ sock[c] # 0 /\ c # d
        /\ conn' = [conn EXCEPT ![c] = FileOf(d), ![d] = IF sock[d] = 0 THEN @ ELSE 0]
    BY <1>9 DEF MoveSocket
  <2>2. conn[c] = fds[fd]
    <3>1. fds[fd] = sock[c]
      BY <2>1, CloseMatches
    <3> QED
      BY <2>1, <3>1 DEF HoldersMatch
  <2>3. conn'[c] = FileOf(d) /\ (sock[d] # 0 => conn'[d] = 0)
    BY <2>1
  <2>4. CASE conn'[c] # conn[c]
    BY <2>2, <2>4
  <2>5. CASE FileOf(d) = conn[c]
    <3>1. sock[d] # 0 /\ conn[d] = fds[fd]
      BY <2>2, <2>5 DEF FileOf
    <3> QED
      BY <2>3, <3>1
  <2> QED
    BY <2>3, <2>4, <2>5
<1>3. ASSUME NEW c \in Client, Connect(c) PROVE FALSE
  <2>1. PICK f \in Fd : fds' = [fds EXCEPT ![f] = files + 1]
    BY <1>3 DEF Connect
  <2> QED
    BY <2>1
<1>4. CASE Destroy
  BY <1>4 DEF Destroy
<1>5. CASE UNCHANGED fds
  BY <1>5
<1>6. ASSUME NEW c \in Client,
             \/ Start(c) \/ ConnectFails(c) \/ SleepFor(c) \/ Finish(c)
             \/ \E len \in 0..MaxLen : Transfer(c, "send", len) \/ Transfer(c, "recv", len)
             \/ \E d \in Client : CopySocket(c, d)
      PROVE  UNCHANGED fds
  BY <1>6 DEF Start, ConnectFails, SleepFor, Finish, Transfer, CopySocket, tables
<1>7. ASSUME NEW op \in inflight, NEW res \in Results(op), Complete(op, res)
      PROVE  UNCHANGED fds
  BY <1>7 DEF Complete, tables
<1>8. ASSUME \/ RunBegins \/ CheckRunning \/ WaitInterrupted \/ HandleCqe \/ CqeSeen
             \/ StopStores \/ StopWakes \/ UNCHANGED vars
      PROVE  UNCHANGED fds
  BY <1>8 DEF RunBegins, CheckRunning, WaitInterrupted, HandleCqe, CqeSeen, StopStores, StopWakes, tables, vars
<1> QED
  BY <1>1, <1>2, <1>3, <1>4, <1>5, <1>6, <1>7, <1>8, <1>9 DEF Next, ClientStep

-------------------------------------------------------------------------------
(* The invariant, and what it says *)

\* A new proactor satisfies the invariant.
LEMMA InitIInv ==
  Init => IInv
<1> SUFFICES ASSUME Init PROVE IInv
  OBVIOUS
<1>. /\ Entries \in Nat \ {0} /\ HandleMod \in Nat \ {0, 1}
     /\ AllocFailures \in Nat /\ SubmitFailures \in Nat
  BY Constants
<1>1. NoAwaiter \in Awaiters /\ NoAwaiter.kind = "none" /\ NoAwaiter.socket_ = 0
  BY DEF NoAwaiter, NewAwaiter, Awaiters, Handles
<1>2. BlankSqe \in Sqes
  BY DEF BlankSqe, Sqe, LoopNop, Sqes, Owners, Data
<1>3. RingTypes
  BY <1>1, <1>2 DEF Init, RingTypes
<1>4. TableTypes
  BY DEF Init, TableTypes, Handles
<1>5. ControlTypes
  <2>1. cq \in Seq([data : Data, res : Int])
    BY DEF Init
  <2>2. loop = "off" /\ running_ = FALSE /\ alive = TRUE
    BY DEF Init
  <2>3. truth \in [Client -> Int] /\ calls \in [Client -> Nat]
    BY DEF Init, NoAnswer
  <2> QED
    BY <2>1, <2>2, <2>3 DEF Init, ControlTypes
<1>6. Paired /\ Awaited /\ LeftByFailures
  BY <1>1 DEF Init, Paired, Awaited, LeftByFailures
<1>7. Numbered
  <2>1. (1 % HandleMod) = 1
    BY ModOneTurn
  <2>2. FilesMatch /\ EntriesHeld
    BY DEF Init, FilesMatch, EntriesHeld
  <2>3. HoldersMatch
    BY <1>1 DEF Init, HoldersMatch, Connects
  <2> QED
    BY <2>1, <2>2, <2>3 DEF Init, Numbered
<1> QED
  BY <1>3, <1>4, <1>5, <1>6, <1>7 DEF IInv, Types

\* The invariant is inductive.
THEOREM Invariance == Spec => []IInv
<1>1. IInv /\ [Next]_vars => IInv'
  BY StepTyped, StepAwaited, StepLeft, StepNumbered DEF IInv
<1> QED
  BY InitIInv, <1>1, PTL DEF Spec

\* Every variable of the proactor has its type in every state.
THEOREM TypeCorrect == Spec => []TypeOK
<1>1. IInv => TypeOK
  <2> SUFFICES ASSUME IInv PROVE TypeOK
    OBVIOUS
  <2>. Types /\ RingTypes /\ TableTypes /\ ControlTypes
    BY DEF IInv, Types
  <2>1. \A i \in 0..(Entries - 1) : slots[i].data \in Addr \cup {Null} /\ slots[i].fd \in Fd \cup {0}
    BY DEF RingTypes, Sqes, Data
  <2>2. \A op \in inflight : op.data \in Addr \cup {Null} /\ op.file \in 0..files
    BY DEF RingTypes, TableTypes, Operations, Data
  <2>3. \A i \in 1..Len(cq) : cq[i].data \in Addr \cup {Null}
    <3>1. \A i \in 1..Len(cq) : cq[i] \in [data : Data, res : Int]
      BY ElementOfSeq DEF ControlTypes
    <3> QED
      BY <3>1 DEF Data
  <2>4. \A a \in Addr : heap[a] # Free => heap[a].coro \in Client /\ heap[a].type \in Kinds
    BY DEF RingTypes, OperationData
  <2>5. \A c \in Client : awaiter[c].kind \in Kinds \cup {"none"}
    BY DEF RingTypes, Awaiters
  <2> QED
    BY <2>1, <2>2, <2>3, <2>4, <2>5 DEF TypeOK, RingTypes, TableTypes, ControlTypes, Handles
<1> QED
  BY Invariance, <1>1, PTL

\* Whenever stop() is called and whatever fails, a suspended coroutine's operation is
\* with the kernel or has been answered, or is in the ring, that only after an allocation
\* or a submission has failed: it goes to the kernel then with the next submission.
THEOREM NoneIsStranded == Spec => []NoneStranded
<1>1. IInv => NoneStranded
  <2> SUFFICES ASSUME IInv, alive, NEW c \in Client, at[c] = "suspended"
               PROVE  \E a \in Addr :
                        /\ heap[a] # Free /\ heap[a].coro = c
                        /\ \/ \E op \in inflight : op.data = a
                           \/ \E i \in Unhandled : cq[i].data = a
                           \/ Hindered /\ \E sqe \in Unsubmitted(slots, tail, queued) : sqe.data = a
    BY DEF NoneStranded
  <2>1. PICK a \in Addr : heap[a] # Free /\ heap[a].coro = c
    BY DEF IInv, Paired
  <2>2. OnItsWay(a) \/ \E i \in Unhandled : cq[i].data = a
    BY <2>1 DEF IInv, Awaited
  <2>3. InRing(a) => Hindered
    <3>1. queued = 0 => ~InRing(a)
      BY DEF InRing, Unsubmitted
    <3> QED
      BY <3>1 DEF IInv, LeftByFailures
  <2> QED
    BY <2>1, <2>2, <2>3 DEF OnItsWay, InRing
<1> QED
  BY Invariance, <1>1, PTL

\* Until a handle wraps, sockets_ and the process's descriptors agree, whatever fails and
\* however Sockets are copied and moved; only an entry whose last Socket a copy was
\* assigned over has no one left to close it.
THEOREM DescriptorsAreOwned == Spec /\ []NoWrap => []DescriptorsOwned
<1>1. IInv /\ NoWrap => DescriptorsOwned
  <2> SUFFICES ASSUME IInv, NoWrap PROVE DescriptorsOwned
    OBVIOUS
  <2>1. FilesMatch /\ EntriesHeld
    BY DEF IInv, Numbered
  <2>2. sockets_ \in [DOMAIN sockets_ -> Fd]
    BY DEF IInv, Types, TableTypes
  <2> QED
    BY <2>1, <2>2 DEF DescriptorsOwned, FilesMatch, EntriesHeld, Connects
<1> QED
  BY Invariance, <1>1, PTL

\* Until a handle wraps, no copy of a Socket that was closed closes the connection
\* that got its descriptor: only its holder closes a connection.
THEOREM HoldersClose == Spec /\ []NoWrap => ClosesOwn
<1>1. IInv /\ NoWrap /\ [Next]_vars =>
        [\A fd \in Fd : fds[fd] # 0 /\ fds'[fd] = 0 /\ alive' =>
           \E c \in Client : conn[c] = fds[fd] /\ conn'[c] # conn[c]]_vars
  BY StepClosesOwn DEF IInv
<1> QED
  BY Invariance, <1>1, PTL DEF Spec, ClosesOwn

================================================================================
