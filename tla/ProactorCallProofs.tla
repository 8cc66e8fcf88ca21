--------------------------- MODULE ProactorCallProofs ---------------------------
(******************************************************************************)
(* Theorems of Proactor that need to know that await_suspend() does not fail  *)
(* half way: as long as memory is there and io_uring_submit takes what it is  *)
(* given, no SQE is left behind in the ring, so every operation the kernel    *)
(* has was asked for by a coroutine that is still waiting for it.             *)
(*                                                                            *)
(* Without that they are false: an SQE that a failed call leaves behind is    *)
(* submitted with a later one, names an OperationData that is freed or is     *)
(* another's by then, and a descriptor that may have been closed.             *)
(******************************************************************************)
EXTENDS ProactorProofs

\* Neither an allocation nor a submission fails.
Faultless == AllocFailures = 0 /\ SubmitFailures = 0

\* Nothing is left behind in the ring, and nothing will fail.
Unhindered == queued = 0 /\ faults.alloc = 0 /\ faults.submit = 0

\* The completions on their way go to different OperationData objects, each alive.
Once ==
  /\ \A op \in inflight : op.data # Null =>
       /\ heap[op.data] # Free
       /\ \A other \in inflight : other.data = op.data => other = op
       /\ \A i \in Unhandled : cq[i].data # op.data
  /\ \A i \in Unhandled : cq[i].data # Null =>
       /\ heap[cq[i].data] # Free
       /\ \A k \in Unhandled : cq[k].data = cq[i].data => k = i

\* What the kernel may answer a call with.
Replies(kind) ==
  IF kind = "connect" THEN {0, Failed} ELSE IF kind = "sleep" THEN {Failed} ELSE Failed..MaxLen

\* The operation at an OperationData is the current call of its coroutine, and the
\* coroutine's answer is the one in the completion queue.
Addressed ==
  /\ \A op \in inflight :
       IF op.data = Null
       THEN op.owner.who = Null
       ELSE LET c == heap[op.data].coro IN
            /\ op.owner.who = c /\ op.owner.call = calls[c] /\ ~op.owner.stale
            /\ op.kind = heap[op.data].type /\ op.len \in 0..MaxLen
            /\ truth[c] = NoAnswer
  /\ \A i \in Unhandled : cq[i].data # Null =>
       /\ cq[i].res = truth[heap[cq[i].data].coro]
       /\ cq[i].res \in Replies(heap[cq[i].data].type)

\* The inductive invariant of a proactor that nothing fails in, together with IInv.
CallIInv == Unhindered /\ Once /\ Addressed

-------------------------------------------------------------------------------
(* The calls *)

\* A call that its guards refuse returns at once, with no byte sent or received.
Declines(c) ==
  /\ at' = [at EXCEPT ![c] = "resume"] /\ UNCHANGED <<heap, inflight>>
  /\ \E k \in {"send", "recv"}, h \in Handles, len \in Nat :
       awaiter' = [awaiter EXCEPT ![c] = NewAwaiter(k, h, len)]

\* Any other is given to the kernel.
Asks(c, aw, a, op) ==
  /\ at' = [at EXCEPT ![c] = "suspended"] /\ awaiter' = [awaiter EXCEPT ![c] = aw]
  /\ heap[a] = Free /\ heap' = [heap EXCEPT ![a] = [coro |-> c, type |-> aw.kind, handle |-> aw.socket_]]
  /\ inflight' = inflight \cup {op}
  /\ op.data = a /\ op.kind = aw.kind /\ op.len = aw.len
  /\ op.owner.who = c /\ op.owner.call = calls'[c] /\ ~op.owner.stale

\* A submission from an empty ring takes the one SQE there is.
LEMMA SubmittedAlone ==
  ASSUME Types, queued = 0, NEW x,
         slots' = [slots EXCEPT ![tail] = x], tail' = (tail + 1) % Entries,
         \E left \in 0..queued : Submission(left)
  PROVE  queued' = 0 /\ inflight' = inflight \cup {Issue(x, fds')}
<1>1. queued' = 0 /\ inflight' = inflight \cup {Issue(sqe, fds') : sqe \in Taken(slots', tail', 1, 0)}
  BY DEF Submission
<1>2. Taken(slots', tail', 1, 0) = {x}
  <2>1. slots \in [0..(Entries - 1) -> Sqes] /\ tail \in 0..(Entries - 1) /\ Entries \in Nat \ {0}
    BY Constants DEF Types, RingTypes
  <2>2. (tail' - 1) % Entries = tail
    BY <2>1, BeforeTail
  <2>3. slots'[(tail' - 1) % Entries] = x
    BY <2>1, <2>2
  <2>4. Taken(slots', tail', 1, 0) = {slots'[(tail' - i) % Entries] : i \in {1}}
    BY DEF Taken
  <2> QED
    BY <2>3, <2>4
<1> QED
  BY <1>1, <1>2

\* await_suspend() when nothing fails.
LEMMA AwaitSubmits ==
  ASSUME Types, Unhindered, NEW c \in Client, NEW aw, NEW fd, AwaitSuspend(c, aw, fd)
  PROVE  /\ UNCHANGED <<queued, faults>>
         /\ at' = [at EXCEPT ![c] = "suspended"] /\ awaiter' = [awaiter EXCEPT ![c] = aw]
         /\ \E a \in Addr :
              /\ heap[a] = Free
              /\ heap' = [heap EXCEPT ![a] = [coro |-> c, type |-> aw.kind, handle |-> aw.socket_]]
              /\ inflight' = inflight \cup {Issue(Sqe(a, aw.kind, fd, aw.len, Owner(c)), fds')}
<1>1. Submitted(c, aw, fd)
  <2>1. ~NoSqe(c, aw)
    BY Constants DEF NoSqe, Unhindered
  <2>2. ~NoMemory(c, aw) /\ ~SubmitFails(c, aw, fd)
    BY DEF NoMemory, SubmitFails, Unhindered
  <2> QED
    BY <2>1, <2>2 DEF AwaitSuspend
<1> USE DEF Submitted, Submit
<1>2. PICK a \in Addr :
        /\ heap[a] = Free
        /\ heap' = [heap EXCEPT ![a] = [coro |-> c, type |-> aw.kind, handle |-> aw.socket_]]
        /\ slots' = [slots EXCEPT ![tail] = Sqe(a, aw.kind, fd, aw.len, Owner(c))]
  BY <1>1
<1>3. tail' = (tail + 1) % Entries /\ (\E left \in 0..queued : Submission(left)) /\ UNCHANGED faults
  BY <1>1
<1>4. /\ queued' = 0
      /\ inflight' = inflight \cup {Issue(Sqe(a, aw.kind, fd, aw.len, Owner(c)), fds')}
  BY <1>2, <1>3, SubmittedAlone DEF Unhindered
<1> QED
  BY <1>1, <1>2, <1>3, <1>4 DEF Unhindered

\* What the kernel gets is the call.
LEMMA AwaitAsks ==
  ASSUME Types, Unhindered, NEW c \in Client, NEW aw, NEW fd, AwaitSuspend(c, aw, fd)
  PROVE  UNCHANGED <<queued, faults>> /\ \E a \in Addr : \E op : Asks(c, aw, a, op)
<1>1. PICK a \in Addr :
        /\ heap[a] = Free
        /\ heap' = [heap EXCEPT ![a] = [coro |-> c, type |-> aw.kind, handle |-> aw.socket_]]
        /\ inflight' = inflight \cup {Issue(Sqe(a, aw.kind, fd, aw.len, Owner(c)), fds')}
  BY AwaitSubmits
<1> DEFINE op == Issue(Sqe(a, aw.kind, fd, aw.len, Owner(c)), fds')
<1>2. /\ op.data = a /\ op.kind = aw.kind /\ op.len = aw.len /\ op.owner = Owner(c)
  BY DEF Issue, Sqe
<1>3. Owner(c).who = c /\ Owner(c).call = calls'[c] /\ ~Owner(c).stale
  BY DEF Owner
<1>4. inflight' = inflight \cup {op}
  BY <1>1
<1> HIDE DEF op
<1>5. Asks(c, aw, a, op)
  BY <1>1, <1>2, <1>3, <1>4, AwaitSubmits DEF Asks
<1> QED
  BY <1>5, AwaitSubmits

\* A call of a coroutine when nothing fails.
LEMMA CallForms ==
  ASSUME Types, Unhindered, NEW c \in Client, Calling(c)
  PROVE  /\ UNCHANGED <<queued, faults>>
         /\ \/ Declines(c)
            \/ \E k \in Kinds, h \in Handles, len \in 0..MaxLen :
                 \E a \in Addr : \E op : Asks(c, NewAwaiter(k, h, len), a, op)
<1> DEFINE Goal == /\ UNCHANGED <<queued, faults>>
                   /\ \/ Declines(c)
                      \/ \E k \in Kinds, h \in Handles, len \in 0..MaxLen :
                           \E a \in Addr : \E op : Asks(c, NewAwaiter(k, h, len), a, op)
<1>1. ASSUME NEW k \in Kinds, NEW h \in Handles, NEW len \in 0..MaxLen, NEW fd,
             AwaitSuspend(c, NewAwaiter(k, h, len), fd)
      PROVE  Goal
  BY <1>1, AwaitAsks
<1>2. ASSUME NEW k \in {"send", "recv"}, NEW h \in Handles, NEW len \in Nat,
             AwaitNothing(c, NewAwaiter(k, h, len))
      PROVE  Goal
  BY <1>2 DEF AwaitNothing, Declines, ring
<1>. next_handle_id_ \in Handles /\ sock[c] \in Handles /\ 0 \in Handles /\ 0 \in 0..MaxLen
  BY Constants DEF Types, TableTypes, Handles
<1>. {"connect", "send", "recv", "sleep"} \subseteq Kinds /\ 0..MaxLen \subseteq Nat
  BY Constants DEF Kinds
<1> HIDE DEF Goal
<1>3. ASSUME Connect(c) PROVE Goal
  <2>1. \E fd : AwaitSuspend(c, NewAwaiter("connect", next_handle_id_, 0), fd)
    BY <1>3 DEF Connect
  <2> QED
    BY <1>1, <2>1
<1>4. ASSUME SleepFor(c) PROVE Goal
  <2>1. AwaitSuspend(c, NewAwaiter("sleep", 0, 0), 0)
    BY <1>4 DEF SleepFor
  <2> QED
    BY <1>1, <2>1
<1>5. ASSUME NEW len \in 0..MaxLen, NEW k \in {"send", "recv"}, Transfer(c, k, len) PROVE Goal
  <2>1. \/ \E fd : AwaitSuspend(c, NewAwaiter(k, sock[c], len), fd)
        \/ AwaitNothing(c, NewAwaiter(k, sock[c], len))
    BY <1>5 DEF Transfer
  <2> QED
    BY <1>1, <1>2, <2>1
<1>6. Goal
  BY <1>3, <1>4, <1>5, Zenon DEF Calling
<1> QED
  BY <1>6 DEF Goal

-------------------------------------------------------------------------------
(* The invariant *)

\* An OperationData in use belongs to a suspended coroutine.
LEMMA WaitersSuspended ==
  ASSUME Types, Paired, NEW a \in Addr, heap[a] # Free
  PROVE  heap[a].coro \in Client /\ heap[a].type \in Kinds /\ at[heap[a].coro] = "suspended"
BY DEF Types, RingTypes, Paired, OperationData

\* Operations and completions name an OperationData or none.
LEMMA DataNamed ==
  ASSUME Types
  PROVE  /\ \A op \in inflight : op.data \in Data /\ op \in Operations
         /\ \A i \in Unhandled : cq[i].data \in Data /\ cq[i].res \in Int
         /\ Null \notin Addr
<1>1. \A i \in Unhandled : cq[i] \in [data : Data, res : Int]
  <2>1. cq \in Seq([data : Data, res : Int])
    BY DEF Types, ControlTypes
  <2> QED
    BY <2>1, UnhandledCompletions, ElementOfSeq
<1>2. Null \notin Addr
  BY Constants DEF Null
<1> QED
  BY <1>1, <1>2 DEF Types, RingTypes, Operations

\* A step that leaves the OperationData objects and their completions alone, and the
\* history of the coroutines that wait for them.
LEMMA CallsKept ==
  ASSUME Types, Paired, CallIInv, UNCHANGED <<heap, inflight, cq, queued, faults>>,
         Unhandled' = Unhandled,
         \A d \in Client : at[d] = "suspended" => calls'[d] = calls[d] /\ truth'[d] = truth[d]
  PROVE  CallIInv'
<1>1. Unhindered'
  BY DEF CallIInv, Unhindered
<1>2. Once'
  BY DEF CallIInv, Once
<1>3. Addressed'
  BY WaitersSuspended, DataNamed DEF CallIInv, Addressed, Once, Data
<1> QED
  BY <1>1, <1>2, <1>3 DEF CallIInv

\* A new call.
LEMMA CallingKeeps ==
  ASSUME Types, Paired, CallIInv, NEW c \in Client, Calling(c)
  PROVE  CallIInv'
<1>1. /\ at[c] = "run" /\ UNCHANGED <<cq, loop>> /\ UNCHANGED <<queued, faults>>
      /\ calls' = [calls EXCEPT ![c] = @ + 1] /\ truth' = [truth EXCEPT ![c] = NoAnswer]
  BY CallOutcome, CallForms, CallBegins DEF control, CallIInv
<1>2. /\ calls \in [Client -> Nat] /\ truth \in [Client -> Int]
      /\ heap \in [Addr -> {Free} \cup OperationData] /\ awaiter \in [Client -> Awaiters]
  BY DEF Types, ControlTypes, RingTypes
<1>3. \A d \in Client : at[d] = "suspended" => calls'[d] = calls[d] /\ truth'[d] = truth[d]
  BY <1>1, <1>2
<1>4. Unhandled' = Unhandled
  BY <1>1 DEF Unhandled
<1>5. CASE Declines(c)
  BY <1>1, <1>3, <1>4, <1>5, CallsKept DEF Declines
<1>6. ASSUME NEW k \in Kinds, NEW h \in Handles, NEW len \in 0..MaxLen, NEW a \in Addr, NEW op,
             Asks(c, NewAwaiter(k, h, len), a, op)
      PROVE  CallIInv'
  <2>1. /\ heap[a] = Free /\ heap' = [heap EXCEPT ![a] = [coro |-> c, type |-> k, handle |-> h]]
        /\ inflight' = inflight \cup {op} /\ op.data = a /\ op.kind = k /\ op.len = len
        /\ op.owner.who = c /\ op.owner.call = calls'[c] /\ ~op.owner.stale
    BY <1>6 DEF Asks, NewAwaiter
  <2>2. heap'[a] # Free /\ heap'[a].coro = c /\ heap'[a].type = k
    BY <1>2, <2>1, DataNotFree
  <2>3. \A b \in Addr : b # a => heap'[b] = heap[b]
    BY <1>2, <2>1
  <2>4. \A o \in inflight : o.data # a /\ o.data \in Data
    BY <2>1, DataNamed DEF CallIInv, Once
  <2>5. \A i \in Unhandled : cq[i].data # a /\ cq[i].data \in Data
    BY <2>1, DataNamed DEF CallIInv, Once
  <2>6. Unhindered'
    BY <1>1 DEF CallIInv, Unhindered
  <2>7. Once'
    BY <1>1, <1>4, <2>1, <2>2, <2>3, <2>4, <2>5 DEF CallIInv, Once, Data
  <2>8. Addressed'
    <3>1. \A b \in Addr : heap[b] # Free =>
            /\ calls'[heap[b].coro] = calls[heap[b].coro] /\ truth'[heap[b].coro] = truth[heap[b].coro]
      BY <1>3, WaitersSuspended
    <3>2. truth'[c] = NoAnswer
      BY <1>1, <1>2
    <3>3. a # Null
      BY DataNamed
    <3>4. ASSUME NEW o \in inflight'
          PROVE  IF o.data = Null
                 THEN o.owner.who = Null
                 ELSE /\ o.owner.who = heap'[o.data].coro /\ o.owner.call = calls'[heap'[o.data].coro]
                      /\ ~o.owner.stale /\ o.kind = heap'[o.data].type /\ o.len \in 0..MaxLen
                      /\ truth'[heap'[o.data].coro] = NoAnswer
      <4>1. CASE o = op
        BY <2>1, <2>2, <3>2, <3>3, <4>1
      <4>2. CASE o \in inflight
        BY <2>3, <2>4, <3>1, <4>2 DEF CallIInv, Once, Addressed, Data
      <4> QED
        BY <2>1, <4>1, <4>2
    <3>5. ASSUME NEW i \in Unhandled', cq'[i].data # Null
          PROVE  /\ cq'[i].res = truth'[heap'[cq'[i].data].coro]
                 /\ cq'[i].res \in Replies(heap'[cq'[i].data].type)
      <4>1. i \in Unhandled /\ cq'[i] = cq[i] /\ cq[i].data \in Addr /\ cq[i].data # a /\ heap[cq[i].data] # Free
        BY <1>1, <1>4, <2>5, <3>5 DEF Data, CallIInv, Once
      <4>2. heap'[cq[i].data] = heap[cq[i].data]
        BY <2>3, <4>1
      <4>3. cq[i].res = truth[heap[cq[i].data].coro] /\ cq[i].res \in Replies(heap[cq[i].data].type)
        BY <3>5, <4>1 DEF CallIInv, Addressed
      <4> QED
        BY <3>1, <4>1, <4>2, <4>3
    <3> QED
      BY <3>4, <3>5 DEF Addressed
  <2> QED
    BY <2>6, <2>7, <2>8 DEF CallIInv
<1> QED
  BY <1>5, <1>6, CallForms DEF CallIInv

\* The kernel's answer.
LEMMA CompleteKeeps ==
  ASSUME Types, Paired, CallIInv, NEW op \in inflight, NEW res \in Results(op), Complete(op, res)
  PROVE  CallIInv'
<1>1. /\ inflight' = inflight \ {op} /\ cq' = Append(cq, [data |-> op.data, res |-> res])
      /\ UNCHANGED <<queued, faults, heap, loop, calls>>
      /\ truth' = [c \in Client |->
                     IF op.owner.who = c /\ op.owner.call = calls[c] /\ ~op.owner.stale
                     THEN res ELSE truth[c]]
  BY DEF Complete, ring, control
<1>2. Unhindered'
  BY <1>1 DEF CallIInv, Unhindered
<1> DEFINE n == Len(cq) + 1
<1>3. /\ n \in Unhandled' /\ n \notin Unhandled /\ Unhandled' = Unhandled \cup {n}
      /\ cq'[n].data = op.data /\ cq'[n].res = res /\ \A i \in Unhandled : cq'[i] = cq[i]
  <2>1. cq \in Seq([data : Data, res : Int]) /\ (loop = "resumed" => cq # << >>) /\ Len(cq) \in Nat
    BY DEF Types, ControlTypes
  <2>2. /\ Len(cq') = Len(cq) + 1 /\ cq'[Len(cq) + 1] = [data |-> op.data, res |-> res]
        /\ \A i \in 1..Len(cq) : cq'[i] = cq[i]
    BY <1>1, <2>1
  <2>3. loop = "resumed" => Len(cq) >= 1
    BY <2>1, EmptySeq
  <2>4. Unhandled \subseteq 1..Len(cq)
    BY UnhandledCompletions
  <2> QED
    BY <1>1, <2>1, <2>2, <2>3, <2>4 DEF Unhandled
<1> HIDE DEF n
<1>4. Once'
  <2>1. ASSUME NEW o \in inflight', o.data # Null
        PROVE  /\ heap'[o.data] # Free
               /\ \A other \in inflight' : other.data = o.data => other = o
               /\ \A i \in Unhandled' : cq'[i].data # o.data
    <3>1. o \in inflight /\ o # op
      BY <1>1
    <3>2. o.data # op.data
      BY <2>1, <3>1 DEF CallIInv, Once
    <3>3. /\ heap[o.data] # Free
          /\ \A other \in inflight : other.data = o.data => other = o
          /\ \A i \in Unhandled : cq[i].data # o.data
      BY <2>1, <3>1 DEF CallIInv, Once
    <3>4. ASSUME NEW i \in Unhandled' PROVE cq'[i].data # o.data
      BY <1>3, <3>2, <3>3
    <3> QED
      BY <1>1, <3>3, <3>4
  <2>2. ASSUME NEW i \in Unhandled', cq'[i].data # Null
        PROVE  /\ heap'[cq'[i].data] # Free
               /\ \A k \in Unhandled' : cq'[k].data = cq'[i].data => k = i
    <3>1. CASE i = n
      <4>1. heap[op.data] # Free /\ \A k \in Unhandled : cq[k].data # op.data
        BY <1>3, <2>2, <3>1 DEF CallIInv, Once
      <4>2. ASSUME NEW k \in Unhandled', cq'[k].data = op.data PROVE k = n
        BY <1>3, <4>1, <4>2
      <4> QED
        BY <1>1, <1>3, <3>1, <4>1, <4>2
    <3>2. CASE i \in Unhandled
      <4>1. cq'[i] = cq[i] /\ cq[i].data # Null
        BY <1>3, <2>2, <3>2
      <4>2. heap[cq[i].data] # Free /\ \A k \in Unhandled : cq[k].data = cq[i].data => k = i
        BY <3>2, <4>1 DEF CallIInv, Once
      <4>3. cq[i].data # op.data
        BY <3>2, <4>1 DEF CallIInv, Once
      <4>4. ASSUME NEW k \in Unhandled', cq'[k].data = cq'[i].data PROVE k = i
        BY <1>3, <4>1, <4>2, <4>3, <4>4
      <4> QED
        BY <1>1, <4>1, <4>2, <4>4
    <3> QED
      BY <1>3, <3>1, <3>2
  <2> QED
    BY <2>1, <2>2 DEF Once
<1>5. Addressed'
  <2>1. ASSUME NEW a \in Addr, heap[a] # Free, op.data # a
        PROVE  truth'[heap[a].coro] = truth[heap[a].coro]
    <3>1. heap[a].coro \in Client
      BY <2>1, WaitersSuspended
    <3>2. op.owner.who # heap[a].coro
      <4>1. CASE op.data = Null
        BY <3>1, <4>1, ProactorAssumption DEF CallIInv, Addressed
      <4>2. CASE op.data # Null
        <5>1. op.data \in Addr /\ heap[op.data] # Free /\ op.owner.who = heap[op.data].coro
          BY <4>2, DataNamed DEF CallIInv, Addressed, Once, Data
        <5> QED
          BY <2>1, <5>1 DEF Paired
      <4> QED
        BY <4>1, <4>2
    <3> QED
      BY <1>1, <3>1, <3>2
  <2>2. ASSUME NEW o \in inflight'
        PROVE  IF o.data = Null
               THEN o.owner.who = Null
               ELSE /\ o.owner.who = heap'[o.data].coro /\ o.owner.call = calls'[heap'[o.data].coro]
                    /\ ~o.owner.stale /\ o.kind = heap'[o.data].type /\ o.len \in 0..MaxLen
                    /\ truth'[heap'[o.data].coro] = NoAnswer
    <3>1. o \in inflight /\ o # op
      BY <1>1
    <3>2. CASE o.data = Null
      BY <3>1, <3>2 DEF CallIInv, Addressed
    <3>3. CASE o.data # Null
      <4>1. o.data # op.data /\ o.data \in Addr /\ heap[o.data] # Free
        BY <3>1, <3>3, DataNamed DEF CallIInv, Once, Data
      <4>2. truth'[heap[o.data].coro] = truth[heap[o.data].coro]
        BY <2>1, <4>1
      <4> QED
        BY <1>1, <3>1, <3>3, <4>2 DEF CallIInv, Addressed
    <3> QED
      BY <3>2, <3>3
  <2>3. ASSUME NEW i \in Unhandled', cq'[i].data # Null
        PROVE  /\ cq'[i].res = truth'[heap'[cq'[i].data].coro]
               /\ cq'[i].res \in Replies(heap'[cq'[i].data].type)
    <3>1. CASE i = n
      <4>1. op.data # Null /\ op.data \in Addr /\ heap[op.data] # Free
        BY <1>3, <2>3, <3>1, DataNamed DEF CallIInv, Once, Data
      <4>2. /\ op.owner.who = heap[op.data].coro /\ op.owner.call = calls[op.owner.who] /\ ~op.owner.stale
            /\ op.kind = heap[op.data].type /\ op.len \in 0..MaxLen
        BY <4>1 DEF CallIInv, Addressed
      <4>3. heap[op.data].coro \in Client /\ op.kind \in Kinds
        BY <4>1, <4>2, WaitersSuspended
      <4>4. truth'[heap[op.data].coro] = res
        BY <1>1, <4>2, <4>3
      <4>5. res \in Replies(op.kind)
        BY <4>2, <4>3, Constants DEF Results, Replies, Kinds, Failed
      <4> QED
        BY <1>1, <1>3, <3>1, <4>2, <4>4, <4>5
    <3>2. CASE i \in Unhandled
      <4>1. cq'[i] = cq[i] /\ cq[i].data \in Addr /\ cq[i].data # Null /\ heap[cq[i].data] # Free /\ op.data # cq[i].data
        BY <1>3, <2>3, <3>2, DataNamed DEF CallIInv, Once, Data
      <4>2. truth'[heap[cq[i].data].coro] = truth[heap[cq[i].data].coro]
        BY <2>1, <4>1
      <4> QED
        BY <1>1, <3>2, <4>1, <4>2 DEF CallIInv, Addressed
    <3> QED
      BY <1>3, <3>1, <3>2
  <2> QED
    BY <2>2, <2>3 DEF Addressed
<1> QED
  BY <1>2, <1>4, <1>5 DEF CallIInv

\* A step after which the completions still to be handled are among the earlier
\* ones, in the same order, possibly shifted by one.
LEMMA FewerCompletions ==
  ASSUME CallIInv, UNCHANGED <<inflight, queued, faults, calls, truth>>, NEW d \in {0, 1},
         \A i \in Unhandled' : i + d \in Unhandled /\ cq'[i] = cq[i + d] /\ i \in Int,
         \A op \in inflight : op.data # Null => heap'[op.data] = heap[op.data],
         \A i \in Unhandled' : cq'[i].data # Null => heap'[cq'[i].data] = heap[cq'[i].data]
  PROVE  CallIInv'
<1>1. Unhindered'
  BY DEF CallIInv, Unhindered
<1>2. Once'
  <2>1. ASSUME NEW i \in Unhandled', cq'[i].data # Null, NEW k \in Unhandled', cq'[k].data = cq'[i].data
        PROVE  k = i
    <3>1. k + d = i + d
      BY <2>1 DEF CallIInv, Once
    <3> QED
      BY <3>1
  <2>2. \A i \in Unhandled' : cq'[i].data # Null => heap'[cq'[i].data] # Free
    BY DEF CallIInv, Once
  <2>3. ASSUME NEW op \in inflight', op.data # Null
        PROVE  /\ heap'[op.data] # Free
               /\ \A other \in inflight' : other.data = op.data => other = op
               /\ \A i \in Unhandled' : cq'[i].data # op.data
    BY <2>3 DEF CallIInv, Once
  <2> QED
    BY <2>1, <2>2, <2>3 DEF Once
<1>3. Addressed'
  BY DEF CallIInv, Addressed
<1> QED
  BY <1>1, <1>2, <1>3 DEF CallIInv

\* Every step keeps the invariant.
LEMMA StepCalls ==
  ASSUME Types, Paired, CallIInv, [Next]_vars
  PROVE  CallIInv'
<1>a. Len(cq) \in Nat /\ cq \in Seq([data : Data, res : Int]) /\ heap \in [Addr -> {Free} \cup OperationData]
  BY DEF Types, ControlTypes, RingTypes
<1>1. ASSUME NEW c \in Client, Calling(c) PROVE CallIInv'
  BY <1>1, CallingKeeps
<1>2. ASSUME NEW op \in inflight, NEW res \in Results(op), Complete(op, res) PROVE CallIInv'
  BY <1>2, CompleteKeeps
<1>3. ASSUME NEW c \in Client,
             ConnectFails(c) \/ \E d \in Client : CopySocket(c, d) \/ MoveSocket(c, d)
      PROVE  CallIInv'
  <2>1. UNCHANGED <<heap, inflight, cq, queued, faults, loop>> /\ Call(c)
    BY <1>3 DEF ConnectFails, CopySocket, MoveSocket, ring, kernel, control
  <2>2. /\ at[c] = "run" /\ calls \in [Client -> Nat] /\ truth \in [Client -> Int]
        /\ calls' = [calls EXCEPT ![c] = @ + 1] /\ truth' = [truth EXCEPT ![c] = NoAnswer]
    BY <2>1, CallBegins DEF Types, ControlTypes
  <2>3. \A d \in Client : at[d] = "suspended" => calls'[d] = calls[d] /\ truth'[d] = truth[d]
    BY <2>2
  <2>4. Unhandled' = Unhandled
    BY <2>1 DEF Unhandled
  <2> QED
    BY <2>1, <2>3, <2>4, CallsKept
<1>4. CASE UNCHANGED <<heap, inflight, cq, queued, faults, calls, truth, loop>>
  <2>1. Unhandled' = Unhandled
    BY <1>4 DEF Unhandled
  <2> QED
    BY <1>4, <2>1, CallsKept
<1>5. ASSUME NEW c \in Client, Start(c) \/ Close(c) \/ Resume(c) \/ Finish(c)
      PROVE  UNCHANGED <<heap, inflight, cq, queued, faults, calls, truth, loop>>
  BY <1>5 DEF Start, Close, Resume, Finish, ring, kernel, control
<1>6. CASE RunBegins \/ CheckRunning \/ WaitInterrupted
  <2>1. UNCHANGED <<heap, inflight, cq, queued, faults, calls, truth>> /\ loop # "resumed" /\ loop' # "resumed"
    BY <1>6 DEF RunBegins, CheckRunning, WaitInterrupted, ring, kernel, clients
  <2>2. Unhandled' = Unhandled
    BY <2>1 DEF Unhandled
  <2> QED
    BY <2>1, <2>2, CallsKept
<1>7. CASE HandleCqe
  <2>1. /\ loop = "wait" /\ cq # << >>
        /\ UNCHANGED <<inflight, cq, queued, faults, calls, truth>>
    BY <1>7 DEF HandleCqe, ring, kernel
  <2>2. Head(cq) = cq[1] /\ Unhandled = 1..Len(cq) /\ 1 \in Unhandled
    BY <1>a, <2>1, EmptySeq DEF Unhandled
  <2>3. Head(cq).data # Null => heap[Head(cq).data] # Free
    BY <2>2 DEF CallIInv, Once
  <2>4. loop' = "resumed"
    BY <1>7, <2>3 DEF HandleCqe
  <2>5. Unhandled' = 2..Len(cq)
    BY <2>1, <2>4 DEF Unhandled
  <2>6. heap' = heap \/ (Head(cq).data # Null /\ heap' = [heap EXCEPT ![Head(cq).data] = Free])
    BY <1>7, <2>3 DEF HandleCqe
  <2>7. \A i \in Unhandled' : i + 0 \in Unhandled /\ cq'[i] = cq[i + 0] /\ i \in Int /\ i # 1
    BY <1>a, <2>1, <2>2, <2>5
  <2>8. \A op \in inflight : op.data # Null => heap'[op.data] = heap[op.data]
    BY <1>a, <2>2, <2>6, DataNamed DEF CallIInv, Once, Data
  <2>9. \A i \in Unhandled' : cq'[i].data # Null => heap'[cq'[i].data] = heap[cq'[i].data]
    <3> SUFFICES ASSUME NEW i \in Unhandled', cq'[i].data # Null PROVE heap'[cq'[i].data] = heap[cq'[i].data]
      OBVIOUS
    <3>1. cq'[i] = cq[i] /\ i \in Unhandled /\ i # 1 /\ cq[i].data \in Addr
      BY <2>1, <2>2, <2>5, <1>a, DataNamed DEF Data
    <3>2. Head(cq).data # cq[i].data
      BY <2>2, <3>1 DEF CallIInv, Once
    <3> QED
      BY <1>a, <2>6, <3>1, <3>2
  <2> QED
    BY <2>1, <2>7, <2>8, <2>9, FewerCompletions
<1>8. CASE CqeSeen
  <2>1. /\ loop = "resumed" /\ loop' = "check" /\ cq' = Tail(cq) /\ cq # << >>
        /\ UNCHANGED <<inflight, heap, queued, faults, calls, truth>>
    BY <1>8 DEF CqeSeen, Types, ControlTypes, ring, clients
  <2>2. Len(cq') = Len(cq) - 1 /\ \A i \in 1..Len(cq') : cq'[i] = cq[i + 1]
    BY <1>a, <2>1, HeadTailProperties
  <2>3. Unhandled = 2..Len(cq) /\ Unhandled' = 1..(Len(cq) - 1)
    BY <2>1, <2>2 DEF Unhandled
  <2>4. \A i \in Unhandled' : i + 1 \in Unhandled /\ cq'[i] = cq[i + 1] /\ i \in Int
    BY <1>a, <2>2, <2>3
  <2> QED
    BY <2>1, <2>4, FewerCompletions
<1>9. CASE StopStores
  BY <1>4, <1>9 DEF StopStores, ring, kernel, clients
<1>10. CASE StopWakes
  <2>1. UNCHANGED <<cq, heap, loop, calls, truth>>
    BY <1>10 DEF StopWakes, clients
  <2>2. queued < Entries /\ ~(queued = Entries) /\ ~(faults.submit > 0)
    BY Constants DEF CallIInv, Unhindered
  <2>3. /\ slots' = [slots EXCEPT ![tail] = BlankSqe] /\ tail' = (tail + 1) % Entries
        /\ (\E left \in 0..queued : Submission(left)) /\ UNCHANGED faults
    BY <1>10, <2>2 DEF StopWakes
  <2>4. queued' = 0 /\ inflight' = inflight \cup {Issue(BlankSqe, fds')}
    BY <2>3, SubmittedAlone DEF CallIInv, Unhindered
  <2>5. Issue(BlankSqe, fds').data = Null /\ Issue(BlankSqe, fds').owner.who = Null
    BY DEF Issue, BlankSqe, Sqe, LoopNop
  <2>6. /\ inflight \subseteq inflight'
        /\ \A op \in inflight' : op \in inflight \/ (op.data = Null /\ op.owner.who = Null)
    BY <2>4, <2>5
  <2>7. Unhindered'
    BY <2>3, <2>4 DEF CallIInv, Unhindered
  <2>8. Unhandled' = Unhandled
    BY <2>1 DEF Unhandled
  <2>9. Once'
    BY <2>1, <2>6, <2>8 DEF CallIInv, Once
  <2>10. Addressed'
    BY <2>1, <2>6, <2>8 DEF CallIInv, Addressed
  <2> QED
    BY <2>7, <2>9, <2>10 DEF CallIInv
<1>11. CASE Destroy
  <2>1. inflight' = {} /\ cq' = << >> /\ loop' # "resumed" /\ queued' = 0 /\ UNCHANGED faults
    BY <1>11 DEF Destroy
  <2>2. Unhandled' = {}
    BY <2>1 DEF Unhandled
  <2> QED
    BY <2>1, <2>2 DEF CallIInv, Unhindered, Once, Addressed
<1>12. CASE UNCHANGED vars
  BY <1>4, <1>12 DEF vars, ring, kernel, control, clients
<1> QED
  BY <1>1, <1>2, <1>3, <1>4, <1>5, <1>6, <1>7, <1>8, <1>9, <1>10, <1>11, <1>12 DEF Next, ClientStep, Calling

\* A proactor in which nothing fails keeps the invariant.
THEOREM CallInvariance == Faultless => (Spec => []CallIInv)
<1> SUFFICES ASSUME Faultless PROVE Spec => []CallIInv
  OBVIOUS
<1>1. Init => CallIInv
  <2> SUFFICES ASSUME Init PROVE CallIInv
    OBVIOUS
  <2>1. queued = 0 /\ faults.alloc = 0 /\ faults.submit = 0 /\ inflight = {} /\ cq = << >> /\ loop = "off"
    BY DEF Init, Faultless
  <2>2. Unhandled = {}
    BY <2>1 DEF Unhandled
  <2> QED
    BY <2>1, <2>2 DEF CallIInv, Unhindered, Once, Addressed
<1>2. IInv /\ CallIInv /\ [Next]_vars => CallIInv'
  BY StepCalls DEF IInv
<1> QED
  BY <1>1, <1>2, Invariance, PTL DEF Spec

\* When nothing fails, one completion is on its way to each OperationData of a
\* suspended coroutine and none to a freed one: no resume() is lost, doubled or
\* given to a dead frame, whenever calls, answers and stop() come.
THEOREM WakesOnce == Faultless => (Spec => []OneWakeup)
<1> SUFFICES ASSUME Faultless PROVE Spec => []OneWakeup
  OBVIOUS
<1>1. IInv /\ CallIInv => OneWakeup
  <2> SUFFICES ASSUME IInv, CallIInv, alive PROVE OneWakeup
    BY DEF OneWakeup
  <2>1. ASSUME NEW a \in Addr PROVE Wakeups(a) = IF heap[a] = Free THEN 0 ELSE 1
    <3> DEFINE Left == {i \in 1..queued : slots[(tail - i) % Entries].data = a}
               Asked_ == {op \in inflight : op.data = a}
               Answered == {i \in Unhandled : cq[i].data = a}
    <3>1. Wakeups(a) = Cardinality(Left) + Cardinality(Asked_) + Cardinality(Answered)
      BY DEF Wakeups
    <3>2. Cardinality(Left) = 0
      <4>1. Left = {}
        BY DEF CallIInv, Unhindered
      <4> QED
        BY <4>1, FS_EmptySet
    <3>3. a # Null
      BY DataNamed DEF IInv
    <3>4. CASE heap[a] = Free
      <4>1. Asked_ = {} /\ Answered = {}
        BY <3>3, <3>4 DEF CallIInv, Once
      <4>2. Cardinality(Asked_) = 0 /\ Cardinality(Answered) = 0
        BY <4>1, FS_EmptySet
      <4> HIDE DEF Left, Asked_, Answered
      <4> QED
        BY <3>1, <3>2, <3>4, <4>2
    <3>5. CASE heap[a] # Free
      <4>0. ~InRing(a)
        BY DEF InRing, Unsubmitted, CallIInv, Unhindered
      <4>1. CASE \E op \in inflight : op.data = a
        <5>1. PICK op \in inflight : op.data = a
          BY <4>1
        <5>2. Asked_ = {op} /\ Answered = {}
          BY <3>3, <5>1 DEF CallIInv, Once
        <5>3. Cardinality(Asked_) = 1 /\ Cardinality(Answered) = 0
          BY <5>2, FS_Singleton, FS_EmptySet
        <5> HIDE DEF Left, Asked_, Answered
        <5> QED
          BY <3>1, <3>2, <3>5, <5>3
      <4>2. CASE \E i \in Unhandled : cq[i].data = a
        <5>1. PICK i \in Unhandled : cq[i].data = a
          BY <4>2
        <5>2. Answered = {i} /\ Asked_ = {}
          BY <3>3, <5>1 DEF CallIInv, Once
        <5>3. Cardinality(Answered) = 1 /\ Cardinality(Asked_) = 0
          BY <5>2, FS_Singleton, FS_EmptySet
        <5> HIDE DEF Left, Asked_, Answered
        <5> QED
          BY <3>1, <3>2, <3>5, <5>3
      <4> QED
        BY <3>5, <4>0, <4>1, <4>2 DEF IInv, Awaited, OnItsWay
    <3> QED
      BY <3>4, <3>5
  <2> QED
    BY <2>1 DEF OneWakeup, IInv, Paired
<1> QED
  BY <1>1, Invariance, CallInvariance, PTL

\* The loop has not used an OperationData that was freed.
FramesAlive == loop # "undefined"

\* When nothing fails, it never does.
THEOREM NeverUndefined == Faultless => (Spec => []FramesAlive)
<1> SUFFICES ASSUME Faultless PROVE Spec => []FramesAlive
  OBVIOUS
<1>1. Init => FramesAlive
  BY DEF Init, FramesAlive
<1>2. IInv /\ CallIInv /\ FramesAlive /\ [Next]_vars => FramesAlive'
  <2> SUFFICES ASSUME IInv, CallIInv, [Next]_vars, loop' # loop PROVE loop' # "undefined"
    BY DEF FramesAlive
  <2>1. CASE HandleCqe
    <3>1. cq # << >> /\ loop = "wait" /\ cq \in Seq([data : Data, res : Int]) /\ Len(cq) \in Nat
      BY <2>1 DEF HandleCqe, IInv, Types, ControlTypes
    <3>2. Head(cq) = cq[1] /\ 1 \in Unhandled
      BY <3>1, EmptySeq DEF Unhandled
    <3>3. Head(cq).data # Null => heap[Head(cq).data] # Free
      BY <3>2 DEF CallIInv, Once
    <3> QED
      BY <2>1, <3>3 DEF HandleCqe
  <2>2. CASE RunBegins \/ CheckRunning \/ WaitInterrupted \/ CqeSeen
    BY <2>2 DEF RunBegins, CheckRunning, WaitInterrupted, CqeSeen
  <2>3. ASSUME \/ StopStores \/ StopWakes \/ Destroy \/ UNCHANGED vars
               \/ \E c \in Client : Start(c) \/ ConnectFails(c) \/ Close(c) \/ Resume(c) \/ Finish(c)
               \/ \E c \in Client, d \in Client : CopySocket(c, d) \/ MoveSocket(c, d)
               \/ \E op \in inflight : \E res \in Results(op) : Complete(op, res)
        PROVE  loop' = loop
    BY <2>3 DEF StopStores, StopWakes, Destroy, Start, ConnectFails, Close, Resume, Finish, CopySocket,
                MoveSocket, Complete, control, vars
  <2>4. ASSUME NEW c \in Client, Calling(c) PROVE loop' = loop
    BY <2>4, CallOutcome DEF IInv, control
  <2> QED
    BY <2>1, <2>2, <2>3, <2>4 DEF Next, ClientStep, Calling
<1> QED
  BY <1>1, <1>2, Invariance, CallInvariance, PTL DEF Spec

-------------------------------------------------------------------------------
(* Operations and their connections *)

\* await_suspend() for the file its caller's Socket stands for, or for none.
LEMMA AwaitRight ==
  ASSUME Types, Unhindered, RightConnection, NEW c \in Client, NEW aw \in Awaiters, NEW fd,
         aw.kind = "sleep" \/ fds'[fd] = conn'[c],
         AwaitSuspend(c, aw, fd)
  PROVE  RightConnection'
<1>1. PICK a \in Addr : inflight' = inflight \cup {Issue(Sqe(a, aw.kind, fd, aw.len, Owner(c)), fds')}
  BY AwaitSubmits
<1> DEFINE op == Issue(Sqe(a, aw.kind, fd, aw.len, Owner(c)), fds')
<1>2. /\ op.kind = aw.kind /\ op.owner.file = conn'[c]
      /\ op.file = IF fd = 0 THEN 0 ELSE fds'[fd]
  BY DEF Issue, Sqe, Owner
<1>3. inflight' = inflight \cup {op}
  BY <1>1
<1> HIDE DEF op
<1> QED
  BY <1>2, <1>3 DEF RightConnection

\* Every step keeps operations with their connections, until a handle wraps.
LEMMA StepRight ==
  ASSUME IInv, CallIInv, NoWrap, NoWrap', RightConnection, [Next]_vars
  PROVE  RightConnection'
<1>a. /\ Types /\ Unhindered /\ FilesMatch /\ HoldersMatch
      /\ files \in Nat /\ fds \in [Fd -> 0..files] /\ sockets_ \in [DOMAIN sockets_ -> Fd]
      /\ conn \in [Client -> 0..files] /\ next_handle_id_ \in Handles /\ sock \in [Client -> Handles]
      /\ DOMAIN sockets_ \subseteq Handles /\ HandleMod \in Nat \ {0, 1}
  BY Constants DEF IInv, CallIInv, Numbered, Types, TableTypes
<1>1. ASSUME NEW c \in Client, Connect(c) PROVE RightConnection'
  <2> DEFINE sid == next_handle_id_
  <2>1. PICK fd \in Fd :
          /\ fds[fd] = 0
          /\ fds' = [fds EXCEPT ![fd] = files + 1] /\ files' = files + 1
          /\ sockets_' = [h \in DOMAIN sockets_ \cup {sid} |->
                            IF h \in DOMAIN sockets_ THEN sockets_[h] ELSE fd]
          /\ conn' = [conn EXCEPT ![c] = files + 1]
          /\ AwaitSuspend(c, NewAwaiter("connect", sid, 0), sockets_'[sid])
    BY <1>1 DEF Connect
  <2>2. sid = files + 1
    <3>1. ((files + 1) % HandleMod) = files + 1
      BY <1>a, <2>1, ModOneTurn DEF NoWrap
    <3> QED
      BY <3>1 DEF IInv, Numbered
  <2>3. sid \notin DOMAIN sockets_
    <3>1. \A h \in DOMAIN sockets_ : h <= files
      BY <1>a DEF FilesMatch
    <3> QED
      BY <1>a, <2>2, <3>1
  <2>4. sockets_'[sid] = fd /\ fds'[fd] = files + 1 /\ conn'[c] = files + 1
    BY <1>a, <2>1, <2>3
  <2>5. "connect" \in Kinds /\ 0 \in Nat
    BY DEF Kinds
  <2>6. NewAwaiter("connect", sid, 0) \in Awaiters
    BY <1>a, <2>5, AwaitersMade
  <2> QED
    BY <1>a, <2>1, <2>4, <2>6, AwaitRight
<1>2. ASSUME NEW c \in Client, NEW k \in {"send", "recv"}, NEW len \in 0..MaxLen, Transfer(c, k, len)
      PROVE  RightConnection'
  <2>1. sock[c] # 0 /\ UNCHANGED <<fds, sockets_, conn>>
    BY <1>2 DEF Transfer, tables
  <2>2. NewAwaiter(k, sock[c], len) \in Awaiters
    <3>1. k \in Kinds /\ sock[c] \in Handles /\ len \in Nat
      BY <1>a, Constants DEF Kinds
    <3> QED
      BY <1>a, <3>1, AwaitersMade
  <2>3. CASE AwaitNothing(c, NewAwaiter(k, sock[c], len))
    <3>1. UNCHANGED inflight
      BY <2>3 DEF AwaitNothing
    <3> QED
      BY <3>1 DEF RightConnection
  <2>4. CASE sock[c] \in DOMAIN sockets_ /\ AwaitSuspend(c, NewAwaiter(k, sock[c], len), sockets_[sock[c]])
    <3>1. fds[sockets_[sock[c]]] = sock[c] /\ conn[c] = sock[c]
      BY <1>a, <2>1, <2>4 DEF FilesMatch, HoldersMatch
    <3>2. fds'[sockets_[sock[c]]] = conn'[c]
      BY <2>1, <3>1
    <3> QED
      BY <1>a, <2>2, <2>4, <3>2, AwaitRight
  <2> QED
    BY <1>2, <2>3, <2>4 DEF Transfer
<1>3. ASSUME NEW c \in Client, SleepFor(c) PROVE RightConnection'
  <2>1. "sleep" \in Kinds /\ 0 \in Handles /\ 0 \in Nat
    BY Constants DEF Kinds, Handles
  <2>2. NewAwaiter("sleep", 0, 0) \in Awaiters /\ NewAwaiter("sleep", 0, 0).kind = "sleep"
    <3>1. \A k \in Kinds, h \in Handles, len \in Nat :
            NewAwaiter(k, h, len) \in Awaiters /\ NewAwaiter(k, h, len).kind = k
      BY <1>a, AwaitersMade
    <3> QED
      BY <2>1, <3>1
  <2>3. AwaitSuspend(c, NewAwaiter("sleep", 0, 0), 0)
    BY <1>3 DEF SleepFor
  <2> QED
    BY <1>a, <2>2, <2>3, AwaitRight
<1>4. ASSUME NEW op \in inflight, NEW res \in Results(op), Complete(op, res)
      PROVE  RightConnection'
  <2>1. inflight' \subseteq inflight
    BY <1>4 DEF Complete
  <2> QED
    BY <2>1 DEF RightConnection
<1>5. CASE StopWakes
  <2>1. /\ slots' = [slots EXCEPT ![tail] = BlankSqe] /\ tail' = (tail + 1) % Entries
        /\ \E left \in 0..queued : Submission(left)
    <3>1. queued # Entries /\ ~(faults.submit > 0)
      BY <1>a, Constants DEF Unhindered
    <3> QED
      BY <1>5, <3>1 DEF StopWakes
  <2>2. inflight' = inflight \cup {Issue(BlankSqe, fds')}
    BY <1>a, <2>1, SubmittedAlone DEF Unhindered
  <2>3. Issue(BlankSqe, fds').kind = "nop"
    BY DEF Issue, BlankSqe, Sqe
  <2> QED
    BY <2>2, <2>3 DEF RightConnection
<1>6. CASE Destroy
  BY <1>6 DEF Destroy, RightConnection
<1>7. CASE UNCHANGED inflight
  BY <1>7 DEF RightConnection
<1>8. ASSUME NEW c \in Client, \/ Start(c) \/ ConnectFails(c) \/ Close(c) \/ Resume(c) \/ Finish(c)
                               \/ \E d \in Client : CopySocket(c, d) \/ MoveSocket(c, d)
      PROVE  UNCHANGED inflight
  BY <1>8 DEF Start, ConnectFails, Close, Resume, Finish, CopySocket, MoveSocket, kernel
<1>9. ASSUME RunBegins \/ CheckRunning \/ WaitInterrupted \/ HandleCqe \/ CqeSeen \/ StopStores \/ UNCHANGED vars
      PROVE  UNCHANGED inflight
  BY <1>9 DEF RunBegins, CheckRunning, WaitInterrupted, HandleCqe, CqeSeen, StopStores, kernel, vars
<1> QED
  BY <1>1, <1>2, <1>3, <1>4, <1>5, <1>6, <1>7, <1>8, <1>9 DEF Next, ClientStep

\* When nothing fails and until a handle wraps, an operation acts on the connection its
\* caller's Socket stands for, although descriptors are reused.  (After a failure an SQE
\* may stay in the ring until its descriptor stands for another connection.)
THEOREM RightFiles == Faultless => (Spec /\ []NoWrap => []RightConnection)
<1> SUFFICES ASSUME Faultless PROVE Spec /\ []NoWrap => []RightConnection
  OBVIOUS
<1>1. Init => RightConnection
  BY DEF Init, RightConnection
<1>2. IInv /\ CallIInv /\ NoWrap /\ NoWrap' /\ RightConnection /\ [Next]_vars => RightConnection'
  BY StepRight
<1> QED
  BY <1>1, <1>2, Invariance, CallInvariance, PTL DEF Spec

-------------------------------------------------------------------------------
(* The asynchronous calls a coroutine sees *)

\* What ImplementsCalls takes for the state of a coroutine's call.
PhaseOf(c) == CASE at[c] = "resume" -> "returning"
                [] at[c] = "suspended" -> IF truth[c] = NoAnswer THEN "asked" ELSE "answered"
                [] OTHER -> "ready"
KindOf(c)  == IF at[c] \in {"suspended", "resume"} THEN awaiter[c].kind ELSE "none"
ValueOf(c) == CASE at[c] = "resume" -> Reported(awaiter[c])
                [] at[c] = "suspended" -> truth[c]
                [] OTHER -> NoAnswer

CallPhase == [c \in Client |-> PhaseOf(c)]
CallKind  == [c \in Client |-> KindOf(c)]
CallValue == [c \in Client |-> ValueOf(c)]

\* A coroutine is in one of four phases.
LEMMA Phases ==
  ASSUME NEW c \in Client
  PROVE  /\ at[c] = "resume" => /\ PhaseOf(c) = "returning" /\ KindOf(c) = awaiter[c].kind
                                /\ ValueOf(c) = Reported(awaiter[c])
         /\ at[c] \notin {"suspended", "resume"} =>
              PhaseOf(c) = "ready" /\ KindOf(c) = "none" /\ ValueOf(c) = NoAnswer
         /\ at[c] = "suspended" => /\ PhaseOf(c) = IF truth[c] = NoAnswer THEN "asked" ELSE "answered"
                                   /\ KindOf(c) = awaiter[c].kind /\ ValueOf(c) = truth[c]
<1>1. ASSUME at[c] = "resume"
      PROVE  PhaseOf(c) = "returning" /\ KindOf(c) = awaiter[c].kind /\ ValueOf(c) = Reported(awaiter[c])
  <2>1. at[c] # "suspended" /\ at[c] \in {"suspended", "resume"}
    BY <1>1
  <2> QED
    BY <1>1, <2>1, Zenon DEF PhaseOf, KindOf, ValueOf
<1>2. ASSUME at[c] \notin {"suspended", "resume"}
      PROVE  PhaseOf(c) = "ready" /\ KindOf(c) = "none" /\ ValueOf(c) = NoAnswer
  <2>1. at[c] # "resume" /\ at[c] # "suspended"
    BY <1>2
  <2> QED
    BY <1>2, <2>1, Zenon DEF PhaseOf, KindOf, ValueOf
<1>3. ASSUME at[c] = "suspended"
      PROVE  /\ PhaseOf(c) = IF truth[c] = NoAnswer THEN "asked" ELSE "answered"
             /\ KindOf(c) = awaiter[c].kind /\ ValueOf(c) = truth[c]
  <2>1. at[c] # "resume" /\ at[c] \in {"suspended", "resume"}
    BY <1>3
  <2> QED
    BY <1>3, <2>1, Zenon DEF PhaseOf, KindOf, ValueOf
<1> QED
  BY <1>1, <1>2, <1>3

\* The same one step later.
LEMMA PhasesNext ==
  ASSUME NEW c \in Client
  PROVE  /\ at'[c] = "resume" => /\ PhaseOf(c)' = "returning" /\ KindOf(c)' = awaiter'[c].kind
                                 /\ ValueOf(c)' = Reported(awaiter'[c])
         /\ at'[c] \notin {"suspended", "resume"} =>
              PhaseOf(c)' = "ready" /\ KindOf(c)' = "none" /\ ValueOf(c)' = NoAnswer
         /\ at'[c] = "suspended" => /\ PhaseOf(c)' = IF truth'[c] = NoAnswer THEN "asked" ELSE "answered"
                                    /\ KindOf(c)' = awaiter'[c].kind /\ ValueOf(c)' = truth'[c]
<1>1. ASSUME at'[c] = "resume"
      PROVE  PhaseOf(c)' = "returning" /\ KindOf(c)' = awaiter'[c].kind /\ ValueOf(c)' = Reported(awaiter'[c])
  <2>1. at'[c] # "suspended" /\ at'[c] \in {"suspended", "resume"}
    BY <1>1
  <2> QED
    BY <1>1, <2>1, Zenon DEF PhaseOf, KindOf, ValueOf
<1>2. ASSUME at'[c] \notin {"suspended", "resume"}
      PROVE  PhaseOf(c)' = "ready" /\ KindOf(c)' = "none" /\ ValueOf(c)' = NoAnswer
  <2>1. at'[c] # "resume" /\ at'[c] # "suspended"
    BY <1>2
  <2> QED
    BY <1>2, <2>1, Zenon DEF PhaseOf, KindOf, ValueOf
<1>3. ASSUME at'[c] = "suspended"
      PROVE  /\ PhaseOf(c)' = IF truth'[c] = NoAnswer THEN "asked" ELSE "answered"
             /\ KindOf(c)' = awaiter'[c].kind /\ ValueOf(c)' = truth'[c]
  <2>1. at'[c] # "resume" /\ at'[c] \in {"suspended", "resume"}
    BY <1>3
  <2> QED
    BY <1>3, <2>1, Zenon DEF PhaseOf, KindOf, ValueOf
<1> QED
  BY <1>1, <1>2, <1>3

\* A coroutine whose own variables do not change is in the same call as before.
LEMMA SameCall ==
  ASSUME NEW c \in Client, at'[c] = at[c], awaiter'[c] = awaiter[c],
         at[c] = "suspended" => truth'[c] = truth[c]
  PROVE  PhaseOf(c)' = PhaseOf(c) /\ KindOf(c)' = KindOf(c) /\ ValueOf(c)' = ValueOf(c)
BY DEF PhaseOf, KindOf, ValueOf

\* A step that changes nobody's call is a stuttering step of AsyncCalls.
LEMMA CallsStutter ==
  ASSUME \A c \in Client : PhaseOf(c)' = PhaseOf(c) /\ KindOf(c)' = KindOf(c) /\ ValueOf(c)' = ValueOf(c)
  PROVE  UNCHANGED Calls!vars
<1>1. CallPhase' = CallPhase /\ CallKind' = CallKind /\ CallValue' = CallValue
  BY DEF CallPhase, CallKind, CallValue
<1> QED
  BY <1>1, Zenon DEF Calls!vars, CallPhase, CallKind, CallValue, PhaseOf, KindOf, ValueOf

\* A step that changes one coroutine's call is a step of AsyncCalls for it.
LEMMA CallsStep ==
  ASSUME NEW c \in Client, NEW before, NEW after, NEW k, NEW v,
         PhaseOf(c) = before, PhaseOf(c)' = after, KindOf(c)' = k, ValueOf(c)' = v,
         \A d \in Client : d # c =>
           PhaseOf(d)' = PhaseOf(d) /\ KindOf(d)' = KindOf(d) /\ ValueOf(d)' = ValueOf(d)
  PROVE  Calls!Step(c, before, after, k, v)
<1>1. CallPhase[c] = before /\ CallPhase' = [CallPhase EXCEPT ![c] = after]
  BY DEF CallPhase
<1>2. CallKind' = [CallKind EXCEPT ![c] = k] /\ CallValue' = [CallValue EXCEPT ![c] = v]
  BY DEF CallKind, CallValue
<1> QED
  BY <1>1, <1>2, Zenon DEF Calls!Step, CallPhase, CallKind, CallValue, PhaseOf, KindOf, ValueOf

\* What a completed awaiter reports is what its answer means.
LEMMA ReportedMeans ==
  ASSUME NEW aw \in Awaiters, aw.kind \in Kinds, NEW res \in Replies(aw.kind)
  PROVE  Reported(OnComplete(aw, res)) = Calls!Means(aw.kind, res)
<1>. MaxLen \in Nat
  BY Constants
<1>1. CASE aw.kind = "connect"
  <2>1. OnComplete(aw, res) = [aw EXCEPT !.error_ = res < 0]
    BY <1>1, Zenon DEF OnComplete
  <2>2. res \in {0, Failed}
    BY <1>1 DEF Replies
  <2>3. CASE res = 0
    <3>1. (res < 0) = FALSE
      BY <2>3
    <3>2. OnComplete(aw, res) = [aw EXCEPT !.error_ = FALSE]
      BY <2>1, <3>1
    <3> QED
      BY <1>1, <2>3, <3>2 DEF Reported, Calls!Means, Awaiters
  <2>4. CASE res = Failed
    <3>1. (res < 0) = TRUE
      BY <2>4 DEF Failed
    <3>2. OnComplete(aw, res) = [aw EXCEPT !.error_ = TRUE]
      BY <2>1, <3>1
    <3> QED
      BY <1>1, <2>4, <3>2 DEF Reported, Calls!Means, Calls!Error, Awaiters, Failed
  <2> QED
    BY <2>2, <2>3, <2>4
<1>2. CASE aw.kind = "sleep"
  <2>1. OnComplete(aw, res) = [aw EXCEPT !.error_ = FALSE]
    BY <1>2 DEF OnComplete
  <2> QED
    BY <1>2, <2>1 DEF Reported, Calls!Means, Awaiters
<1>3. CASE aw.kind \in {"send", "recv"}
  <2>1. OnComplete(aw, res) = [aw EXCEPT !.error_ = res < 0, !.bytes_ = IF res < 0 THEN 0 ELSE res]
    BY <1>3, Zenon DEF OnComplete
  <2>2. res \in Failed..MaxLen
    BY <1>3 DEF Replies
  <2>3. CASE res < 0
    <3>1. (res < 0) = TRUE /\ res = Failed
      BY <2>2, <2>3 DEF Failed
    <3>2. OnComplete(aw, res) = [aw EXCEPT !.error_ = TRUE, !.bytes_ = 0]
      BY <2>1, <3>1
    <3> QED
      BY <1>3, <2>3, <3>1, <3>2 DEF Reported, Calls!Means, Calls!Error, Awaiters, Failed
  <2>4. CASE ~(res < 0)
    <3>1. (res < 0) = FALSE
      BY <2>4
    <3>2. OnComplete(aw, res) = [aw EXCEPT !.error_ = FALSE, !.bytes_ = res]
      BY <2>1, <3>1
    <3> QED
      BY <1>3, <2>4, <3>2 DEF Reported, Calls!Means, Awaiters
  <2> QED
    BY <2>3, <2>4
<1> QED
  BY <1>1, <1>2, <1>3 DEF Kinds

\* A call is asked or declined.
LEMMA CallingIsCall ==
  ASSUME Types, Paired, CallIInv, NEW c \in Client, Calling(c)
  PROVE  Calls!Ask(c) \/ Calls!Decline(c)
<1>1. /\ at[c] = "run" /\ truth' = [truth EXCEPT ![c] = NoAnswer]
  BY CallOutcome, CallBegins
<1>2. /\ truth \in [Client -> Int] /\ awaiter \in [Client -> Awaiters]
      /\ at \in [Client -> {"new", "run", "suspended", "resume", "done"}]
  BY DEF Types, ControlTypes, RingTypes
<1>3. PhaseOf(c) = "ready"
  BY <1>1, Phases
<1>4. CASE Declines(c)
  <2>1. PICK k \in {"send", "recv"}, h \in Handles, len \in Nat :
          awaiter' = [awaiter EXCEPT ![c] = NewAwaiter(k, h, len)]
    BY <1>4 DEF Declines
  <2>2. at' = [at EXCEPT ![c] = "resume"]
    BY <1>4 DEF Declines
  <2>3. awaiter'[c] = NewAwaiter(k, h, len) /\ at'[c] = "resume"
    BY <1>2, <2>1, <2>2
  <2>4. awaiter'[c].kind = k /\ Reported(awaiter'[c]) = 0
    BY <2>3 DEF NewAwaiter, Reported
  <2>5. PhaseOf(c)' = "returning" /\ KindOf(c)' = k /\ ValueOf(c)' = 0
    BY <2>3, <2>4, PhasesNext
  <2>6. \A d \in Client : d # c =>
          PhaseOf(d)' = PhaseOf(d) /\ KindOf(d)' = KindOf(d) /\ ValueOf(d)' = ValueOf(d)
    <3>1. \A d \in Client : d # c => at'[d] = at[d] /\ awaiter'[d] = awaiter[d] /\ truth'[d] = truth[d]
      BY <1>1, <1>2, <2>1, <2>2
    <3> QED
      BY <3>1, SameCall
  <2>7. Calls!Step(c, "ready", "returning", k, 0)
    BY <1>3, <2>5, <2>6, CallsStep
  <2>8. k \in Kinds
    BY DEF Kinds
  <2> QED
    BY <2>7, <2>8 DEF Calls!Decline
<1>5. ASSUME NEW k \in Kinds, NEW h \in Handles, NEW len \in 0..MaxLen, NEW a \in Addr, NEW op,
             Asks(c, NewAwaiter(k, h, len), a, op)
      PROVE  Calls!Ask(c)
  <2>1. at' = [at EXCEPT ![c] = "suspended"] /\ awaiter' = [awaiter EXCEPT ![c] = NewAwaiter(k, h, len)]
    BY <1>5 DEF Asks
  <2>2. awaiter'[c] = NewAwaiter(k, h, len) /\ at'[c] = "suspended" /\ truth'[c] = NoAnswer
    BY <1>1, <1>2, <2>1
  <2>3. awaiter'[c].kind = k
    BY <2>2 DEF NewAwaiter
  <2>4. PhaseOf(c)' = "asked" /\ KindOf(c)' = k /\ ValueOf(c)' = NoAnswer
    BY <2>2, <2>3, PhasesNext
  <2>5. \A d \in Client : d # c =>
          PhaseOf(d)' = PhaseOf(d) /\ KindOf(d)' = KindOf(d) /\ ValueOf(d)' = ValueOf(d)
    <3>1. \A d \in Client : d # c => at'[d] = at[d] /\ awaiter'[d] = awaiter[d] /\ truth'[d] = truth[d]
      BY <1>1, <1>2, <2>1
    <3> QED
      BY <3>1, SameCall
  <2>6. Calls!Step(c, "ready", "asked", k, NoAnswer)
    BY <1>3, <2>4, <2>5, CallsStep
  <2>7. NoAnswer = Calls!Nothing
    BY DEF NoAnswer, Calls!Nothing
  <2> QED
    BY <2>6, <2>7 DEF Calls!Ask
<1> QED
  BY <1>4, <1>5, CallForms DEF CallIInv

\* The kernel's completion answers the call it is for, and nobody else's.
LEMMA CompleteIsAnswer ==
  ASSUME Types, Paired, CallIInv, NEW op \in inflight, NEW res \in Results(op), Complete(op, res)
  PROVE  (\E c \in Client : Calls!Answer(c)) \/ UNCHANGED Calls!vars
<1>1. /\ UNCHANGED <<at, awaiter, calls>>
      /\ truth' = [c \in Client |->
                     IF op.owner.who = c /\ op.owner.call = calls[c] /\ ~op.owner.stale
                     THEN res ELSE truth[c]]
  BY DEF Complete
<1>2. CASE op.data = Null
  <2>1. \A c \in Client : truth'[c] = truth[c]
    BY <1>1, <1>2, ProactorAssumption DEF CallIInv, Addressed
  <2>2. \A c \in Client : PhaseOf(c)' = PhaseOf(c) /\ KindOf(c)' = KindOf(c) /\ ValueOf(c)' = ValueOf(c)
    BY <1>1, <2>1, SameCall
  <2> QED
    BY <2>2, CallsStutter
<1>3. CASE op.data # Null
  <2>0. PICK c : c = heap[op.data].coro
    OBVIOUS
  <2>1. /\ op.data \in Addr /\ heap[op.data] # Free
        /\ op.owner.who = c /\ op.owner.call = calls[c] /\ ~op.owner.stale
        /\ op.kind = heap[op.data].type /\ op.len \in 0..MaxLen /\ truth[c] = NoAnswer
    BY <1>3, <2>0, DataNamed DEF CallIInv, Once, Addressed, Data
  <2>2. c \in Client /\ op.kind \in Kinds /\ at[c] = "suspended" /\ awaiter[c].kind = op.kind
    BY <2>0, <2>1, WaitersSuspended DEF Paired
  <2>3. res \in Failed..MaxLen
    BY <2>1, <2>2, Constants DEF Results, Kinds, Failed
  <2>4. truth'[c] = res /\ \A d \in Client : d # c => truth'[d] = truth[d]
    BY <1>1, <2>1, <2>2
  <2>5. res # NoAnswer
    BY <2>3, Constants DEF Failed, NoAnswer
  <2>6. PhaseOf(c) = "asked" /\ KindOf(c) = op.kind
    BY <2>1, <2>2, Phases
  <2>7. PhaseOf(c)' = "answered" /\ KindOf(c)' = op.kind /\ ValueOf(c)' = res
    <3>1. at'[c] = "suspended" /\ awaiter'[c].kind = op.kind /\ truth'[c] = res /\ res # NoAnswer
      BY <1>1, <2>2, <2>4, <2>5
    <3> QED
      BY <2>2, <3>1, PhasesNext
  <2>8. \A d \in Client : d # c =>
          PhaseOf(d)' = PhaseOf(d) /\ KindOf(d)' = KindOf(d) /\ ValueOf(d)' = ValueOf(d)
    BY <1>1, <2>4, SameCall
  <2>9. Calls!Step(c, "asked", "answered", op.kind, res)
    BY <2>2, <2>6, <2>7, <2>8, CallsStep
  <2>10. CallKind[c] = op.kind
    BY <2>2, <2>6 DEF CallKind
  <2>11. Calls!Step(c, "asked", "answered", CallKind[c], res)
    BY <2>9, <2>10
  <2>12. Calls!Answer(c)
    BY <2>3, <2>11, Zenon DEF Calls!Answer, CallKind, KindOf
  <2> QED
    BY <2>2, <2>12
<1> QED
  BY <1>2, <1>3

\* The loop resumes a call that was answered.
LEMMA HandleIsResume ==
  ASSUME Types, Paired, CallIInv, HandleCqe
  PROVE  (\E c \in Client : Calls!Resume(c)) \/ UNCHANGED Calls!vars
<1>0. PICK a, res, c : a = Head(cq).data /\ res = Head(cq).res /\ c = heap[a].coro
  OBVIOUS
<1>1. /\ loop = "wait" /\ cq # << >> /\ UNCHANGED truth
      /\ cq \in Seq([data : Data, res : Int]) /\ Len(cq) \in Nat
      /\ at \in [Client -> {"new", "run", "suspended", "resume", "done"}] /\ awaiter \in [Client -> Awaiters]
  BY DEF HandleCqe, Types, ControlTypes, RingTypes
<1>2. Head(cq) = cq[1] /\ 1 \in Unhandled
  BY <1>1, EmptySeq DEF Unhandled
<1>3. CASE UNCHANGED <<at, awaiter>>
  <2>1. \A d \in Client : PhaseOf(d)' = PhaseOf(d) /\ KindOf(d)' = KindOf(d) /\ ValueOf(d)' = ValueOf(d)
    BY <1>1, <1>3, SameCall
  <2> QED
    BY <2>1, CallsStutter
<1>4. CASE ~UNCHANGED <<at, awaiter>>
  <2>1. /\ a # Null /\ heap[a] # Free
        /\ awaiter' = [awaiter EXCEPT ![c] = OnComplete(@, res)] /\ at' = [at EXCEPT ![c] = "resume"]
    BY <1>0, <1>4 DEF HandleCqe
  <2>2. a \in Addr /\ res = truth[c] /\ res \in Replies(heap[a].type)
    BY <1>0, <1>2, <2>1, DataNamed DEF CallIInv, Addressed, Data
  <2>3. c \in Client /\ awaiter[c].kind = heap[a].type /\ heap[a].type \in Kinds /\ at[c] = "suspended"
    BY <1>0, <2>1, <2>2, WaitersSuspended DEF Paired
  <2> DEFINE w == OnComplete(awaiter[c], res)
  <2>k. PICK k : k = awaiter[c].kind
    OBVIOUS
  <2>4. awaiter[c] \in Awaiters /\ k \in Kinds /\ res \in Replies(k) /\ res \in Int
    BY <1>0, <1>1, <1>2, <2>2, <2>3, <2>k, DataNamed
  <2>5. w.kind = k
    BY <2>4, <2>k, CompletedAwaiter
  <2>6. Reported(w) = Calls!Means(k, res)
    BY <2>4, <2>k, ReportedMeans
  <2>7. awaiter' = [awaiter EXCEPT ![c] = w]
    BY <2>1
  <2> HIDE DEF w
  <2>8. awaiter'[c] = w /\ at'[c] = "resume"
    BY <1>1, <2>1, <2>3, <2>7
  <2>9. res # NoAnswer
    <3>1. Replies(k) \subseteq Failed..MaxLen
      BY <2>4, Constants DEF Replies, Kinds, Failed
    <3> QED
      BY <2>4, <3>1, Constants DEF Failed, NoAnswer
  <2>10. PhaseOf(c) = "answered" /\ KindOf(c) = k /\ ValueOf(c) = res
    BY <2>2, <2>3, <2>9, <2>k, Phases
  <2>11. PhaseOf(c)' = "returning" /\ KindOf(c)' = k /\ ValueOf(c)' = Calls!Means(k, res)
    BY <2>3, <2>5, <2>6, <2>8, PhasesNext
  <2>12. \A d \in Client : d # c =>
           PhaseOf(d)' = PhaseOf(d) /\ KindOf(d)' = KindOf(d) /\ ValueOf(d)' = ValueOf(d)
    <3>1. \A d \in Client : d # c => at'[d] = at[d] /\ awaiter'[d] = awaiter[d] /\ truth'[d] = truth[d]
      BY <1>1, <2>1, <2>7
    <3> QED
      BY <3>1, SameCall
  <2>13. CallKind[c] = k /\ CallValue[c] = res /\ CallPhase[c] = "answered"
    BY <2>3, <2>10 DEF CallKind, CallValue, CallPhase
  <2>14. CallPhase' = [CallPhase EXCEPT ![c] = "returning"] /\ CallKind' = [CallKind EXCEPT ![c] = k]
    BY <2>3, <2>11, <2>12 DEF CallPhase, CallKind
  <2>15. CallValue' = [CallValue EXCEPT ![c] = Calls!Means(k, res)]
    BY <2>3, <2>11, <2>12 DEF CallValue
  <2>16. /\ CallKind' = [CallKind EXCEPT ![c] = CallKind[c]]
         /\ CallValue' = [CallValue EXCEPT ![c] = Calls!Means(CallKind[c], CallValue[c])]
    BY <2>13, <2>14, <2>15
  <2>17. Calls!Resume(c)
    BY <2>13, <2>14, <2>16, Zenon
       DEF Calls!Resume, Calls!Step, CallPhase, CallKind, CallValue, PhaseOf, KindOf, ValueOf
  <2> QED
    BY <2>3, <2>17, Zenon
<1> QED
  BY <1>3, <1>4

\* await_resume() is the return of a call.
LEMMA ResumeIsReturn ==
  ASSUME Types, NEW c \in Client, Resume(c)
  PROVE  Calls!Return(c)
<1>1. /\ at[c] = "resume" /\ at' = [at EXCEPT ![c] = "run"]
      /\ awaiter' = [awaiter EXCEPT ![c] = NoAwaiter] /\ UNCHANGED truth
      /\ at \in [Client -> {"new", "run", "suspended", "resume", "done"}] /\ awaiter \in [Client -> Awaiters]
  BY DEF Resume, Types, RingTypes
<1>2. PhaseOf(c) = "returning"
  BY <1>1, Phases
<1>3. PhaseOf(c)' = "ready" /\ KindOf(c)' = "none" /\ ValueOf(c)' = NoAnswer
  <2>1. at'[c] = "run"
    BY <1>1
  <2> QED
    BY <2>1, PhasesNext
<1>4. \A d \in Client : d # c =>
        PhaseOf(d)' = PhaseOf(d) /\ KindOf(d)' = KindOf(d) /\ ValueOf(d)' = ValueOf(d)
  <2>1. \A d \in Client : d # c => at'[d] = at[d] /\ awaiter'[d] = awaiter[d] /\ truth'[d] = truth[d]
    BY <1>1
  <2> QED
    BY <2>1, SameCall
<1>5. Calls!Step(c, "returning", "ready", "none", NoAnswer)
  BY <1>2, <1>3, <1>4, CallsStep
<1> QED
  BY <1>5 DEF Calls!Return, Calls!Idle, Calls!Nothing, NoAnswer

\* Every step of the proactor is a step of one call or of none.
LEMMA StepIsCallsStep ==
  ASSUME Types, Paired, CallIInv, [Next]_vars
  PROVE  [Calls!Next]_(Calls!vars)
<1>1. ASSUME NEW c \in Client, Calling(c) PROVE Calls!Next
  BY <1>1, CallingIsCall DEF Calls!Next
<1>2. ASSUME NEW c \in Client, Resume(c) PROVE Calls!Next
  BY <1>2, ResumeIsReturn DEF Calls!Next
<1>3. ASSUME NEW op \in inflight, NEW res \in Results(op), Complete(op, res) PROVE [Calls!Next]_(Calls!vars)
  <2>1. (\E c \in Client : Calls!Answer(c)) \/ UNCHANGED Calls!vars
    BY <1>3, CompleteIsAnswer
  <2> QED
    BY <2>1 DEF Calls!Next
<1>4. ASSUME HandleCqe PROVE [Calls!Next]_(Calls!vars)
  <2>1. (\E c \in Client : Calls!Resume(c)) \/ UNCHANGED Calls!vars
    BY <1>4, HandleIsResume
  <2> QED
    BY <2>1 DEF Calls!Next
<1>5. ASSUME NEW c \in Client, ConnectFails(c) \/ \E d \in Client : CopySocket(c, d) \/ MoveSocket(c, d)
      PROVE  UNCHANGED Calls!vars
  <2>1. UNCHANGED <<at, awaiter>> /\ Call(c)
    BY <1>5 DEF ConnectFails, CopySocket, MoveSocket
  <2>2. at[c] = "run" /\ truth' = [truth EXCEPT ![c] = NoAnswer] /\ truth \in [Client -> Int]
    BY <2>1, CallBegins DEF Types, ControlTypes
  <2>3. \A d \in Client : at[d] = "suspended" => truth'[d] = truth[d]
    BY <2>2
  <2>4. \A d \in Client : PhaseOf(d)' = PhaseOf(d) /\ KindOf(d)' = KindOf(d) /\ ValueOf(d)' = ValueOf(d)
    BY <2>1, <2>3, SameCall
  <2> QED
    BY <2>4, CallsStutter
<1>6. ASSUME NEW c \in Client, Start(c) \/ Finish(c) PROVE UNCHANGED Calls!vars
  <2>1. /\ at[c] \in {"new", "run"} /\ \E x \in {"run", "done"} : at' = [at EXCEPT ![c] = x]
        /\ UNCHANGED <<awaiter, truth>>
    BY <1>6 DEF Start, Finish, Runs
  <2>2. at \in [Client -> {"new", "run", "suspended", "resume", "done"}]
    BY DEF Types, RingTypes
  <2>3. PhaseOf(c)' = PhaseOf(c) /\ KindOf(c)' = KindOf(c) /\ ValueOf(c)' = ValueOf(c)
    <3>1. at[c] \notin {"suspended", "resume"} /\ at'[c] \notin {"suspended", "resume"}
      BY <2>1, <2>2
    <3> QED
      BY <3>1, Phases, PhasesNext
  <2>4. \A d \in Client : d # c => at'[d] = at[d] /\ awaiter'[d] = awaiter[d] /\ truth'[d] = truth[d]
    BY <2>1, <2>2
  <2>5. \A d \in Client : PhaseOf(d)' = PhaseOf(d) /\ KindOf(d)' = KindOf(d) /\ ValueOf(d)' = ValueOf(d)
    BY <2>3, <2>4, SameCall
  <2> QED
    BY <2>5, CallsStutter
<1>7. ASSUME UNCHANGED <<at, awaiter, truth>> PROVE UNCHANGED Calls!vars
  <2>1. \A d \in Client : PhaseOf(d)' = PhaseOf(d) /\ KindOf(d)' = KindOf(d) /\ ValueOf(d)' = ValueOf(d)
    BY <1>7, SameCall
  <2> QED
    BY <2>1, CallsStutter
<1>8. ASSUME \/ RunBegins \/ CheckRunning \/ WaitInterrupted \/ CqeSeen \/ StopStores \/ StopWakes
             \/ Destroy \/ UNCHANGED vars \/ \E c \in Client : Close(c)
      PROVE  UNCHANGED <<at, awaiter, truth>>
  BY <1>8 DEF RunBegins, CheckRunning, WaitInterrupted, CqeSeen, StopStores, StopWakes, Destroy, Close,
              clients, vars
<1> QED
  BY <1>1, <1>2, <1>3, <1>4, <1>5, <1>6, <1>7, <1>8, Zenon DEF Next, ClientStep, Calling

\* A proactor in which nothing fails implements asynchronous calls: each is asked,
\* answered once and returned once, with what its own answer means.
THEOREM CallsRefinement == Faultless => (Spec => ImplementsCalls)
<1> SUFFICES ASSUME Faultless PROVE Spec => ImplementsCalls
  OBVIOUS
<1>1. Init => Calls!Init
  <2> SUFFICES ASSUME Init PROVE Calls!Init
    OBVIOUS
  <2>1. \A c \in Client : PhaseOf(c) = "ready" /\ KindOf(c) = "none" /\ ValueOf(c) = NoAnswer
    BY Phases DEF Init
  <2>2. /\ CallPhase = [c \in Client |-> "ready"] /\ CallKind = [c \in Client |-> "none"]
        /\ CallValue = [c \in Client |-> NoAnswer]
    BY <2>1 DEF CallPhase, CallKind, CallValue
  <2>3. Calls!Idle = "none" /\ Calls!Nothing = NoAnswer
    BY DEF Calls!Idle, Calls!Nothing, NoAnswer
  <2> QED
    BY <2>2, <2>3, Zenon DEF Calls!Init, CallPhase, CallKind, CallValue, PhaseOf, KindOf, ValueOf
<1>2. IInv /\ CallIInv /\ [Next]_vars => [Calls!Next]_(Calls!vars)
  BY StepIsCallsStep DEF IInv
<1> QED
  BY <1>1, <1>2, Invariance, CallInvariance, PTL DEF Spec, ImplementsCalls, Calls!Spec

================================================================================
