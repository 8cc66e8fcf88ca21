-------------------------------- MODULE Proactor --------------------------------
(******************************************************************************)
(* sfap::net::IOUringProactor (src/net/platform/iouring.cpp): coroutines that *)
(* connect, send, receive, sleep and close, the event loop that resumes them, *)
(* stop(), the destructor, and the part of io_uring and of the kernel's file  *)
(* table they use.                                                            *)
(*                                                                            *)
(* A coroutine runs on the thread that started it until it first suspends and *)
(* on the loop's thread after that.  A step of it is what the code does from  *)
(* one suspension or return to the next: the SQ ring and sockets_ have no     *)
(* lock, so two calls never overlap in a correct client.  The completion side *)
(* (kernel, event loop) and stop() interleave with them freely.               *)
(******************************************************************************)
EXTENDS Integers, Sequences, FiniteSets, Functions

CONSTANTS
  Client,          \* the coroutines
  Entries,         \* SQEs in the ring
  MaxFd,           \* file descriptors of the process
  HandleMod,       \* 2^w, the number of values of socket_t
  MaxLen,          \* bytes a client hands to socket_send / socket_recv at most
  MaxCalls,        \* asynchronous calls of all clients (bounds the model)
  AllocFailures,   \* how often `new OperationData` may fail
  SubmitFailures,  \* how often io_uring_submit may fail
  WithStop,        \* is stop() called at all?
  EarlyStop        \* may stop() come before run() has stored running_?

Null == 0   \* no address, and not a coroutine either

ASSUME ProactorAssumption ==
  /\ IsFiniteSet(Client) /\ Null \notin Client
  /\ {Entries, MaxFd, HandleMod} \subseteq Nat \ {0} /\ HandleMod > 1
  /\ {MaxLen, MaxCalls, AllocFailures, SubmitFailures} \subseteq Nat
  /\ {WithStop, EarlyStop} \subseteq BOOLEAN

VARIABLES
  running_, loop,              \* run(): the flag, where the loop is
  stopping,                    \* stop(): where its caller is
  slots, tail, queued,         \* SQ ring: the SQEs, the next one, how many are unsubmitted
  inflight, cq,                \* operations the kernel works on, completions
  heap,                        \* the OperationData objects
  sockets_, next_handle_id_,   \* handle -> descriptor
  fds, files,                  \* kernel: descriptor -> file (0: closed), files made so far
  at, thread, awaiter, sock,   \* coroutines: where, on which thread, their Awaiter, their Socket
  calls, truth, conn,          \* history: calls made, what the kernel answered, the Socket's file
  dropped,                     \* history: handles whose last Socket was assigned over
  faults,                      \* failures left to happen
  alive                        \* the proactor is not destroyed yet

ring     == <<slots, tail, queued>>
kernel   == <<inflight, cq>>
tables   == <<sockets_, next_handle_id_, fds, files, dropped>>
control  == <<running_, loop, stopping, alive>>
clients  == <<at, thread, awaiter, sock, calls, truth, conn>>
vars     == <<ring, kernel, heap, tables, control, clients, faults>>

Fd   == 1..MaxFd
Addr == 1..Cardinality(Client)   \* one OperationData per suspended coroutine
Free == [coro |-> "free"]        \* an address that holds no OperationData
NoAnswer == -2                   \* the kernel has not answered the current call
Failed   == -1                   \* a negative res

Kinds == {"connect", "send", "recv", "sleep"}

\* An Awaiter as constructed, before any completion.
NewAwaiter(kind, h, len) ==
  [kind |-> kind, socket_ |-> h, len |-> len, error_ |-> FALSE, bytes_ |-> 0]
NoAwaiter == NewAwaiter("none", 0, 0)

\* An SQE.  owner is history: whose call of which number put it there, for which
\* file, and whether the slot still holds what an earlier operation left in it.
Sqe(data, kind, fd, len, owner) ==
  [data |-> data, kind |-> kind, fd |-> fd, len |-> len, owner |-> owner]
Owner(c)  == [who |-> c, call |-> calls'[c], file |-> conn'[c], stale |-> FALSE]
LoopNop   == [who |-> Null, call |-> 0, file |-> 0, stale |-> FALSE]
BlankSqe  == Sqe(Null, "nop", 0, 0, LoopNop)

\* What the kernel starts for an SQE: the descriptor is looked up now, 0 is EBADF.
Issue(sqe, table) ==
  [data |-> sqe.data, kind |-> sqe.kind, len |-> sqe.len, owner |-> sqe.owner,
   file |-> IF sqe.fd = 0 THEN 0 ELSE table[sqe.fd]]

\* The unsubmitted SQEs of a ring.
Unsubmitted(s, t, q) == {s[(t - i) % Entries] : i \in 1..q}

\* Those of them that go to the kernel when the newest `left` stay.
Taken(s, t, q, left) == {s[(t - i) % Entries] : i \in (left + 1)..q}

\* The results the kernel may give an operation.
Results(op) ==
  IF op.kind = "nop" THEN {0}
  ELSE IF op.kind = "sleep" \/ op.file = 0 THEN {Failed}   \* -ETIME, -EBADF
  ELSE CASE op.kind = "connect" -> {0, Failed}
         [] op.kind = "send"    -> 1..op.len \cup {Failed}
         [] op.kind = "recv"    -> 0..op.len \cup {Failed}

-------------------------------------------------------------------------------
Init ==
  /\ running_ = FALSE /\ loop = "off" /\ stopping = "no" /\ alive = TRUE
  /\ slots = [i \in 0..(Entries - 1) |-> BlankSqe] /\ tail = 0 /\ queued = 0
  /\ inflight = {} /\ cq = << >>
  /\ heap = [a \in Addr |-> Free]
  /\ sockets_ = << >> /\ next_handle_id_ = 1
  /\ fds = [f \in Fd |-> 0] /\ files = 0
  /\ at = [c \in Client |-> "new"] /\ thread = [c \in Client |-> "main"]
  /\ awaiter = [c \in Client |-> NoAwaiter] /\ sock = [c \in Client |-> 0]
  /\ calls = [c \in Client |-> 0] /\ truth = [c \in Client |-> NoAnswer]
  /\ conn = [c \in Client |-> 0] /\ dropped = {}
  /\ faults = [alloc |-> AllocFailures, submit |-> SubmitFailures]

\* A coroutine is executing on thread t.
Executing(c) == at[c] \in {"run", "resume"}
Busy(t) == \E c \in Client : Executing(c) /\ thread[c] = t

\* The thread of c can take a step of c's code.
Runs(c) == alive /\ at[c] = "run"

-------------------------------------------------------------------------------
(* await_suspend() *)

\* No SQE is left: connect and sleep take the error from errno, which nothing
\* has set, so it may be zero; send and recv leave the fresh awaiter as it is.
NoSqe(c, aw) ==
  /\ queued = Entries
  /\ \E errno \in IF aw.kind \in {"connect", "sleep"} THEN BOOLEAN ELSE {FALSE} :
       awaiter' = [awaiter EXCEPT ![c] = [aw EXCEPT !.error_ = errno]]
  /\ at' = [at EXCEPT ![c] = "resume"]
  /\ UNCHANGED <<ring, inflight, heap, faults>>

\* Mutant: the coroutine is not resumed when there is no memory.
NoMemorySuspends(c, aw) ==
  /\ queued < Entries /\ faults.alloc > 0
  /\ tail' = (tail + 1) % Entries /\ queued' = queued + 1
  /\ awaiter' = [awaiter EXCEPT ![c] = [aw EXCEPT !.error_ = TRUE]]
  /\ at' = [at EXCEPT ![c] = "suspended"]
  /\ faults' = [faults EXCEPT !.alloc = @ - 1]
  /\ UNCHANGED <<slots, inflight, heap>>

\* The OperationData cannot be allocated: the SQE is taken, and not prepared.
NoMemory(c, aw) ==
  /\ queued < Entries /\ faults.alloc > 0
  /\ slots' = [slots EXCEPT ![tail].owner = [Owner(c) EXCEPT !.stale = TRUE]]
  /\ tail' = (tail + 1) % Entries /\ queued' = queued + 1
  /\ awaiter' = [awaiter EXCEPT ![c] = [aw EXCEPT !.error_ = TRUE]]
  /\ at' = [at EXCEPT ![c] = "resume"]
  /\ faults' = [faults EXCEPT !.alloc = @ - 1]
  /\ UNCHANGED <<inflight, heap>>

\* io_uring_submit fails: the OperationData is freed, the SQE stays in the ring.
SubmitFails(c, aw, fd) ==
  /\ queued < Entries /\ faults.submit > 0
  /\ \E a \in Addr :
       /\ heap[a] = Free
       /\ slots' = [slots EXCEPT ![tail] = Sqe(a, aw.kind, fd, aw.len, Owner(c))]
  /\ tail' = (tail + 1) % Entries /\ queued' = queued + 1
  /\ awaiter' = [awaiter EXCEPT ![c] = [aw EXCEPT !.error_ = TRUE]]
  /\ at' = [at EXCEPT ![c] = "resume"]
  /\ faults' = [faults EXCEPT !.submit = @ - 1]
  /\ UNCHANGED <<inflight, heap>>

\* io_uring_submit after one more SQE: the kernel takes SQEs from the oldest on, the
\* leftovers of earlier calls first, until `left` remain.  It stops behind one that it
\* refuses, which it answers with an error, or when it has no memory for the next.
Submission(left) ==
  /\ queued' = left
  /\ inflight' = inflight \cup
       {Issue(sqe, fds') : sqe \in Taken(slots', tail', queued + 1, left)}

\* At least one SQE is taken, which counts as success: the operation may itself stay
\* in the ring.  The coroutine is then where `next` says.
Submit(c, aw, fd, next) ==
  /\ queued < Entries
  /\ \E a \in Addr :
       /\ heap[a] = Free
       /\ heap' = [heap EXCEPT ![a] = [coro |-> c, type |-> aw.kind, handle |-> aw.socket_]]
       /\ slots' = [slots EXCEPT ![tail] = Sqe(a, aw.kind, fd, aw.len, Owner(c))]
  /\ tail' = (tail + 1) % Entries
  /\ \E left \in 0..queued : Submission(left)
  /\ awaiter' = [awaiter EXCEPT ![c] = aw]
  /\ at' = [at EXCEPT ![c] = next]
  /\ UNCHANGED faults

\* Mutant: the coroutine is resumed at once although the operation was submitted.
SubmittedFallsThrough(c, aw, fd) == Submit(c, aw, fd, "resume")

Submitted(c, aw, fd) == Submit(c, aw, fd, "suspended")

AwaitSuspend(c, aw, fd) ==
  \/ NoSqe(c, aw) \/ NoMemory(c, aw) \/ SubmitFails(c, aw, fd) \/ Submitted(c, aw, fd)

\* A call that does not reach the ring leaves its awaiter as `aw`.
AwaitNothing(c, aw) ==
  /\ awaiter' = [awaiter EXCEPT ![c] = aw]
  /\ at' = [at EXCEPT ![c] = "resume"]
  /\ UNCHANGED <<ring, inflight, heap, faults>>

\* Another call of client c begins.
Call(c) ==
  /\ Runs(c) /\ FoldFunction(LAMBDA n, m : n + m, 0, calls) < MaxCalls
  /\ calls' = [calls EXCEPT ![c] = @ + 1]
  /\ truth' = [truth EXCEPT ![c] = NoAnswer]

-------------------------------------------------------------------------------
(* The operations *)

\* connect(): socket() fails.
ConnectFails(c) ==
  /\ Call(c) /\ sock[c] = 0
  /\ UNCHANGED <<ring, kernel, heap, tables, control, at, thread, awaiter, sock, conn, faults>>

\* connect(): a descriptor, a handle, its entry in sockets_ (emplace keeps an
\* entry that is there already), then co_await ConnectAwaiter.
Connect(c) ==
  /\ Call(c) /\ sock[c] = 0
  /\ \E fd \in Fd :
       /\ fds[fd] = 0 /\ \A g \in Fd : g < fd => fds[g] # 0
       /\ LET sid == next_handle_id_ IN
          /\ fds' = [fds EXCEPT ![fd] = files + 1] /\ files' = files + 1
          /\ next_handle_id_' = (sid + 1) % HandleMod
          /\ sockets_' = [h \in DOMAIN sockets_ \cup {sid} |->
                            IF h \in DOMAIN sockets_ THEN sockets_[h] ELSE fd]
          /\ conn' = [conn EXCEPT ![c] = files + 1]
          /\ AwaitSuspend(c, NewAwaiter("connect", sid, 0), sockets_'[sid])
  /\ UNCHANGED <<cq, control, thread, sock, dropped>>

\* Mutant: handles are taken for descriptors, without asking sockets_.
TransferOnHandle(c, kind, len) ==
  LET aw == NewAwaiter(kind, sock[c], len) IN
  /\ Call(c) /\ sock[c] # 0
  /\ UNCHANGED <<cq, tables, control, thread, sock, conn>>
  /\ len > 0 /\ sock[c] \in Fd /\ AwaitSuspend(c, aw, sock[c])

\* socket_send() and socket_recv(): await_ready for an empty span, a handle that
\* is not in sockets_, or the operation on the descriptor sockets_ has for it.
Transfer(c, kind, len) ==
  LET aw == NewAwaiter(kind, sock[c], len) IN
  /\ Call(c) /\ sock[c] # 0
  /\ UNCHANGED <<cq, tables, control, thread, sock, conn>>
  /\ \/ (len = 0 \/ sock[c] \notin DOMAIN sockets_) /\ AwaitNothing(c, aw)
     \/ /\ len > 0 /\ sock[c] \in DOMAIN sockets_
        /\ AwaitSuspend(c, aw, sockets_[sock[c]])

\* sleep_for(d), d > 0.
SleepFor(c) ==
  /\ Call(c)
  /\ UNCHANGED <<cq, tables, control, thread, sock, conn>>
  /\ AwaitSuspend(c, NewAwaiter("sleep", 0, 0), 0)

\* Mutant: the entry stays, without a descriptor.
CloseHandleMarksOnly(h) ==
  IF h \in DOMAIN sockets_ /\ sockets_[h] # 0
  THEN /\ fds' = [fds EXCEPT ![sockets_[h]] = 0]
       /\ sockets_' = [sockets_ EXCEPT ![h] = 0]
  ELSE UNCHANGED <<fds, sockets_>>

\* Mutant: the descriptor is closed, the entry stays.
CloseHandleKeepsEntry(h) ==
  /\ UNCHANGED sockets_
  /\ IF h \in DOMAIN sockets_ THEN fds' = [fds EXCEPT ![sockets_[h]] = 0] ELSE UNCHANGED fds

\* Mutant: the entry goes, the descriptor stays open.
CloseHandleLeaksFd(h) ==
  /\ sockets_' = [g \in DOMAIN sockets_ \ {h} |-> sockets_[g]]
  /\ UNCHANGED fds

\* close(handle): the entry goes and its descriptor is closed.  (`closing` is
\* only true between these two, so an entry is its descriptor.)
CloseHandle(h) ==
  IF h \in DOMAIN sockets_
  THEN /\ fds' = [fds EXCEPT ![sockets_[h]] = 0]
       /\ sockets_' = [g \in DOMAIN sockets_ \ {h} |-> sockets_[g]]
  ELSE UNCHANGED <<fds, sockets_>>

\* ~Socket() of a valid Socket.
Close(c) ==
  /\ Runs(c) /\ sock[c] # 0
  /\ CloseHandle(sock[c])
  /\ sock' = [sock EXCEPT ![c] = 0] /\ conn' = [conn EXCEPT ![c] = 0]
  /\ UNCHANGED <<ring, kernel, heap, next_handle_id_, files, dropped, control, at, thread, awaiter,
                 calls, truth, faults>>

\* The connection of d's Socket, none for an invalid one.
FileOf(d) == IF sock[d] = 0 THEN 0 ELSE conn[d]

\* Socket's copy constructor and copy assignment: c gets the handle of d's Socket.
\* The handle it had is overwritten, and not closed.
CopySocket(c, d) ==
  /\ Call(c)
  /\ sock' = [sock EXCEPT ![c] = sock[d]] /\ conn' = [conn EXCEPT ![c] = FileOf(d)]
  /\ dropped' = dropped \cup ({sock[c]} \ ({0} \cup Range(sock')))
  /\ UNCHANGED <<ring, kernel, heap, sockets_, next_handle_id_, fds, files, control, at, thread,
                 awaiter, faults>>

\* Socket's move assignment, which closes the handle c had, and its move constructor.
MoveSocket(c, d) ==
  /\ Call(c) /\ c # d
  /\ IF sock[c] # 0 THEN CloseHandle(sock[c]) ELSE UNCHANGED <<fds, sockets_>>
  /\ sock' = [sock EXCEPT ![c] = sock[d], ![d] = 0]
  /\ conn' = [conn EXCEPT ![c] = FileOf(d), ![d] = IF sock[d] = 0 THEN @ ELSE 0]
  /\ UNCHANGED <<ring, kernel, heap, next_handle_id_, files, dropped, control, at, thread, awaiter,
                 faults>>

\* await_resume() and what follows it up to the caller.  connect() undoes its
\* socket after an error or for handle 0; its caller takes the Socket otherwise.
Resume(c) ==
  LET aw == awaiter[c] IN
  /\ alive /\ at[c] = "resume"
  /\ at' = [at EXCEPT ![c] = "run"] /\ awaiter' = [awaiter EXCEPT ![c] = NoAwaiter]
  /\ IF aw.kind = "connect"
     THEN IF aw.error_ \/ aw.socket_ = 0
          THEN /\ CloseHandle(aw.socket_)
               /\ conn' = [conn EXCEPT ![c] = 0] /\ UNCHANGED sock
          ELSE /\ sock' = [sock EXCEPT ![c] = aw.socket_]
               /\ UNCHANGED <<fds, sockets_, conn>>
     ELSE UNCHANGED <<fds, sockets_, sock, conn>>
  /\ UNCHANGED <<ring, kernel, heap, next_handle_id_, files, dropped, control, thread, calls, truth,
                 faults>>

\* The client's coroutine ends; the Socket it held is gone.
Finish(c) ==
  /\ Runs(c) /\ sock[c] = 0
  /\ at' = [at EXCEPT ![c] = "done"]
  /\ UNCHANGED <<ring, kernel, heap, tables, control, thread, awaiter, sock, calls, truth, conn,
                 faults>>

ClientStep(c) ==
  \/ ConnectFails(c) \/ Connect(c) \/ SleepFor(c) \/ Close(c) \/ Resume(c) \/ Finish(c)
  \/ \E len \in 0..MaxLen : Transfer(c, "send", len) \/ Transfer(c, "recv", len)
  \/ \E d \in Client : CopySocket(c, d) \/ MoveSocket(c, d)

\* The main thread starts a coroutine (task::start_detached).
Start(c) ==
  /\ alive /\ at[c] = "new" /\ ~Busy("main") /\ stopping # "stored"
  /\ at' = [at EXCEPT ![c] = "run"]
  /\ UNCHANGED <<ring, kernel, heap, tables, control, thread, awaiter, sock, calls, truth, conn,
                 faults>>

-------------------------------------------------------------------------------
(* The kernel completes an operation; the owner's history learns the result. *)

Complete(op, res) ==
  /\ inflight' = inflight \ {op}
  /\ cq' = Append(cq, [data |-> op.data, res |-> res])
  /\ truth' = [c \in Client |->
                 IF op.owner.who = c /\ op.owner.call = calls[c] /\ ~op.owner.stale
                 THEN res ELSE truth[c]]
  /\ UNCHANGED <<ring, heap, tables, control, at, thread, awaiter, sock, calls, conn, faults>>

-------------------------------------------------------------------------------
(* run(), on its own thread *)

RunBegins ==
  /\ loop = "off" /\ alive
  /\ running_' = TRUE /\ loop' = "check"
  /\ UNCHANGED <<ring, kernel, heap, tables, stopping, alive, clients, faults>>

CheckRunning ==
  /\ loop = "check"
  /\ loop' = IF running_ THEN "wait" ELSE "ended"
  /\ UNCHANGED <<ring, kernel, heap, tables, running_, stopping, alive, clients, faults>>

\* Mutant: run() returns when waiting fails.
WaitInterruptedEnds ==
  /\ loop = "wait"
  /\ loop' = "ended"
  /\ UNCHANGED <<ring, kernel, heap, tables, running_, stopping, alive, clients, faults>>

\* io_uring_wait_cqe fails, as it does when a signal arrives.
WaitInterrupted ==
  /\ loop = "wait"
  /\ loop' = "check"
  /\ UNCHANGED <<ring, kernel, heap, tables, running_, stopping, alive, clients, faults>>

\* Mutant: the sign of the result is not looked at.
OnCompleteUnsigned(aw, res) ==
  [aw EXCEPT !.error_ = FALSE, !.bytes_ = IF res < 0 THEN 0 ELSE res]

\* on_complete() of an awaiter.
OnComplete(aw, res) ==
  CASE aw.kind = "connect"          -> [aw EXCEPT !.error_ = res < 0]
    [] aw.kind = "sleep"            -> [aw EXCEPT !.error_ = FALSE]
    [] aw.kind \in {"send", "recv"} -> [aw EXCEPT !.error_ = res < 0,
                                                  !.bytes_ = IF res < 0 THEN 0 ELSE res]

\* handle_cqe() up to h.resume().  A CQE without data is skipped; one whose
\* OperationData is gone makes the code use freed memory: anything may follow.
HandleCqe ==
  /\ loop = "wait" /\ cq # << >>
  /\ LET cqe == Head(cq) IN
     IF cqe.data = Null
     THEN loop' = "resumed" /\ UNCHANGED <<heap, awaiter, at, thread>>
     ELSE IF heap[cqe.data] = Free
     THEN loop' = "undefined" /\ UNCHANGED <<heap, awaiter, at, thread>>
     ELSE LET c == heap[cqe.data].coro IN
          /\ awaiter' = [awaiter EXCEPT ![c] = OnComplete(@, cqe.res)]
          /\ heap' = [heap EXCEPT ![cqe.data] = Free]
          /\ at' = [at EXCEPT ![c] = "resume"] /\ thread' = [thread EXCEPT ![c] = "loop"]
          /\ loop' = "resumed"
  /\ UNCHANGED <<ring, kernel, tables, running_, stopping, alive, sock, calls, truth, conn, faults>>

\* h.resume() has returned: io_uring_cqe_seen().
CqeSeen ==
  /\ loop = "resumed" /\ ~Busy("loop")
  /\ loop' = "check" /\ cq' = Tail(cq)
  /\ UNCHANGED <<ring, inflight, heap, tables, running_, stopping, alive, clients, faults>>

-------------------------------------------------------------------------------
(* stop() and the destructor, on the main thread *)

StopStores ==
  /\ WithStop /\ alive /\ stopping = "no" /\ ~Busy("main")
  /\ EarlyStop \/ loop # "off"
  /\ running_' = FALSE /\ stopping' = "stored"
  /\ UNCHANGED <<ring, kernel, heap, tables, loop, alive, clients, faults>>

\* Mutant: stop() does not wake the loop.
StopForgetsNop ==
  /\ stopping = "stored" /\ stopping' = "done"
  /\ UNCHANGED <<ring, kernel, heap, tables, running_, loop, alive, clients, faults>>

\* The nop that wakes the loop, if there is an SQE for it.  The result of
\* io_uring_submit is not looked at.
StopWakes ==
  /\ stopping = "stored" /\ stopping' = "done"
  /\ UNCHANGED <<cq, heap, tables, running_, loop, alive, clients>>
  /\ \/ queued = Entries /\ UNCHANGED <<ring, inflight, faults>>
     \/ /\ queued < Entries
        /\ slots' = [slots EXCEPT ![tail] = BlankSqe] /\ tail' = (tail + 1) % Entries
        /\ \/ (\E left \in 0..queued : Submission(left)) /\ UNCHANGED faults
           \/ /\ faults.submit > 0 /\ faults' = [faults EXCEPT !.submit = @ - 1]
              /\ queued' = queued + 1 /\ UNCHANGED inflight

\* ~IOUringProactor(), after the loop's thread was joined: every descriptor in
\* sockets_ is closed and io_uring_queue_exit cancels what is in flight.
Destroy ==
  /\ alive /\ loop = "ended" /\ stopping = "done" /\ ~Busy("main")
  /\ alive' = FALSE /\ running_' = FALSE
  /\ fds' = [fd \in Fd |-> IF \E h \in DOMAIN sockets_ : sockets_[h] = fd THEN 0 ELSE fds[fd]]
  /\ sockets_' = << >>
  /\ queued' = 0 /\ inflight' = {} /\ cq' = << >>
  /\ UNCHANGED <<slots, tail, heap, next_handle_id_, files, dropped, loop, stopping, clients, faults>>

Next ==
  \/ \E c \in Client : Start(c) \/ ClientStep(c)
  \/ \E op \in inflight : \E res \in Results(op) : Complete(op, res)
  \/ RunBegins \/ CheckRunning \/ WaitInterrupted \/ HandleCqe \/ CqeSeen
  \/ StopStores \/ StopWakes \/ Destroy

Spec == Init /\ [][Next]_vars

-------------------------------------------------------------------------------
(* What the proactor guarantees *)

TypeOK ==
  /\ {running_, alive} \subseteq BOOLEAN
  /\ loop \in {"off", "check", "wait", "resumed", "ended", "undefined"}
  /\ stopping \in {"no", "stored", "done"}
  /\ tail \in 0..(Entries - 1) /\ queued \in 0..Entries
  /\ \A i \in 0..(Entries - 1) : slots[i].data \in Addr \cup {Null} /\ slots[i].fd \in Fd \cup {0}
  /\ \A op \in inflight : op.data \in Addr \cup {Null} /\ op.file \in 0..files
  /\ \A i \in 1..Len(cq) : cq[i].data \in Addr \cup {Null}
  /\ \A a \in Addr : heap[a] # Free => heap[a].coro \in Client /\ heap[a].type \in Kinds
  /\ DOMAIN sockets_ \subseteq 0..(HandleMod - 1)
  /\ \A h \in DOMAIN sockets_ : sockets_[h] \in Fd
  /\ next_handle_id_ \in 0..(HandleMod - 1)
  /\ files \in Nat /\ fds \in [Fd -> 0..files] /\ conn \in [Client -> 0..files]
  /\ at \in [Client -> {"new", "run", "suspended", "resume", "done"}]
  /\ thread \in [Client -> {"main", "loop"}]
  /\ \A c \in Client : awaiter[c].kind \in Kinds \cup {"none"}
  /\ sock \in [Client -> 0..(HandleMod - 1)] /\ dropped \subseteq 0..(HandleMod - 1)

\* The CQEs that run() has still to handle.
Unhandled == (IF loop = "resumed" THEN 2 ELSE 1)..Len(cq)

\* How many completions will be dispatched to the OperationData at address a.
Wakeups(a) ==
  Cardinality({i \in 1..queued : slots[(tail - i) % Entries].data = a})
    + Cardinality({op \in inflight : op.data = a})
    + Cardinality({i \in Unhandled : cq[i].data = a})

\* Every suspended coroutine is named by one OperationData, which carries its
\* awaiter's operation, and one completion is on its way there; none is on its
\* way to a freed one.  So no resume() is lost, doubled or given to a dead frame.
OneWakeup ==
  alive =>
    /\ \A a \in Addr : Wakeups(a) = IF heap[a] = Free THEN 0 ELSE 1
    /\ \A a \in Addr : heap[a] # Free =>
         LET c == heap[a].coro IN
         /\ at[c] = "suspended" /\ awaiter[c].kind = heap[a].type
         /\ \A b \in Addr : b # a /\ heap[b] # Free => heap[b].coro # c
    /\ \A c \in Client : at[c] = "suspended" => \E a \in Addr : heap[a] # Free /\ heap[a].coro = c

\* An allocation or a submission has failed.
Hindered == faults # [alloc |-> AllocFailures, submit |-> SubmitFailures]

\* A suspended coroutine's operation is with the kernel or has been answered.  Only
\* after a failure, which leaves an SQE in the ring, may the operation be in the ring
\* as well, where the next submission finds it: no error path leaves a coroutine
\* waiting for a completion that was never asked for.
NoneStranded ==
  alive => \A c \in Client : at[c] = "suspended" =>
    \E a \in Addr :
      /\ heap[a] # Free /\ heap[a].coro = c
      /\ \/ \E op \in inflight : op.data = a
         \/ \E i \in Unhandled : cq[i].data = a
         \/ Hindered /\ \E sqe \in Unsubmitted(slots, tail, queued) : sqe.data = a

\* sockets_ and the process's descriptors agree: an entry's descriptor is open and
\* its own, an open descriptor has an entry, and each entry has a Socket or a
\* pending connect() that will close it, unless a copy was assigned over its last
\* Socket; that one is open until the destructor.  After the destructor none is.
DescriptorsOwned ==
  /\ \A h \in DOMAIN sockets_ : fds[sockets_[h]] # 0
  /\ \A h, g \in DOMAIN sockets_ : sockets_[h] = sockets_[g] => h = g
  /\ \A fd \in Fd : fds[fd] # 0 => \E h \in DOMAIN sockets_ : sockets_[h] = fd
  /\ alive => \A h \in DOMAIN sockets_ \ dropped : \E c \in Client :
       sock[c] = h \/ (awaiter[c].kind = "connect" /\ awaiter[c].socket_ = h)

\* An operation acts on the connection its caller's Socket stands for, or on none,
\* although descriptors are reused while copies of a closed Socket are around.
RightConnection ==
  \A op \in inflight :
    ~op.owner.stale /\ op.kind \in {"connect", "send", "recv"} => op.file \in {0, op.owner.file}

\* What a call reports is what the kernel did: a connected Socket was connected,
\* a sleep is over, bytes were sent or received.
HonestResult ==
  \A c \in Client : at[c] = "resume" /\ ~awaiter[c].error_ =>
    CASE awaiter[c].kind = "connect"          -> truth[c] = 0
      [] awaiter[c].kind = "sleep"            -> truth[c] # NoAnswer
      [] awaiter[c].kind \in {"send", "recv"} -> awaiter[c].bytes_ > 0 => truth[c] = awaiter[c].bytes_

\* Only the holder of a connection closes it, and lets go of it: a copy of a Socket
\* that is already closed never closes the connection that got its descriptor.
ClosesOwn ==
  [][\A fd \in Fd : fds[fd] # 0 /\ fds'[fd] = 0 /\ alive' =>
       \E c \in Client : conn[c] = fds[fd] /\ conn'[c] # conn[c]]_vars

\* What a call reports to its caller.
Reported(aw) == IF aw.error_ THEN Failed ELSE IF aw.kind \in {"send", "recv"} THEN aw.bytes_ ELSE 0

Calls == INSTANCE AsyncCalls WITH
  Kind   <- Kinds,
  Result <- Failed..MaxLen,
  phase  <- [c \in Client |-> CASE at[c] = "resume" -> "returning"
                               [] at[c] = "suspended" ->
                                    IF truth[c] = NoAnswer THEN "asked" ELSE "answered"
                               [] OTHER -> "ready"],
  kind   <- [c \in Client |-> IF at[c] \in {"suspended", "resume"} THEN awaiter[c].kind ELSE "none"],
  value  <- [c \in Client |-> CASE at[c] = "resume" -> Reported(awaiter[c])
                               [] at[c] = "suspended" -> truth[c]
                               [] OTHER -> NoAnswer]

\* To a coroutine the proactor is asynchronous calls: each is answered once and
\* returns once, after its own answer and with it, although answers meet calls by
\* an address that is used again and again.
ImplementsCalls == Calls!Spec

-------------------------------------------------------------------------------
(* Progress: the threads run on, client code returns, the kernel answers every *)
(* operation (the peer sends, closes or times out), signals let the loop be.   *)

KernelAnswers(w) ==
  \E op \in inflight : op.owner.who = w /\ \E res \in Results(op) : Complete(op, res)

Fairness ==
  /\ WF_vars(RunBegins) /\ WF_vars(CheckRunning) /\ SF_vars(HandleCqe) /\ WF_vars(CqeSeen)
  /\ WF_vars(StopWakes)
  /\ \A c \in Client : WF_vars(ClientStep(c))
  /\ \A w \in Client \cup {Null} : WF_vars(KernelAnswers(w))

FairSpec == Spec /\ Fairness

\* Every call of a client returns to it, unless stop() is called.
CallsReturn ==
  \A c \in Client : at[c] = "suspended" ~> (at[c] # "suspended" \/ stopping # "no")

\* stop() makes run() return, so that the thread that runs it can be joined.
StopEndsRun == stopping = "done" ~> loop = "ended"

================================================================================
