# A TLA+ development of sfap

sfap is a C++20 library: byte buffers and a lock-free ring buffer, network
addresses and their resolution, sockets and coroutine tasks, and a proactor on
Linux io_uring that resumes coroutines when the kernel has answered. This
directory holds specifications of its parts, their model-checking configurations
and machine-checked proofs.

Paths below are relative to the repository. `tlc -config X.cfg M` checks a
model, `tlapm M.tla` the proofs of a module.

## 1. Inventory

| component | state | operations | interacts with | hard behaviour | correct when |
|---|---|---|---|---|---|
| `RingBuffer` (`src/utils/ringbuffer.cpp`) | `head_`, `tail_` (atomic, wrapping), `pending_w_`, `pending_r_`, the bytes | put, prepare_write / commit_write, pop, prepare_read / commit_read, size, free, clean, construction and moves | one producer thread and one consumer thread | the threads' accesses interleave; counters loaded by the other thread are stale; counters wrap; views cross the end of the storage | bytes arrive once, in order; no byte is open to both threads; size and free never wrap; it is a bounded FIFO channel |
| `IOUringProactor` (`src/net/platform/iouring.cpp`) | the SQ and CQ rings, `running_`, `sockets_`, `next_handle_id_`, the heap's `OperationData` | connect, socket_send, socket_recv, sleep_for, close, run, handle_cqe, stop, destructor | coroutines suspend in it, the kernel answers, the loop's thread resumes them, the main thread stops it | answers race new calls; descriptors are reused; the ring is full; allocation or submission fails; stop() races run() | every completion meets its own live operation, once; every call returns; results are the kernel's; descriptors are neither lost nor closed by a stranger; stop() ends run() |
| `Socket` (`src/net/socket.cpp`) | `owner_`, `handle_` | send_bytes, recv_bytes, copies, moves, both assignments, destruction (close) | the proactor | copies share a handle, and a copy assignment drops the handle it overwrites; loops of short transfers around an await | only the holder closes; the bytes are sent once and in order |
| `task` (`include/sfap/utils/task.hpp`) | the frame, its continuation, its value | start_detached, co_await, final_suspend, move, destruction | coroutines, the proactor | resumption by nested calls, inside finished and destroyed frames; another thread resumes a frame whose suspending call has not returned | a frame is executed once at a time; an awaiter goes on exactly when its task is done; stacks stay shallow |
| `Buffer`, `String` (`src/utils/buffer.cpp`, `string.cpp`) | `data_`, `capacity_`, `owner_`, `size_` | assign, append, push_back, resize, subview, find, moves | String keeps a terminating NUL in a Buffer | sums of sizes that wrap; moved-from objects | a failed operation changes nothing; size never exceeds capacity; a String stays terminated |
| `Address`, `resolve`, `detect_address_kind` (`src/net/`) | `address_`, `origin_` | from_ip, from_hostname, set_port, clear | getaddrinfo, inet_pton | partial failure; label arithmetic of `is_fqdn` | failure leaves the address alone; literals and names are told apart |
| `ipx_t`, `error_code`, `expected` | values | accessors, formatting | | | |

`PROJECT.json` names, under `hazards`, the places in the code where something
can go wrong that a unit test would hardly reach, and the properties here that
would show it.

## 2. Modules

| module | content |
|---|---|
| `ByteChannel` | abstract: a bounded FIFO channel of numbered bytes |
| `RingBuffer` | the ring buffer, cut at every shared access; refines `ByteChannel` |
| `NumberLemmas` | lemmas on `%` that wrapped counters need, and on least elements and induction for searches and loops |
| `RingBufferProofs` | the inductive invariant and the theorems about `RingBuffer` |
| `MCRingBuffer` | `RingBufferProofs` for TLC, which then also checks the invariant |
| `AsyncCalls` | abstract: calls that are answered and return once, or are declined at once |
| `Proactor` | the proactor with its coroutines, event loop, stop() and kernel; refines `AsyncCalls` |
| `ProactorProofs` | invariants of `Proactor` that hold whatever fails, and their theorems |
| `ProactorCallProofs` | on `ProactorProofs`: what holds while no allocation and no submission fails, and the refinement of `AsyncCalls` |
| `MCProactor` | `ProactorCallProofs` for TLC, with the symmetry of its clients |
| `Text` | abstract: objects that hold a text, copied, moved and changed independently |
| `Strings` | `Buffer` and `String` over explicit allocations; refines `Text` |
| `StringsProofs` | the inductive invariant and the theorems about `Strings`, with the refinement of `Text` |
| `MCStrings` | `StringsProofs` for TLC, with a literal that contains a NUL and the symmetry of Strings and blocks |
| `Tasks` | coroutine frames and the stacks of the threads that run them, as fragments of actions |
| `Transfers` | on `Tasks`: send_bytes and recv_bytes of two clients, on two threads, over a short-answering kernel |
| `TransfersProofs` | the inductive invariant of `Transfers` and the proofs of its safety properties |
| `MCTransfers` | the same for TLC |
| `AddressKind` | is_fqdn, detect_address_kind and resolve's choice, as pure operators, and what they should compute |
| `AddressKindProofs` | that they compute it, for every text and every answer |
| `Addresses` | on `AddressKind`: the `Address` objects of a program |
| `AddressesProofs` | the inductive invariant of `Addresses` and the theorems about it |
| `MCAddresses` | `AddressesProofs` for TLC, with texts and answers of every kind |

Definitions that begin with the comment "Mutant:" are wrong variants of the
definition that follows them, as a plausible bug in the code would have them;
each is paired in `PROJECT.json` with a property that notices it. No
specification uses them.

### 2.1 RingBuffer

A call is a sequence of steps cut where the other thread could see or disturb
it: the load of the counters (`PutBegin`, `PrepareWrite`, `PopBegin`,
`PrepareRead`), each access to a byte (`PutWrite`, `FillByte`, `PopRead`,
`DrainByte`), and the store of a counter with what precedes it in the same
thread (`PutStore`, `CommitWrite`, `PopStore`, `CommitRead`). `clean()` is one
step allowed only while both threads are between calls: its documentation
forbids anything else.

Memory model. A thread's own counter is read exactly. The other thread's counter
is an acquire load of a release store: it may return any value between the last
one this thread saw and the newest one (coherence), `TailLoads` and `HeadLoads`.
A byte is written before the release store that publishes it and read after the
acquire load that saw it; accesses to bytes therefore need no separate staleness
as long as no byte is open to both threads, which is the property `NoDataRace`
(if it failed, the C++ program would have a data race and the model would not
apply any more).

Arithmetic. `head_` and `tail_` wrap at `WordSize`, which a power-of-two
`Capacity` divides. The history variables `sent`, `received` and `base` count
without wrapping; a stored byte is its number in the producer's stream.

Clients. The producer uses put, and prepare/fill/commit one reservation at a
time; the consumer likewise. `PartialCommits` allows commits of fewer bytes than
were prepared. No client makes a second reservation before the commit: nothing in
the code refuses one, and it returns the bytes of the first again, because
`prepare_write` computes its position from `head_` alone.

### 2.2 Proactor

A coroutine (`Client`) is at `run` when its own code executes, `suspended` in
one of the four awaiters, or at `resume` when its awaiter's `await_resume` and
the code up to its caller come next. A call runs from its beginning to its
suspension in one step: `sockets_` and the SQ ring have no lock, so a correct
client never lets two calls overlap, while the kernel, the event loop and
`stop()` interleave with every step. `await_suspend` is one of

* `NoSqe`: the ring is full. connect and sleep_for take the error from `errno`;
  send and recv leave a fresh awaiter, "0 bytes";
* `NoMemory`: the `OperationData` cannot be allocated; the SQE is consumed and
  keeps what an earlier operation left in it;
* `SubmitFails`: the `OperationData` is freed, the SQE stays in the ring;
* `Submitted`: the kernel takes SQEs from the oldest on, those that earlier
  failures left in the ring first, and at least one (`Submission`). The code takes
  any count but a negative one for success, so the coroutine is suspended even if
  its own SQE stays in the ring, where it waits for the next submission of
  anybody. `stop()` submits in the same way.

The kernel looks descriptors up when an SQE is submitted and then works on the
file, so closing a descriptor does not disturb an operation in flight; the
lowest free descriptor is used for the next file. It answers in any order with
any result the operation may have, short transfers and errors included.
`HandleCqe` is `handle_cqe` up to `h.resume()`; the coroutine then runs on the
loop's thread until it suspends or ends, and `CqeSeen` follows. A completion
whose `OperationData` was freed leads to `loop = "undefined"`, after which the
loop takes no step: the code would be using freed memory.

Without failures of `await_suspend` the proactor implements `AsyncCalls`, in
which a call is asked, answered once and returns once with what the answer means,
or is declined at once (a declined call reports an error, or no byte for send and
recv, and never a connection). A suspended client has asked until its completion
is queued (`truth`), and a client at `resume` is returning what its awaiter's
`error_` and `bytes_` say (`Reported`); the ring, the completion queue, the
`OperationData` and the descriptors are hidden.

`CopySocket` is Socket's copy constructor and its defaulted copy assignment: the
handle of the target is overwritten and not closed. The constructor is reached by
every `Socket sock = std::move(*result)`, because the move constructor is
`explicit`. `MoveSocket` is the move constructor and the move assignment, which
closes what the target held. The history variable `dropped` has the handles whose
last Socket was copied over; nobody will close them before the destructor does, and
`DescriptorsOwned` says that there is no other way to lose one. `conn` is the file
that a Socket's handle was made for.

### 2.3 Strings

`Buffer` and `String` are one module, since a String is a Buffer with a rule: the
last counted byte is a NUL. `obj` holds the four members of each object, `mem`
the bytes of each allocation, of an array that a Buffer may be made over, and of
a literal to copy from; a byte nobody wrote is `Junk`. Constructors may find no
memory (`new (std::nothrow)`), `String(n)` asks for `n + 1` bytes modulo the word
and `StringFrom` stands for the three constructors that copy a source. A call
that its guards refuse changes nothing and is a stuttering step. A call that
copies resizes first, which stores the NUL, and then reads its source from the
memory of that moment; this matters when the source is part of the object. Such a
source always lies in front of the bytes that append stores; for assign it must lie behind those it is copied to (`v.from >= v.len`), since `memcpy` has no
defined result for operands that overlap. One such source is damaged: if a String
is assigned as many of its own bytes as lie in front of them, the NUL of `resize`
falls on the first of them before it is read. `Text` has that result as an action
of its own (`CopyBehind`), and `strings_assign` shows that it is not what the
documentation says. A Buffer copies before it resizes and is not affected.
`find` and the const `subview` change nothing and are operators.

Two things are worth knowing that no property here is about. The mutable
`Buffer::subview` takes `count == 0` for an empty view, as documented, and the
const ones take it for "the rest". `String::find('\0')` may return `size()`,
the place of the terminating NUL; `FindsFirst` speaks of patterns without NUL.

### 2.4 Tasks and Transfers

`task` resumes by calling. `co_await` of a task calls `resume()` on its frame
from `await_suspend`, the final suspension point calls it on the continuation,
and an operation that is refused calls it on the coroutine that has just
suspended. Each of these calls stays on its thread's stack until everything it
entered has suspended, so stacks hold calls of suspended, finished and destroyed
frames. `Tasks` has the frames (`frame`) and these calls (`stack`), as fragments
from which a module that knows who awaits what builds its actions: `CoAwait`,
`FinalSuspend`, `AwaitResume` (with the destructor of the temporary task),
`Suspend`, `ResumeInside`, `Resume`, and `Unwind`, the return of the innermost
call. That calls which return touch nothing of a destroyed frame can be read in
task.hpp and in the awaiters: nothing follows `resume()` but `return`, and after
a submission only its own result is looked at.

`Transfers` has three levels of coroutines: a client, started with
`start_detached`; `send_bytes` or `recv_bytes`, one task for each piece; and
`socket_send` or `socket_recv`, one task for each chunk (`BytesCalls` to
`BytesReturns` are the loop of socket.cpp). A chunk is refused at once
(`CallRefused`: unknown handle, no SQE, no memory, failed submission; the two
values a coroutine may be told are 0 bytes and an error) or submitted
(`CallSubmitted`), answered by the kernel with any part of it, the end of the
stream or an error, and resumed by the loop (`HandleCqe`). The main thread starts
the clients while the loop runs, so the loop may resume a client that main is
still in the middle of starting. `CloseCopy` is another coroutine of the loop
that closes a copy of the client's Socket, so that the next chunk meets an
unknown handle. What failed submissions leave behind in the ring is `Proactor`'s
subject and left out here.

The properties speak of bytes by their position: `stream` is what the kernel has
taken, `buffer` what it has delivered, `cut` what a finished piece gave up. Both
functions return nothing, so a client cannot tell a piece that was cut short from
one that was not, and goes on behind the gap; `SentOrGivenUp` and
`ReceivedInOrder` therefore allow gaps between pieces, after a failure, and none
within one.

Obligations of a client, which the model meets and the code does not enforce: a
task object is awaited or started once, a task that is suspended is not
destroyed (the kernel would answer into its frame), a Socket is not moved from or
assigned to during one of its transfers, and calls of two threads do not overlap
inside the proactor.

### 2.5 Addresses

The operations of `Address` are functions of the object (`FromIp`, `SetPort`,
`FromHostname`), because constructors combine them; actions apply them. Objects
are made, copied (which allocates the origin again), moved from (which leaves an
origin that is there and empty) and destroyed; the allocation of an origin may
fail, with the same effect. The history variable `from` is the host name an IP
was last resolved from. The name service may answer the same host differently
each time, in any order of families, or not at all, and `config::default_resolve_mode`
may be changed at any time between calls. A program does not pass an object the
text of its own origin: `from_hostname` frees it before it copies it.

`AddressKind` keeps the scan of `is_fqdn` and the loop of `resolve`, with its early
exit, turn by turn (`LabelStep`, `FoundStep`), as a recursive function of the number
of the turn. Next to them stand `HostName` and `Taken`, which say without a loop
what they should return; `KindFollowsRule` and `PicksPreferred` in `Addresses` compare
the two.

Three things no property here is about. A name with a final dot is not held to
the rule for the last label ("1." is a host name, "1" is not). `resolve` reports
every failure of getaddrinfo as the generic "invalid argument", never with
getaddrinfo's own code. `connect` of an empty Address reads an empty optional.

## 3. Runs

| run | instance | shows |
|---|---|---|
| `ring_partial` | Capacity 4, words of 8 values, 9 bytes, partial commits, all four call styles | `TypeOK`, `NoDataRace`, `InOrder`, `SizesAreSafe`, `IInv`, `ImplementsChannel` |
| `ring_live` | Capacity 4, words of 8 values, 10 bytes, prepare and commit of all that was prepared, fair threads | `FreeIsWritable`, `AllDelivered` |
| `ring_leak` | Capacity 2, partial commits | `FreeIsWritable` fails: finding 1 |
| `proactor_safe` | 2 coroutines, 4 calls, 1 SQE, 2 descriptors, stop() at any time, destructor | `TypeOK`, `OneWakeup`, `RightConnection`, `CallIInv`, `ClosesOwn`, `ImplementsCalls` |
| `proactor_faults` | 2 coroutines, 3 calls, 2 SQEs, one failed allocation, one failed submission, stop() | `NoneStranded`, `DescriptorsOwned`, `IInv` |
| `proactor_live` | 2 coroutines, 3 calls, stop() after run() has begun, fairness | `CallsReturn`, `StopEndsRun` |
| `proactor_full_ring` | one failed submission fills a ring of 1 SQE | `HonestResult` fails: finding 2 |
| `strings_values` | 2 Strings and a Buffer, 2 alive at a time, allocations up to 3 bytes, an array of 2, words of 8 values | `TypeOK`, `Owned`, `Terminated`, `FindsFirst`, `IInv`, `ImplementsText` |
| `strings_subview` | 1 object at a time | `SubviewInside` fails: finding 3 |
| `strings_assign` | 1 object at a time | `AssignTakesSource` fails: finding 4 |
| `transfers` | 2 pieces of 0 or 2 bytes each way, 2 bytes under way, one refusal, error or closed copy, two threads, fairness | `TypeOK`, `OneActivation`, `AwaitsPaired`, `SentOrGivenUp`, `ReceivedInOrder`, `StackBounded`, `IInv`, `Finishes` |
| `addresses` | 2 objects, 6 texts, an IPv4 and an IPv6 address; all texts of up to 7 characters over 5; all answers of up to 4 addresses | `TypeOK`, `OriginNamesIp`, `IInv`, `FailureChangesNothing`, `PortKept`, `KindFollowsRule`, `PicksPreferred` |

Bounds. Nine bytes through a buffer of four take both counters once round their
word of eight values and the storage twice round, with every split of a view; a
stale load can be as old as the whole run. Two coroutines are what it takes for
a completion to meet the wrong one, for a copy of a Socket to outlive it and for
a descriptor to change hands (connect, copy, close, connect: three calls) or an
entry to lose its last Socket (connect, connect, assign: three as well). Two
SQEs let one that was left behind be submitted with the next, or instead of it. Handles stay below
`HandleMod`: the wrap of `next_handle_id_` after 2^32 connects is not explored.
No operation of Buffer or String names more than two objects, so two alive at a
time suffice; three bytes are a String of two, which has room for a pattern, a
part of itself and a NUL in the middle; eight values of a word let every sum of
two sizes wrap.
A piece of two bytes is the shortest that a partial answer cuts, and a second
piece shows what the first left behind; one fault reaches each way a piece can
end, and the two clients disturb one another by ending early. (With pieces of one
byte as well nothing else happens: the run takes three minutes and holds.) The
limits of names are 4 characters for a label instead of 63 and 5 for a name
instead of 253, with a punycode prefix of 2 instead of 4, so that texts of seven
characters lie on both sides of each.
Deadlock is not checked for the proactor and the transfers, whose clients finish
and whose loop may rightly wait for ever (`Finishes` says that no client stops
before its end); it is checked for the ring buffer, which polls.

Fairness. In `RingBuffer` both threads are scheduled, go on calling while there
is something to do, and a stored counter becomes visible in finite time, so
that a call that can succeed at some point does not for ever work from an old
value. In `Proactor` the threads are scheduled (weak fairness), the kernel
answers every operation it has (weak fairness per operation's owner: a peer that
never answers is outside the claim), and the loop is not interrupted by a signal
each time it waits (strong fairness of `HandleCqe`, which `WaitInterrupted` can
disable for a moment). Client code between two calls returns. In `Transfers` each
thread is scheduled, main starts both clients, the loop handles its answers, and
the kernel answers each client's operations as far as it can (all weak fairness).

### Findings

1. **A partial commit leaks room** (`ring_leak`). `commit_write` subtracts only
   what was committed from `pending_w_`. The test `CommitLessThanPrepared`
   commits 4 of 6 prepared bytes; the other two stay reserved for ever, although
   `free()` reports them. `commit_read` has the same shape.
2. **A full ring may be reported as success** (`proactor_full_ring`): connect and
   sleep_for take the error from `errno`, which nobody has set.
3. **The const `subview` may reach past its object** (`strings_subview`):
   `from + count` wraps for a large count; the mutable overload compares without
   adding.
4. **`String::assign` of its own tail loses a byte** (`strings_assign`): `resize`
   stores the NUL before the source is read, so "ab" that is assigned its
   `subview(1)` becomes a NUL instead of "b".

Two things the models show are not findings, because nothing in the repository says
otherwise. A `stop()` that comes before `run()` has stored `running_` is lost; the
tests call it only after the loop has resumed a coroutine that sets a promise, which
is why `proactor_live` assumes that order (`EarlyStop = FALSE`) and `proactor_safe`
does not. And after a failed allocation or submission an SQE that was left in the
ring may complete into freed memory, into another coroutine's `OperationData`, or on
a descriptor that has been reused (section 4.2).

## 4. Proofs

The runs of section 3 check small instances; the theorems hold for every value
of the constants that satisfies the named assumption of the module. Each
inductive invariant is also checked by a run.

### 4.1 RingBuffer

`RingBufferProofs` proves, for every `Capacity`, `WordSize` and `N` that satisfy
`SizeAssumption` (the capacity divides the word size and is smaller) and for
every kind of client,

* `Invariance`: `Spec => []IInv`;
* `TypeCorrect`, `RaceFree`, `Ordered`, `SizesSafe`: the properties of
  `ring_partial`;
* `FreeWritable`: `FreeIsWritable` for clients without partial commits, the
  assumption whose need `ring_leak` shows;
* `Refinement`: the buffer implements `ByteChannel`.

The properties are not inductive: none of them says how the wrapped counters
relate to the unbounded streams. `IInv` does, in named parts: the counters are
`sent` and `received` modulo the word (`Counters`), at most `Capacity` apart; a
thread in the middle of a call holds claims on slots that lie in the free,
respectively the occupied, part (`ProducerClaims`, `ConsumerClaims`); and each
slot of the occupied part, and each one the producer has filled in its view,
holds the byte its position demands (`Stored`). Each action has a lemma that it
preserves `IInv`, and the theorems follow from `IInv` by the arithmetic of
`NumberLemmas`: two positions less than `Capacity` apart have different
slots.

### 4.2 Proactor

`ProactorProofs` holds for every number of coroutines, calls, SQEs, descriptors
and failures (`ProactorAssumption`: the sizes are numbers, there is an SQE, a
descriptor and a handle besides 0). A completion's `user_data` is the only thing
that tells whom it is for, so the proofs are about `OperationData`:

* `Paired`: the objects that are not free belong to the suspended coroutines,
  one each, and have the type of the call;
* `Awaited`: a completion of each is with the kernel or in the queue, not handled
  yet, or its SQE is in the ring;
* `LeftByFailures`: SQEs are in the ring only after an allocation or a submission
  has failed, so before that `Awaited` leaves only the kernel and the queue;
* `Numbered`: `next_handle_id_` is the number of files made so far, plus one,
  modulo `HandleMod`; until that wraps a handle in `sockets_` is the number of the
  file its descriptor stands for, and every entry has a Socket or a pending
  connect(), or is in `dropped`.

With the types these are `IInv`, which gives `Invariance`, `TypeCorrect` and
`NoneIsStranded` without any hypothesis, and `DescriptorsAreOwned` and
`HoldersClose` for behaviours in which the handles have not wrapped, `[]NoWrap`.
`NoneIsStranded` says what every error path of the four awaiters keeps: a coroutine
is suspended only when its operation has an SQE that is answered, with the kernel or
still in the ring. It does not say that a short submission is made good; after a
failure that takes another call. The hypothesis on handles is the code's own: after 2^32 connects `next_handle_id_` may be 0,
or that of a socket that is still open, and nothing checks.

`ProactorCallProofs` is about runs in which nothing fails between taking an SQE
and submitting it. `CallIInv` adds to `IInv` that no SQE is left in the ring
(`Unhindered`), that different completions on their way go to different objects
that are not free (`Once`), and that each belongs to the present call of its
coroutine (`Addressed`). With `Faultless` (no allocation and no submission fails):

* `CallInvariance`, `WakesOnce` (`OneWakeup`), `NeverUndefined` (the loop touches
  no freed `OperationData`);
* `CallsRefinement`: every step is a step of `AsyncCalls` or none of it.

`RightFiles` (`RightConnection`) needs in addition that handles have not wrapped.
`Faultless` cannot be dropped. `SubmitFails` leaves an SQE
in the ring whose `user_data` is freed, and `NoMemory` one that keeps what an
earlier operation left in it; with either of them allowed
`OneWakeup` is false, and so is `RightConnection`: an SQE that waits in the ring is
looked up when it is submitted at last.

### 4.3 Strings

`StringsProofs` holds for every number of objects and blocks, every literal and
all sizes, if the sum of two sizes fits the word (`StringsAssumption`): `append`
and `String(n)` add without a test, and what makes that safe is that no object is
larger than half the address space. `IInv` says that members describe memory that
exists and is the object's own (`Fits`), that no two objects have the same memory
(`Unshared`), that every allocation has an object (`Held`), and that a String with
memory counts a NUL last (`Ended`). There are two kinds of change to objects that
live on: the members go from one object to another, or the bytes and the count of
one object change; each has a lemma, and the actions are reduced to them.
`Invariance`, `TypeCorrect`, `OwnedOnce` and `StaysTerminated` follow.

`TextRefinement` is that `Strings` implements `Text`. The text
of an object is read off the bytes a step leaves; the one difficulty is a source
that is part of the object itself. In an append `resize` stores the NUL behind it
(`OwnSource`). In an assign it does not touch it either (`SourceStays`), unless the
source begins where the new text ends (`Clobbered`): then every byte but the first
is copied as it was, and the first is the NUL (`ClobberedText`).

`SearchFindsFirst` is about `find`, for texts and patterns of any length. It follows
from `Invariance`, because the code compares bytes of storage and a search is about
the text of the object, and from `Least`: of the places where a pattern stands, one is
the first.

### 4.4 Transfers

`TransfersProofs` holds for any number of pieces of any lengths up to a longest one
(`TransfersAssumption`; a length is a `size_t`), any number of bytes under way and
any number of faults, for two clients and the two threads of the model. None of
the properties is inductive: they do not say where in its loops a client is. `IInv`
adds that, in layers:

* `Control`: frames and calls. A frame other than a client's exists as long as the
  co_await of its caller and has finished when the caller runs (`Nested`); a call
  that is not the innermost of its thread is in an `await_suspend()`, and a frame
  runs as long as one innermost call is in its code (`Executed`).
* `Answered`, `Asked`: each coroutine that waits has one operation with the kernel
  or one answer, for the bytes it asked for, and nobody else has.
* `Placed`: a piece ends where the client's bytes end, a chunk covers the rest of
  its piece.
* `Shallow`: a stack is lower by what the innermost coroutine still has to call.
  This is what bounds it: `StackBounded` alone is not kept by the next call.
* `Streamed`, `Buffered`: stream and buffer hold exactly what the clients have
  *reached*. `Reach` counts an answer from the moment the kernel posts it, before
  its coroutine knows. `NeverShort` is that a sender whom nothing disturbs reaches
  everything.

Each action keeps `Control` by a lemma about the step of `Tasks` it takes
(`CoAwaited`, `Finished`, `AwaitEnded`, `Suspended`, `ResumedInside`, `Resumed`,
`Unwound`), and the rest by a lemma of its own, in which `Elsewhere` accounts for
the other client and the other thread. The theorems are `Invariance`,
`TypeCorrect`, `OneActivationHolds`, `AwaitsPairedHolds`, `StackIsBounded`,
`AllSentOrGivenUp` and `AllReceivedInOrder`.

### 4.5 Addresses

`AddressesProofs` holds for any number of objects, any names, addresses and ports,
and any answers of the name service (`AddressesAssumption`: addresses are of the two
families, those of literals among them, and no name is the value that stands for
"none"). `OriginNamesIp` is not inductive for one reason: a
constructor whose name cannot be resolved makes an empty object and leaves the
history alone, so `IInv` also says that an object that does not exist has no history.
Each operation makes an object of the right shape (`FromIpMade`, `OriginMade`,
`SetPortMade`, `Named`), and each call writes one object, or two for a move, that
agree with their history (`Sound`). `Invariance` and `OriginIsHost` follow. The two
action properties are theorems about steps from states with `IInv`:
`FailuresChangeNothing` (the code assigns only after the last early return, and
`set_port` of a constructor that failed finds no address to write to) and
`PortsAreKept`. What `DetectKind` and `Resolve` return plays no part in these.

It does in `TypeCorrect`: an IP that an object gets is one of the answer, because
`Resolve` returns nothing else, and an origin is no longer than a host name, because
`DetectKind` calls no longer text one. `AllFit` is `TypeOK` by objects; it is
inductive with `IInv`, which says what shape an object has.

### 4.6 Loops: is_fqdn and resolve

What a loop computes is proved by induction over its turns, from three lemmas of
`NumberLemmas`. They are about sets and functions as values, which the provers can
instantiate, where the induction theorems of the library take operators:

* `Least`: a set of natural numbers that has an element has a least one (from the
  library's `WFMin`);
* `UpTo`: a set that has 0, and with i < N also i + 1, has all numbers up to N;
* `LoopRuns`: a function that tells each state of a loop from the one before exists.
  Without it the recursive definition of the model, a CHOOSE, would say nothing.

In `AddressKindProofs` a lemma unfolds each loop (`FoundRuns`, `LabelRuns`), one shows
that a turn keeps the loop's invariant (`FoundInduction`, `LabelInduction`), and one
reads the result off the invariant after the last turn:

* `FoundSoFar`: of each family the first address of the turns so far is held, or
  none if there was none or the loop has ended; and it ends only with an address of
  the preferred family. `ResolveTakes` is then that `Resolve` returns a member of
  `Taken`, for every answer and mode.
* `LabelsSoFar`: the label at hand starts after the last dot and has the characters
  since, and every label before that dot has been checked. `FqdnIsHostName` is then
  `IsFqdn(s) <=> HostName(s)` for every text.

`KindsFollowRule` and `ResolvesPreferred` state these as theorems of `Addresses`. They
hold for any limits and alphabets with `AddressKindAssumption`: hyphen and dot are
neither letters nor digits, and the prefix of punycode is made of characters of
labels and has a hyphen ("xn--"). The hyphen matters: without it a last label that
is the bare prefix would be alphabetic, and the code, which wants a character behind
the prefix, would refuse what the rule accepts.

### 4.7 What is only model-checked

Liveness (`AllDelivered`, `CallsReturn`, `StopEndsRun`, `Finishes`): it needs fairness
and ENABLED, which the prover does not handle. Every invariant and every action
property that a passing run checks is also a theorem, under the hypotheses named
above, and so are the refinements.

## 5. Plan

Done: all components that keep state are modelled and checked; `RingBuffer`,
`Proactor`, `Strings`, `Transfers` and `Addresses` have inductive invariants that are
proved, the first three also the refinement of what they promise, and the loops of
`is_fqdn`, `resolve` and `find` compute what they should for inputs of any length.

Next: calls of two threads that overlap inside the proactor, as a statement of what
exactly a client has to exclude.

Not modelled, and why: the accessors of `ipx_t`, error messages and `expected` keep
no state; getaddrinfo and inet_pton are external; moving a `task` or awaiting one
that is already running happens nowhere in the repository; the construction and moves of
`RingBuffer` belong to one thread and have the shape of Buffer's, which `Strings`
models; the build files.
