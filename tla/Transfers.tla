------------------------------- MODULE Transfers -------------------------------
(******************************************************************************)
(* Socket::send_bytes and Socket::recv_bytes (src/net/socket.cpp): a client   *)
(* coroutine that sends in pieces and one that receives in pieces, each       *)
(* piece a task of its own that awaits a task of the proactor as often as the *)
(* kernel's partial answers make it.  The coroutines are frames of Tasks.     *)
(*                                                                            *)
(* Each client has a connected Socket; its peer passes on to the receiver     *)
(* what it gets from the sender.  The bytes of the sender are numbered, the   *)
(* receiver has a cell of its buffer for each byte it asks for.  The main     *)
(* thread starts the clients while the loop's thread is already running.  Of  *)
(* the proactor (module Proactor) only the answers matter here: a call is     *)
(* refused at once, or submitted and answered later.                          *)
(******************************************************************************)
EXTENDS Tasks, FiniteSets, SequencesExt

CONSTANTS
  Pieces,       \* calls of send_bytes, and of recv_bytes
  Length,       \* how many bytes a piece may have
  PipeSize,     \* bytes between sender and receiver at most
  MaxFaults     \* how often something goes wrong that nobody asked for

ASSUME TransfersAssumption ==
  /\ Thread = {"main", "loop"} /\ Detached = {"sender", "receiver"} /\ MaxDepth = 3
  /\ Length \subseteq Nat /\ {Pieces, PipeSize, MaxFaults} \subseteq Nat /\ PipeSize > 0
  /\ \E n \in Length : \A m \in Length : m <= n      \* as SIZE_MAX is

VARIABLES
  open,             \* is the client's handle in sockets_?
  pending, cq,      \* operations the kernel works on; its answers, in order
  stream, taken,    \* the bytes it took from the sender; how many the receiver has
  buffer,           \* the receiver's cells that were written
  pos,              \* bytes each client has asked to be transferred
  cut,              \* history: those of them that a finished piece has left out
  atOnce,           \* history: awaits of each thread's present stack that never waited
  faults            \* faults left to happen

tasks     == <<frame, stack>>
transport == <<pending, cq, stream, taken, buffer>>
history   == <<pos, cut>>
vars      == <<tasks, open, transport, history, atOnce, faults>>

Who       == Detached
Failed    == -1                    \* an unexpected result
MaxPiece  == Max(Length)
MaxPos    == Pieces * MaxPiece
Empty     == -1                    \* a cell nothing was written to

\* The three levels of coroutines, by their local variables; a frame's detached
\* task tells whose it is.
Client == [level |-> "client", pieces |-> 0]
Bytes(from, len, exact) ==
  [level |-> "bytes", from |-> from, len |-> len, exact |-> exact, offset |-> 0, broken |-> FALSE]
Call(from, len) == [level |-> "call", from |-> from, len |-> len]

Init ==
  /\ frame = [f \in Frame |->
                IF f = Root(f[1]) THEN NewFrame("initial", None, Client) ELSE Gone]
  /\ stack = [t \in Thread |-> << >>]
  /\ open = [w \in Who |-> TRUE]
  /\ pending = {} /\ cq = << >> /\ stream = << >> /\ taken = 0
  /\ buffer = [c \in 0..(MaxPos - 1) |-> Empty]
  /\ pos = [w \in Who |-> 0] /\ cut = [w \in Who |-> {}]
  /\ atOnce = [t \in Thread |-> 0] /\ faults = MaxFaults

\* f is a coroutine of this level, in its own code, not at the end of a co_await.
At(t, f, level) == Executes(t, f) /\ frame[f].body.level = level /\ frame[f].child = None

\* f is at the end of its co_await of a task that has ended.
Awaited(t, f, level) == Executes(t, f) /\ frame[f].body.level = level /\ frame[f].child # None

-------------------------------------------------------------------------------
(* The clients *)

Start(who) ==
  /\ StartDetached("main", Root(who))
  /\ atOnce' = [atOnce EXCEPT !["main"] = 0]
  /\ UNCHANGED <<open, transport, history, faults>>

\* The next piece: send_bytes or recv_bytes of any number of bytes.
ClientCalls(t, f) ==
  LET b == frame[f].body IN
  /\ At(t, f, "client") /\ b.pieces < Pieces
  /\ \E len \in Length, exact \in IF f[1] = "sender" THEN {TRUE} ELSE BOOLEAN :
       /\ CoAwait(t, f, [b EXCEPT !.pieces = @ + 1], Bytes(pos[f[1]], len, exact))
       /\ pos' = [pos EXCEPT ![f[1]] = @ + len]
  /\ UNCHANGED <<open, transport, cut, atOnce, faults>>

\* Nothing is returned: the client does not learn how much was transferred.
ClientResumes(t, f) ==
  /\ Awaited(t, f, "client") /\ AwaitResume(t, f, frame[f].body)
  /\ UNCHANGED <<open, transport, history, atOnce, faults>>

\* The client ends, which destroys its Socket.
ClientEnds(t, f) ==
  /\ At(t, f, "client") /\ frame[f].body.pieces = Pieces
  /\ FinalSuspend(t, f)
  /\ open' = [open EXCEPT ![f[1]] = FALSE]
  /\ UNCHANGED <<transport, history, atOnce, faults>>

-------------------------------------------------------------------------------
(* send_bytes and recv_bytes *)

\* Mutant: the chunk starts where the piece does.
BytesCallsAtStart(t, f) ==
  LET b == frame[f].body IN
  /\ At(t, f, "bytes") /\ b.offset < b.len /\ ~b.broken
  /\ CoAwait(t, f, b, Call(b.from, b.len - b.offset))
  /\ UNCHANGED <<open, transport, history, atOnce, faults>>

\* Mutant: the chunk is as long as the piece is.
BytesCallsTooLong(t, f) ==
  LET b == frame[f].body IN
  /\ At(t, f, "bytes") /\ b.offset < b.len /\ ~b.broken
  /\ CoAwait(t, f, b, Call(b.from + b.offset, b.len))
  /\ UNCHANGED <<open, transport, history, atOnce, faults>>

\* The loop: the rest of the piece is handed to socket_send or socket_recv.
BytesCalls(t, f) ==
  LET b == frame[f].body IN
  /\ At(t, f, "bytes") /\ b.offset < b.len /\ ~b.broken
  /\ CoAwait(t, f, b, Call(b.from + b.offset, b.len - b.offset))
  /\ UNCHANGED <<open, transport, history, atOnce, faults>>

\* Mutant: a partial answer counts as the whole rest of the piece.
BytesResumesWhole(t, f) ==
  LET b == frame[f].body
      n == frame[frame[f].child].value IN
  /\ Awaited(t, f, "bytes")
  /\ AwaitResume(t, f, IF n <= 0 THEN [b EXCEPT !.broken = TRUE] ELSE [b EXCEPT !.offset = b.len])
  /\ UNCHANGED <<open, transport, history, atOnce, faults>>

\* An error or no byte at all breaks the loop, as does any answer if not `exact`.
BytesResumes(t, f) ==
  LET b == frame[f].body
      n == frame[frame[f].child].value IN
  /\ Awaited(t, f, "bytes")
  /\ AwaitResume(t, f, IF n <= 0
                       THEN [b EXCEPT !.broken = TRUE]
                       ELSE [b EXCEPT !.offset = @ + n, !.broken = ~b.exact])
  /\ UNCHANGED <<open, transport, history, atOnce, faults>>

BytesReturns(t, f) ==
  LET b == frame[f].body IN
  /\ At(t, f, "bytes") /\ (b.offset >= b.len \/ b.broken)
  /\ FinalSuspend(t, f)
  /\ cut' = [cut EXCEPT ![f[1]] = @ \cup (b.from + b.offset)..(b.from + b.len - 1)]
  /\ atOnce' = [atOnce EXCEPT ![t] = IF b.len = 0 THEN @ + 1 ELSE @]
  /\ UNCHANGED <<open, transport, pos, faults>>

-------------------------------------------------------------------------------
(* socket_send and socket_recv *)

\* Mutant: a refused call is resumed and then submitted all the same.
CallRefusedFallsThrough(t, f) ==
  LET b == frame[f].body IN
  /\ At(t, f, "call") /\ frame[f].value = NoValue
  /\ faults > 0 /\ faults' = faults - 1
  /\ ResumeInside(t, f, 0)
  /\ pending' = pending \cup {[frame |-> f, from |-> b.from, len |-> b.len]}
  /\ atOnce' = [atOnce EXCEPT ![t] = @ + 1]
  /\ UNCHANGED <<open, cq, stream, taken, buffer, history>>

\* The handle is unknown, or the proactor has no SQE (0 bytes), or it has no memory
\* or cannot submit (an error): await_suspend() resumes the coroutine itself.
CallRefused(t, f) ==
  /\ At(t, f, "call") /\ frame[f].value = NoValue
  /\ \/ ~open[f[1]] /\ ResumeInside(t, f, 0) /\ UNCHANGED faults
     \/ /\ open[f[1]] /\ faults > 0 /\ faults' = faults - 1
        /\ \E value \in {0, Failed} : ResumeInside(t, f, value)
  /\ atOnce' = [atOnce EXCEPT ![t] = @ + 1]
  /\ UNCHANGED <<open, transport, history>>

\* Mutant: an answer that is there already is handled before await_suspend() returns.
CallSubmittedPolls(t, f) ==
  LET b == frame[f].body
      g == Head(cq).frame IN
  /\ At(t, f, "call") /\ frame[f].value = NoValue /\ open[f[1]]
  /\ IF cq = << >> THEN Suspend(t, f) /\ UNCHANGED cq
     ELSE /\ frame' = [frame EXCEPT ![f].state = "suspended",
                                    ![g].state = "running", ![g].value = Head(cq).res]
          /\ stack' = [stack EXCEPT ![t] = Leaving(@, "await") \o << Calling(g, "body") >>]
          /\ cq' = Tail(cq)
  /\ pending' = pending \cup {[frame |-> f, from |-> b.from, len |-> b.len]}
  /\ UNCHANGED <<open, stream, taken, buffer, history, atOnce, faults>>

\* The operation is with the kernel, and may be answered before await_suspend() returns.
CallSubmitted(t, f) ==
  LET b == frame[f].body IN
  /\ At(t, f, "call") /\ frame[f].value = NoValue /\ open[f[1]]
  /\ Suspend(t, f)
  /\ pending' = pending \cup {[frame |-> f, from |-> b.from, len |-> b.len]}
  /\ UNCHANGED <<open, cq, stream, taken, buffer, history, atOnce, faults>>

CallReturns(t, f) ==
  /\ At(t, f, "call") /\ frame[f].value # NoValue
  /\ FinalSuspend(t, f)
  /\ UNCHANGED <<open, transport, history, atOnce, faults>>

-------------------------------------------------------------------------------
(* The kernel, the peer, and the loop *)

\* A file is open while its handle is, and while an operation works on it.
FileOpen(who) == open[who] \/ \E op \in pending : op.frame[1] = who

Answer(op, n) ==
  /\ pending' = pending \ {op} /\ cq' = Append(cq, [frame |-> op.frame, res |-> n])
  /\ UNCHANGED <<tasks, open, history, atOnce>>

Sent(op, n) ==
  /\ op.frame[1] = "sender" /\ FileOpen("receiver")
  /\ n <= op.len /\ Len(stream) - taken + n <= PipeSize
  /\ stream' = stream \o [i \in 1..n |-> op.from + i - 1]
  /\ Answer(op, n) /\ UNCHANGED <<taken, buffer, faults>>

\* The kernel writes to the memory the receiver has pointed it to.
Received(op, n) ==
  /\ op.frame[1] = "receiver" /\ n <= op.len /\ taken + n <= Len(stream)
  /\ buffer' = [c \in DOMAIN buffer |->
                  IF c - op.from \in 0..(n - 1) THEN stream[taken + 1 + c - op.from] ELSE buffer[c]]
  /\ taken' = taken + n
  /\ Answer(op, n) /\ UNCHANGED <<stream, faults>>

EndOfStream(op) ==
  /\ op.frame[1] = "receiver" /\ ~FileOpen("sender") /\ taken = Len(stream)
  /\ Answer(op, 0) /\ UNCHANGED <<stream, taken, buffer, faults>>

\* The receiver is gone, or the connection breaks.
OpFails(op) ==
  /\ \/ op.frame[1] = "sender" /\ ~FileOpen("receiver") /\ UNCHANGED faults
     \/ faults > 0 /\ faults' = faults - 1
  /\ Answer(op, Failed) /\ UNCHANGED <<stream, taken, buffer>>

KernelAnswers(who) ==
  \E op \in {o \in pending : o.frame[1] = who} :
    \/ \E n \in 1..MaxPiece : Sent(op, n) \/ Received(op, n)
    \/ EndOfStream(op) \/ OpFails(op)

\* handle_cqe(): on_complete() leaves the result in the awaiter, then resume().
HandleCqe ==
  /\ cq # << >>
  /\ Resume("loop", Head(cq).frame, Head(cq).res)
  /\ cq' = Tail(cq) /\ atOnce' = [atOnce EXCEPT !["loop"] = 0]
  /\ UNCHANGED <<open, pending, stream, taken, buffer, history, faults>>

\* Another coroutine of the loop closes its copy of the client's Socket.
CloseCopy(who) ==
  /\ open[who] /\ faults > 0 /\ stack["loop"] = << >>
  /\ open' = [open EXCEPT ![who] = FALSE] /\ faults' = faults - 1
  /\ UNCHANGED <<tasks, transport, history, atOnce>>

-------------------------------------------------------------------------------
Returns(t) == Unwind(t) /\ UNCHANGED <<open, transport, history, atOnce, faults>>

Coroutine(t, f) ==
  \/ ClientCalls(t, f) \/ ClientResumes(t, f) \/ ClientEnds(t, f)
  \/ BytesCalls(t, f) \/ BytesResumes(t, f) \/ BytesReturns(t, f)
  \/ CallRefused(t, f) \/ CallSubmitted(t, f) \/ CallReturns(t, f)

ThreadRuns(t) == stack[t] # << >> /\ (Returns(t) \/ Coroutine(t, Top(t).frame))

Next ==
  \/ \E t \in Thread : ThreadRuns(t)
  \/ \E who \in Who : Start(who) \/ KernelAnswers(who) \/ CloseCopy(who)
  \/ HandleCqe

Spec == Init /\ [][Next]_vars

\* The threads run on, main starts both clients, the kernel answers what it can.
Fairness ==
  /\ \A t \in Thread : WF_vars(ThreadRuns(t))
  /\ \A who \in Who : WF_vars(Start(who)) /\ WF_vars(KernelAnswers(who))
  /\ WF_vars(HandleCqe)

FairSpec == Spec /\ Fairness

-------------------------------------------------------------------------------
TypeOK ==
  /\ \A f \in Frame : frame[f].state \in {"gone", "initial", "running", "suspended", "final"}
  /\ \A f \in Frame : frame[f] # Gone /\ frame[f].body.level = "bytes" =>
       frame[f].body.offset \in 0..frame[f].body.len
  /\ \A t \in Thread : ToSet(stack[t]) \subseteq [frame : Frame, in : {"body", "await", "final"}]
  /\ open \in [Who -> BOOLEAN] /\ faults \in 0..MaxFaults
  /\ pending \subseteq [frame : Frame, from : 0..MaxPos, len : 1..MaxPiece]
  /\ cq \in Seq([frame : Frame, res : Failed..MaxPiece])
  /\ stream \in Seq(0..(MaxPos - 1)) /\ taken \in 0..Len(stream)
  /\ buffer \in [0..(MaxPos - 1) -> Empty..(MaxPos - 1)]
  /\ pos \in [Who -> 0..MaxPos] /\ cut \in [Who -> SUBSET (0..(MaxPos - 1))]

\* A client that is in send_bytes or recv_bytes.
InPiece(who) == frame[Root(who)].child # None

\* Nothing has gone wrong that would let the transfers of `who` fall short.
Undisturbed(who) == faults = MaxFaults /\ \A w \in Who : w # who => FileOpen(w)

\* What the kernel gets is what the sender sent: in order, no byte twice, however
\* the answers cut the pieces up.  A byte is left out only by the piece it is in,
\* which then has ended, and only after a failure; so a piece never continues
\* behind a gap of its own.
SentOrGivenUp ==
  /\ \A i \in 1..(Len(stream) - 1) : stream[i] < stream[i + 1]
  /\ ToSet(stream) \cap cut["sender"] = {}
  /\ ~InPiece("sender") => ToSet(stream) \cup cut["sender"] = 0..(pos["sender"] - 1)
  /\ Undisturbed("sender") => cut["sender"] = {}

Filled == {c \in DOMAIN buffer : buffer[c] # Empty}

\* What the receiver finds in its buffer is what left the stream, in order, each
\* byte once and in a cell of the piece that asked for it; the cells of a finished
\* piece that are not filled are its last ones.
ReceivedInOrder ==
  /\ Cardinality(Filled) = taken
  /\ \A c \in Filled : buffer[c] = stream[Cardinality({d \in Filled : d <= c})]
  /\ Filled \cap cut["receiver"] = {}
  /\ ~InPiece("receiver") => Filled \cup cut["receiver"] = 0..(pos["receiver"] - 1)

\* A task resumes its awaiter by a call from its own end, so stacks could grow with
\* the length of a transfer.  They do not: however many answers and pieces there
\* are, a thread nests only the awaits that never waited, a few calls for each.
StackBounded == \A t \in Thread : Len(stack[t]) <= 5 * (1 + atOnce[t])

\* Both clients get to their end, whatever is refused, fails or is closed: no call
\* of send_bytes or recv_bytes hangs while the kernel answers.
Finishes == \A who \in Who : <>(frame[Root(who)].state = "final")

================================================================================
