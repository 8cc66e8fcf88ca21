---------------------------- MODULE TransfersProofs ----------------------------
(******************************************************************************)
(* Proofs about Transfers: in every state each coroutine is executed by one   *)
(* call, waits exactly as long as what it awaits, and the stream and the      *)
(* receiver's buffer hold what the clients' coroutines have reached.          *)
(*                                                                            *)
(* The inductive invariant IInv has a part for each of these.  Control is     *)
(* about the frames and the calls; Answered, Placed and Asked tie operations  *)
(* and answers to the coroutines that wait for them; Reach, on top of these,  *)
(* is how far a client has got, also where the kernel has answered and the    *)
(* client does not know yet.                                                  *)
(******************************************************************************)
EXTENDS Transfers, TLAPS, SequenceTheorems, FiniteSetTheorems

\* The frame that awaits f; the frames of a client's piece and chunk.
Caller(f) == <<f[1], f[2] - 1>>
Piece(w)  == <<w, 2>>
Chunk(w)  == <<w, 3>>

\* The local variables of the three levels, and a frame's by its depth.
ClientBody == [level : {"client"}, pieces : 0..Pieces]
BytesBody  ==
  [level : {"bytes"}, from : Nat, len : Length, exact : BOOLEAN, offset : Nat, broken : BOOLEAN]
CallBody   == [level : {"call"}, from : Nat, len : Nat \ {0}]
BodyAt(f)  == IF f[2] = 1 THEN ClientBody ELSE IF f[2] = 2 THEN BytesBody ELSE CallBody

\* The frames there may be at an address.
FrameAt(f) ==
  [state : {"initial", "running", "suspended", "final"},
   continuation : {IF f[2] = 1 THEN None ELSE Caller(f)},
   child : {None} \cup (Frame \cap {CalleeOf(f)}), value : Int, body : BodyAt(f)]

\* The calls a thread may be in.
Calls == [frame : Frame, in : {"body", "await", "final"}]

\* The types of the variables of Tasks.
TaskTypes ==
  /\ frame = [f \in Frame |-> frame[f]] /\ \A f \in Frame : frame[f] \in {Gone} \cup FrameAt(f)
  /\ stack \in [Thread -> Seq(Calls)]

\* The types of the other variables.
Types ==
  /\ open \in [Who -> BOOLEAN] /\ faults \in 0..MaxFaults
  /\ atOnce \in [Thread -> Nat]
  /\ pending \subseteq [frame : Frame, from : Nat, len : Nat]
  /\ cq \in Seq([frame : Frame, res : Int])
  /\ stream \in Seq(0..(MaxPos - 1)) /\ taken \in 0..Len(stream)
  /\ buffer \in [0..(MaxPos - 1) -> Empty..(MaxPos - 1)]
  /\ pos \in [Who -> Nat] /\ cut \in [Who -> SUBSET Nat]

\* A frame other than a root exists as long as the co_await of its caller, which is
\* suspended until it has finished.
Joined(f) ==
  /\ f[2] = 1 => frame[f].state # "gone"
  /\ f[2] > 1 => (frame[f].state # "gone" <=>
                    frame[Caller(f)].state # "gone" /\ frame[Caller(f)].child = f)
  /\ frame[f].state = "initial" => f[2] = 1
  /\ frame[f].state # "gone" /\ frame[f].child # None =>
       /\ frame[f].state = "running" <=> frame[CalleeOf(f)].state = "final"
       /\ frame[f].state = "suspended" <=> frame[CalleeOf(f)].state # "final"
  /\ frame[f].state = "suspended" /\ frame[f].child = None => f[2] = 3

\* Every frame of the chain of awaits of its client.
Nested == \A f \in Frame : Joined(f)

\* Only the innermost call of a thread is in a coroutine's own code, and a coroutine runs
\* as long as exactly one call is in its code.
Executed ==
  /\ \A t \in Thread : \A i \in 1..(Len(stack[t]) - 1) : stack[t][i].in # "body"
  /\ \A f \in Frame : frame[f].state = "running" <=> \E t \in Thread : Executes(t, f)
  /\ \A f \in Frame : \A t, u \in Thread : Executes(t, f) /\ Executes(u, f) => t = u

\* The frames and the calls fit together.
Control == TaskTypes /\ Nested /\ Executed

\* The coroutines that wait for the kernel.
Waiting == {f \in Frame : frame[f].state = "suspended" /\ frame[f].child = None}

\* Each of them has one operation with the kernel or one answer, and nobody else has.
Answered ==
  /\ Waiting = {op.frame : op \in pending} \cup {cq[i].frame : i \in 1..Len(cq)}
  /\ \A o, p \in pending : o.frame = p.frame => o = p
  /\ \A i, j \in 1..Len(cq) : cq[i].frame = cq[j].frame => i = j
  /\ \A op \in pending : \A i \in 1..Len(cq) : op.frame # cq[i].frame

\* Where the transfers of a client are.
PlacedAt(w) ==
  LET a == frame[Root(w)]  b == frame[Piece(w)]  c == frame[Chunk(w)] IN
  /\ a.value = NoValue /\ pos[w] <= a.body.pieces * MaxPiece
  /\ b.state # "gone" =>
       /\ b.value = NoValue /\ (w = "sender" => b.body.exact)
       /\ b.body.from + b.body.len = pos[w] /\ b.body.offset <= b.body.len
  /\ c.state # "gone" =>
       /\ c.body.from = b.body.from + b.body.offset /\ c.body.len = b.body.len - b.body.offset
       /\ ~b.body.broken /\ c.value \in NoValue..c.body.len
       /\ c.state = "suspended" => c.value = NoValue
       /\ c.state = "final" => c.value # NoValue

\* Both clients' frames.
Placed == \A w \in Who : PlacedAt(w)

\* What is asked of the kernel, and answered, is the chunk of a coroutine that waits.
Asked ==
  /\ \A op \in pending :
       op.from = frame[op.frame].body.from /\ op.len = frame[op.frame].body.len
  /\ \A i \in 1..Len(cq) : cq[i].res \in Failed..frame[cq[i].frame].body.len

\* The stack of a thread is lower the more its innermost coroutine has yet to call.
High(t, n) == Len(stack[t]) <= n + 5 * atOnce[t]

\* Five calls for each await that never waited, less those that will still be made.
ShallowAt(t) ==
  /\ High(t, 5)
  /\ stack[t] # << >> /\ Top(t).in = "body" =>
       LET f == Top(t).frame  b == frame[f].body IN
       /\ f[2] = 1 => High(t, 3)
       /\ f[2] = 2 => High(t, 4) /\ (frame[f].child # None \/ b.offset > 0 \/ b.broken => High(t, 2))
       /\ f[2] = 3 /\ frame[f].value # NoValue => High(t, 1)

\* Every thread's stack.
Shallow == \A t \in Thread : ShallowAt(t)

\* What a client's chunk was answered; 0 before that.
Got ==
  [w \in Who |->
     LET value == frame[Chunk(w)].value
         answers == {i \in 1..Len(cq) : cq[i].frame = Chunk(w)} IN
     IF value # NoValue THEN value
     ELSE IF answers = {} THEN 0 ELSE cq[CHOOSE i \in answers : TRUE].res]

\* Up to where a client's bytes have been transferred or given up.
Reach ==
  [w \in Who |->
     LET b == frame[Piece(w)] IN
     IF b.state \in {"gone", "final"} THEN pos[w]
     ELSE b.body.from + b.body.offset + (IF b.child # None /\ Got[w] > 0 THEN Got[w] ELSE 0)]

\* The stream has in order what the sender reached and did not give up.
Streamed ==
  /\ \A i, j \in 1..Len(stream) : i < j => stream[i] < stream[j]
  /\ ToSet(stream) \cap cut["sender"] = {}
  /\ ToSet(stream) \cup cut["sender"] = 0..(Reach["sender"] - 1)

\* Without a fault, and with a receiver there, the sender gives nothing up.
NeverShort ==
  Undisturbed("sender") =>
    /\ cut["sender"] = {}
    /\ frame[Root("sender")].state # "final" => open["sender"]
    /\ LET b == frame[Piece("sender")]  c == frame[Chunk("sender")] IN
       /\ b.state # "gone" => ~b.body.broken
       /\ c.state # "gone" => c.value \notin {0, Failed}
       /\ \A i \in 1..Len(cq) : cq[i].frame = Chunk("sender") => cq[i].res > 0

\* The buffer has the bytes taken from the stream, in order, in the cells the receiver reached
\* and did not give up.
Buffered ==
  /\ Cardinality(Filled) = taken
  /\ \A c \in Filled : buffer[c] = stream[Cardinality({d \in Filled : d <= c})]
  /\ Filled \cap cut["receiver"] = {}
  /\ Filled \cup cut["receiver"] = 0..(Reach["receiver"] - 1)

\* The inductive invariant.
IInv ==
  /\ Control /\ Types /\ Answered /\ Placed /\ Asked /\ Shallow
  /\ Streamed /\ NeverShort /\ Buffered

-------------------------------------------------------------------------------
(* Addresses, frames and stacks *)

\* Callers and callees.
LEMMA FrameAddresses ==
  /\ \A w \in Who : Root(w) \in Frame /\ Piece(w) \in Frame /\ Chunk(w) \in Frame
  /\ \A w \in Who : Root(w)[1] = w /\ Piece(w)[1] = w /\ Chunk(w)[1] = w
  /\ \A w \in Who : Root(w)[2] = 1 /\ Piece(w)[2] = 2 /\ Chunk(w)[2] = 3
  /\ \A f \in Frame : f[1] \in Who /\ f[2] \in 1..3 /\ f # None
  /\ \A f \in Frame : /\ f[2] = 1 => f = Root(f[1])
                      /\ f[2] = 2 => f = Piece(f[1])
                      /\ f[2] = 3 => f = Chunk(f[1])
  /\ \A f \in Frame : f[2] < 3 => CalleeOf(f) \in Frame /\ Caller(CalleeOf(f)) = f
  /\ \A f \in Frame : f[2] > 1 => Caller(f) \in Frame /\ CalleeOf(Caller(f)) = f
  /\ \A f \in Frame : CalleeOf(f)[1] = f[1] /\ CalleeOf(f)[2] = f[2] + 1
  /\ \A f \in Frame : Caller(f)[1] = f[1] /\ Caller(f)[2] = f[2] - 1
  /\ \A f, g \in Frame : f[1] = g[1] /\ f[2] = g[2] => f = g
  /\ \A w \in Who : /\ CalleeOf(Root(w)) = Piece(w) /\ CalleeOf(Piece(w)) = Chunk(w)
                    /\ Caller(Piece(w)) = Root(w) /\ Caller(Chunk(w)) = Piece(w)
  BY TransfersAssumption DEF Frame, Root, Piece, Chunk, CalleeOf, Caller, None, Who

\* Frames by their depth.
LEMMA FrameFields ==
  ASSUME NEW f \in Frame, NEW F \in FrameAt(f)
  PROVE  /\ F.state \in {"initial", "running", "suspended", "final"} /\ F.state # "gone"
         /\ F.continuation = IF f[2] = 1 THEN None ELSE Caller(f)
         /\ F.child = None \/ (F.child = CalleeOf(f) /\ F.child \in Frame /\ f[2] < 3)
         /\ F.value \in Int /\ F.body \in BodyAt(f)
         /\ F # Gone
<1>1. CalleeOf(f) \in Frame => f[2] < 3
  BY FrameAddresses
<1> QED BY <1>1 DEF FrameAt, Gone

\* No frame.
LEMMA GoneState == Gone.state = "gone"
  BY DEF Gone

\* A frame with these fields.
FrameOf(continuation, state, child, value, body) ==
  [state |-> state, continuation |-> continuation, child |-> child, value |-> value, body |-> body]

\* A frame begins a co_await.
LEMMA FrameAwaits ==
  ASSUME NEW f \in Frame, NEW F \in FrameAt(f),
         NEW child \in {None} \cup (Frame \cap {CalleeOf(f)}), NEW body \in BodyAt(f)
  PROVE  /\ [F EXCEPT !.state = "suspended", !.child = child, !.body = body] =
              FrameOf(F.continuation, "suspended", child, F.value, body)
         /\ [F EXCEPT !.state = "suspended", !.child = child, !.body = body] \in FrameAt(f)
<1>1. PICK n, s, c, v, b :
        /\ F = FrameOf(n, s, c, v, b) /\ s \in {"initial", "running", "suspended", "final"}
        /\ n \in {IF f[2] = 1 THEN None ELSE Caller(f)}
        /\ c \in {None} \cup (Frame \cap {CalleeOf(f)}) /\ v \in Int /\ b \in BodyAt(f)
  BY DEF FrameAt, FrameOf
<1>2. F.continuation = n /\ F.state = s /\ F.child = c /\ F.value = v /\ F.body = b
  BY <1>1 DEF FrameOf
<1>3. [F EXCEPT !.state = "suspended"] = FrameOf(n, "suspended", c, v, b)
  BY <1>1 DEF FrameOf
<1>4. [FrameOf(n, "suspended", c, v, b) EXCEPT !.child = child]
        = FrameOf(n, "suspended", child, v, b)
  BY DEF FrameOf
<1>5. [FrameOf(n, "suspended", child, v, b) EXCEPT !.body = body]
        = FrameOf(n, "suspended", child, v, body)
  BY DEF FrameOf
<1>6. [F EXCEPT !.state = "suspended", !.child = child, !.body = body] =
         [[[F EXCEPT !.state = "suspended"] EXCEPT !.child = child] EXCEPT !.body = body]
  OBVIOUS
<1>7. [F EXCEPT !.state = "suspended", !.child = child, !.body = body]
        = FrameOf(n, "suspended", child, v, body)
  BY <1>3, <1>4, <1>5, <1>6
<1>8. FrameOf(n, "suspended", child, v, body) \in FrameAt(f)
  BY <1>1 DEF FrameAt, FrameOf
<1> QED BY <1>2, <1>7, <1>8

\* A frame ends a co_await.
LEMMA FrameGoesOn ==
  ASSUME NEW f \in Frame, NEW F \in FrameAt(f), NEW body \in BodyAt(f)
  PROVE  /\ [F EXCEPT !.child = None, !.body = body] =
              FrameOf(F.continuation, F.state, None, F.value, body)
         /\ [F EXCEPT !.child = None, !.body = body] \in FrameAt(f)
<1>1. PICK n, s, c, v, b :
        /\ F = FrameOf(n, s, c, v, b) /\ s \in {"initial", "running", "suspended", "final"}
        /\ n \in {IF f[2] = 1 THEN None ELSE Caller(f)}
        /\ c \in {None} \cup (Frame \cap {CalleeOf(f)}) /\ v \in Int /\ b \in BodyAt(f)
  BY DEF FrameAt, FrameOf
<1>2. F.continuation = n /\ F.state = s /\ F.child = c /\ F.value = v /\ F.body = b
  BY <1>1 DEF FrameOf
<1>3. [F EXCEPT !.child = None] = FrameOf(n, s, None, v, b)
  BY <1>1 DEF FrameOf
<1>4. [FrameOf(n, s, None, v, b) EXCEPT !.body = body] = FrameOf(n, s, None, v, body)
  BY DEF FrameOf
<1>5. [F EXCEPT !.child = None, !.body = body] =
         [[F EXCEPT !.child = None] EXCEPT !.body = body]
  OBVIOUS
<1>6. [F EXCEPT !.child = None, !.body = body] = FrameOf(n, s, None, v, body)
  BY <1>3, <1>4, <1>5
<1>7. FrameOf(n, s, None, v, body) \in FrameAt(f)
  BY <1>1 DEF FrameAt, FrameOf
<1> QED BY <1>2, <1>6, <1>7

\* A frame is resumed with an answer.
LEMMA FrameResumes ==
  ASSUME NEW f \in Frame, NEW F \in FrameAt(f), NEW value \in Int
  PROVE  /\ [F EXCEPT !.state = "running", !.value = value] =
              FrameOf(F.continuation, "running", F.child, value, F.body)
         /\ [F EXCEPT !.state = "running", !.value = value] \in FrameAt(f)
<1>1. PICK n, s, c, v, b :
        /\ F = FrameOf(n, s, c, v, b) /\ s \in {"initial", "running", "suspended", "final"}
        /\ n \in {IF f[2] = 1 THEN None ELSE Caller(f)}
        /\ c \in {None} \cup (Frame \cap {CalleeOf(f)}) /\ v \in Int /\ b \in BodyAt(f)
  BY DEF FrameAt, FrameOf
<1>2. F.continuation = n /\ F.state = s /\ F.child = c /\ F.value = v /\ F.body = b
  BY <1>1 DEF FrameOf
<1>3. [F EXCEPT !.state = "running"] = FrameOf(n, "running", c, v, b)
  BY <1>1 DEF FrameOf
<1>4. [FrameOf(n, "running", c, v, b) EXCEPT !.value = value] = FrameOf(n, "running", c, value, b)
  BY DEF FrameOf
<1>5. [F EXCEPT !.state = "running", !.value = value] =
         [[F EXCEPT !.state = "running"] EXCEPT !.value = value]
  OBVIOUS
<1>6. [F EXCEPT !.state = "running", !.value = value] = FrameOf(n, "running", c, value, b)
  BY <1>3, <1>4, <1>5
<1>7. FrameOf(n, "running", c, value, b) \in FrameAt(f)
  BY <1>1 DEF FrameAt, FrameOf
<1> QED BY <1>2, <1>6, <1>7

\* Calls entered from an await_suspend or a final suspension, and left.
LEMMA CallsEntered ==
  ASSUME NEW s \in Seq(Calls), s # << >>, NEW in \in {"await", "final"}, NEW g \in Frame,
         \A i \in 1..(Len(s) - 1) : s[i].in # "body"
  PROVE  /\ Leaving(s, in) \in Seq(Calls) /\ Len(Leaving(s, in)) = Len(s)
         /\ Leaving(s, in) # << >>
         /\ \A i \in 1..Len(s) : Leaving(s, in)[i].in # "body"
         /\ LET r == Leaving(s, in) \o << Calling(g, "body") >> IN
            /\ r \in Seq(Calls) /\ Len(r) = Len(s) + 1 /\ r # << >>
            /\ r[Len(r)] = Calling(g, "body")
            /\ \A i \in 1..(Len(r) - 1) : r[i].in # "body"
<1> DEFINE l == Leaving(s, in)
           r == l \o << Calling(g, "body") >>
<1>1. Len(s) \in Nat \ {0} /\ \A i \in 1..Len(s) : s[i] \in Calls
  BY LenProperties, EmptySeq, ElementOfSeq
<1>2. s = [i \in 1..Len(s) |-> s[i]]
  BY LenProperties
<1>3. l = [s EXCEPT ![Len(s)] = [s[Len(s)] EXCEPT !.in = in]]
  BY DEF Leaving
<1>4. [s[Len(s)] EXCEPT !.in = in] \in Calls /\ [s[Len(s)] EXCEPT !.in = in].in = in
  BY <1>1 DEF Calls
<1>5. l \in Seq(Calls) /\ Len(l) = Len(s)
  BY <1>1, <1>3, <1>4, ExceptSeq
<1>6. \A i \in 1..Len(s) : l[i].in # "body"
  BY <1>1, <1>2, <1>3, <1>4
<1>7. l # << >>
  BY <1>1, <1>5, EmptySeq
<1> HIDE DEF l
<1>8. Calling(g, "body") \in Calls
  BY DEF Calling, Calls
<1>9. r \in Seq(Calls) /\ Len(r) = Len(s) + 1
  BY <1>5, <1>8
<1>10. \A i \in 1..Len(s) : r[i] = l[i]
  BY <1>1, <1>5, <1>8
<1>11. r[Len(s) + 1] = Calling(g, "body")
  BY <1>1, <1>5, <1>8
<1> QED BY <1>1, <1>5, <1>6, <1>7, <1>9, <1>10, <1>11 DEF l

\* A thread that is in no coroutine enters one.
LEMMA CallsBegun ==
  ASSUME NEW g \in Frame
  PROVE  LET r == << Calling(g, "body") >> IN
         /\ r \in Seq(Calls) /\ Len(r) = 1 /\ r # << >> /\ r[Len(r)] = Calling(g, "body")
         /\ \A i \in 1..(Len(r) - 1) : r[i].in # "body"
  BY DEF Calling, Calls

\* A call returns.
LEMMA CallsReturned ==
  ASSUME NEW s \in Seq(Calls), s # << >>, \A i \in 1..(Len(s) - 1) : s[i].in # "body"
  PROVE  LET r == SubSeq(s, 1, Len(s) - 1) IN
         /\ r \in Seq(Calls) /\ Len(r) = Len(s) - 1 /\ \A i \in 1..Len(r) : r[i].in # "body"
<1>1. Len(s) \in Nat \ {0}
  BY LenProperties, EmptySeq
<1> DEFINE r == SubSeq(s, 1, Len(s) - 1)
<1>2. \A i \in 1..(Len(s) - 1) : s[i] \in Calls
  BY <1>1, ElementOfSeq
<1>3. PICK n \in Nat : n = Len(s) - 1
  BY <1>1
<1>4. n \in Int /\ \A i \in 1..n : s[i] \in Calls
  BY <1>2, <1>3
<1>5. /\ SubSeq(s, 1, n) \in Seq(Calls)
      /\ Len(SubSeq(s, 1, n)) = IF 1 <= n THEN n - 1 + 1 ELSE 0
      /\ \A i \in 1..(n - 1 + 1) : SubSeq(s, 1, n)[i] = s[1 + i - 1]
  BY <1>4, SubSeqProperties
<1>6. n - 1 + 1 = n /\ (IF 1 <= n THEN n - 1 + 1 ELSE 0) = n
  OBVIOUS
<1>7. r = SubSeq(s, 1, n)
  BY <1>3
<1> HIDE DEF r
<1>8. \A i \in 1..n : r[i] = s[i]
  BY <1>1, <1>5, <1>6, <1>7
<1> QED BY <1>3, <1>5, <1>6, <1>7, <1>8 DEF r

-------------------------------------------------------------------------------
(* What threads execute *)

\* One thread's calls change, and with them the frames that are running: Executed
\* is kept if nobody else executed the frame that the thread executes now.
LEMMA ExecutedNext ==
  ASSUME TaskTypes, Executed, NEW t \in Thread, NEW r \in Seq(Calls),
         stack' = [stack EXCEPT ![t] = r],
         \A i \in 1..(Len(r) - 1) : r[i].in # "body",
         \A f \in Frame : frame'[f].state = "running" <=>
           \/ frame[f].state = "running" /\ ~Executes(t, f)
           \/ r # << >> /\ r[Len(r)] = Calling(f, "body"),
         \A f \in Frame : r # << >> /\ r[Len(r)] = Calling(f, "body") =>
           frame[f].state # "running" \/ Executes(t, f)
  PROVE  stack' \in [Thread -> Seq(Calls)] /\ Executed'
<1>1. stack'[t] = r /\ \A u \in Thread : u # t => stack'[u] = stack[u]
  BY DEF TaskTypes
<1>2. stack' \in [Thread -> Seq(Calls)]
  BY DEF TaskTypes
<1>3. \A f \in Frame : Executes(t, f)' <=> r # << >> /\ r[Len(r)] = Calling(f, "body")
  BY <1>1 DEF Executes, Top
<1>4. \A u \in Thread, f \in Frame : u # t => (Executes(u, f)' <=> Executes(u, f))
  BY <1>1 DEF Executes, Top
<1>5. \A u \in Thread : \A i \in 1..(Len(stack'[u]) - 1) : stack'[u][i].in # "body"
  BY <1>1 DEF Executed
<1>6. ASSUME NEW f \in Frame
      PROVE  frame'[f].state = "running" <=> \E u \in Thread : Executes(u, f)'
  <2>1. /\ frame[f].state = "running" <=> \E u \in Thread : Executes(u, f)
        /\ \A u, v \in Thread : Executes(u, f) /\ Executes(v, f) => u = v
    BY DEF Executed
  <2> QED BY <1>3, <1>4, <2>1
<1>7. ASSUME NEW f \in Frame, NEW u \in Thread, NEW v \in Thread, Executes(u, f)', Executes(v, f)'
      PROVE  u = v
  <2>1. /\ frame[f].state = "running" <=> \E w \in Thread : Executes(w, f)
        /\ \A w, x \in Thread : Executes(w, f) /\ Executes(x, f) => w = x
    BY DEF Executed
  <2> QED BY <1>3, <1>4, <1>7, <2>1
<1> QED BY <1>2, <1>5, <1>6, <1>7 DEF Executed

\* What a thread executes is the last of its calls, and nothing else.
LEMMA ExecutedFrame ==
  ASSUME TaskTypes, Executed, NEW t \in Thread, NEW f \in Frame, Executes(t, f)
  PROVE  /\ stack[t] \in Seq(Calls) /\ stack[t] # << >> /\ Top(t) = Calling(f, "body")
         /\ Top(t).frame = f /\ Top(t).in = "body"
         /\ frame[f].state = "running" /\ frame[f] \in FrameAt(f)
         /\ \A g \in Frame : Executes(t, g) => g = f
         /\ \A i \in 1..(Len(stack[t]) - 1) : stack[t][i].in # "body"
<1>1. stack[t] \in Seq(Calls) /\ stack[t] # << >> /\ Top(t) = Calling(f, "body")
  BY DEF Executes, TaskTypes
<1>2. frame[f].state = "running" /\ \A i \in 1..(Len(stack[t]) - 1) : stack[t][i].in # "body"
  BY DEF Executed
<1>3. frame[f] \in FrameAt(f)
  BY <1>2, GoneState DEF TaskTypes
<1>4. ASSUME NEW g \in Frame, Executes(t, g) PROVE g = f
  BY <1>1, <1>4 DEF Executes, Calling
<1> QED BY <1>1, <1>2, <1>3, <1>4 DEF Calling

\* Frames as functions: those that are named change, the others do not.
LEMMA FrameChanges ==
  ASSUME TaskTypes, NEW f \in Frame, NEW F \in {Gone} \cup FrameAt(f),
         frame' = [frame EXCEPT ![f] = F]
  PROVE  /\ frame' = [g \in Frame |-> frame'[g]] /\ frame'[f] = F
         /\ \A g \in Frame : g # f => frame'[g] = frame[g]
         /\ \A g \in Frame : frame'[g] \in {Gone} \cup FrameAt(g)
<1>1. frame = [g \in Frame |-> frame[g]] /\ \A g \in Frame : frame[g] \in {Gone} \cup FrameAt(g)
  BY DEF TaskTypes
<1>2. /\ frame' = [g \in Frame |-> frame'[g]] /\ frame'[f] = F
      /\ \A g \in Frame : g # f => frame'[g] = frame[g]
  BY <1>1
<1> QED BY <1>1, <1>2

\* Two frames change.
LEMMA TwoFrameChanges ==
  ASSUME TaskTypes, NEW f \in Frame, NEW F \in {Gone} \cup FrameAt(f),
         NEW g \in Frame, NEW G \in {Gone} \cup FrameAt(g), g # f,
         frame' = [frame EXCEPT ![f] = F, ![g] = G]
  PROVE  /\ frame' = [h \in Frame |-> frame'[h]] /\ frame'[f] = F /\ frame'[g] = G
         /\ \A h \in Frame : h # f /\ h # g => frame'[h] = frame[h]
         /\ \A h \in Frame : frame'[h] \in {Gone} \cup FrameAt(h)
<1>1. frame = [h \in Frame |-> frame[h]] /\ \A h \in Frame : frame[h] \in {Gone} \cup FrameAt(h)
  BY DEF TaskTypes
<1>2. /\ frame' = [h \in Frame |-> frame'[h]] /\ frame'[f] = F /\ frame'[g] = G
      /\ \A h \in Frame : h # f /\ h # g => frame'[h] = frame[h]
  BY <1>1
<1>3. ASSUME NEW h \in Frame PROVE frame'[h] \in {Gone} \cup FrameAt(h)
  BY <1>1, <1>2
<1> QED BY <1>2, <1>3

-------------------------------------------------------------------------------
(* The operations of tasks *)

\* What a frame's co_await says about the frame below it, and the one above.
LEMMA Callees ==
  ASSUME Control, NEW f \in Frame, frame[f].state # "gone"
  PROVE  /\ f[2] < 3 /\ frame[f].child = None => frame[CalleeOf(f)] = Gone
         /\ frame[f].child # None =>
              /\ f[2] < 3 /\ frame[f].child = CalleeOf(f) /\ CalleeOf(f) \in Frame
              /\ frame[CalleeOf(f)].state # "gone"
              /\ frame[f].state \in {"running", "suspended"}
         /\ f[2] > 1 => frame[Caller(f)].state # "gone" /\ frame[Caller(f)].child = f
<1>1. frame[f] \in FrameAt(f)
  BY GoneState DEF Control, TaskTypes
<1>2. ASSUME f[2] < 3 PROVE /\ CalleeOf(f) \in Frame /\ CalleeOf(f)[2] > 1
             /\ Caller(CalleeOf(f)) = f
                           /\ CalleeOf(f) # None
  BY <1>2, FrameAddresses
<1>3. ASSUME f[2] < 3, frame[f].child = None PROVE frame[CalleeOf(f)] = Gone
  <2>1. frame[CalleeOf(f)].state = "gone"
    BY <1>2, <1>3 DEF Control, Nested, Joined
  <2> QED BY <1>2, <1>3, <2>1, FrameFields DEF Control, TaskTypes
<1>4. ASSUME frame[f].child # None
      PROVE  /\ f[2] < 3 /\ frame[f].child = CalleeOf(f) /\ CalleeOf(f) \in Frame
             /\ frame[CalleeOf(f)].state # "gone" /\ frame[f].state \in {"running", "suspended"}
  <2>1. f[2] < 3 /\ frame[f].child = CalleeOf(f) /\ CalleeOf(f) \in Frame
    BY <1>1, <1>4, FrameFields
  <2> QED BY <1>2, <1>4, <2>1 DEF Control, Nested, Joined
<1> QED BY <1>3, <1>4 DEF Control, Nested, Joined

\* A frame stays joined to its neighbours if nothing changes that concerns it.
LEMMA JoinedSame ==
  ASSUME Control, NEW g \in Frame, frame'[g] = frame[g],
         g[2] > 1 => /\ frame'[Caller(g)].state # "gone" <=> frame[Caller(g)].state # "gone"
                     /\ frame'[Caller(g)].state # "gone" =>
                          (frame'[Caller(g)].child = g <=> frame[Caller(g)].child = g),
         frame[g].state # "gone" /\ frame[g].child # None =>
           (frame'[CalleeOf(g)].state = "final" <=> frame[CalleeOf(g)].state = "final")
  PROVE  Joined(g)'
<1>1. Joined(g)
  BY DEF Control, Nested
<1> QED BY <1>1 DEF Joined

\* start_detached: the coroutine runs on its thread.
LEMMA Started ==
  ASSUME Control, NEW t \in Thread, NEW f \in Frame, StartDetached(t, f)
  PROVE  /\ Control' /\ Waiting' = Waiting
         /\ frame[f] \in FrameAt(f) /\ frame[f].state = "initial" /\ f[2] = 1
         /\ frame'[f] = FrameOf(frame[f].continuation, "running", frame[f].child, frame[f].value,
                         frame[f].body)
         /\ \A g \in Frame : g # f => frame'[g] = frame[g]
         /\ \A u \in Thread : u # t => stack'[u] = stack[u]
         /\ stack'[t] = << Calling(f, "body") >>
<1> DEFINE F == FrameOf(frame[f].continuation, "running", frame[f].child, frame[f].value,
                         frame[f].body)
<1>1. stack[t] = << >> /\ frame[f].state = "initial"
        /\ stack' = [stack EXCEPT ![t] = << Calling(f, "body") >>]
  BY DEF StartDetached
<1>2. frame[f] \in FrameAt(f) /\ f[2] = 1
  BY <1>1, GoneState DEF Control, TaskTypes, Nested, Joined
<1>3. frame' = [frame EXCEPT ![f] = [frame[f] EXCEPT !.state = "running"]]
  BY DEF StartDetached
<1>4. [frame[f] EXCEPT !.state = "running"] = F /\ F \in FrameAt(f)
  BY <1>2 DEF FrameAt, FrameOf
<1>5. /\ frame' = [g \in Frame |-> frame'[g]] /\ frame'[f] = F
      /\ \A g \in Frame : g # f => frame'[g] = frame[g]
      /\ \A g \in Frame : frame'[g] \in {Gone} \cup FrameAt(g)
  BY <1>3, <1>4, FrameChanges DEF Control
<1>6. F.state = "running" /\ F.child = frame[f].child
  BY DEF FrameOf
<1> HIDE DEF F
<1>7. frame[f].child = None
  BY <1>1, <1>2, Callees
<1>8. Nested'
  <2> SUFFICES ASSUME NEW g \in Frame
               PROVE  Joined(g)'
    BY DEF Nested
  <2>1. CASE g = f
    BY <1>1, <1>2, <1>5, <1>6, <1>7, <2>1, FrameAddresses DEF Control, Nested, Joined
  <2>2. CASE g # f
    <3>1. frame[g].state # "gone" /\ frame[g].child # None
            => CalleeOf(g) # f /\ CalleeOf(g) \in Frame
      BY <1>2, Callees, FrameAddresses
    <3>2. g[2] > 1 => Caller(g) \in Frame
      BY FrameAddresses
    <3>3. \A h \in Frame : frame'[h].child = frame[h].child
                             /\ (frame'[h].state = "gone" <=> frame[h].state = "gone")
      BY <1>1, <1>5, <1>6
    <3> QED BY <1>5, <2>2, <3>1, <3>2, <3>3, JoinedSame
  <2> QED BY <2>1, <2>2
<1>9. Waiting' = Waiting
  BY <1>1, <1>5, <1>6 DEF Waiting
<1>10. \A g \in Frame : ~Executes(t, g)
  BY <1>1 DEF Executes
<1>11. stack' \in [Thread -> Seq(Calls)] /\ Executed'
  <2> DEFINE r == << Calling(f, "body") >>
  <2>1. /\ r \in Seq(Calls) /\ r # << >> /\ r[Len(r)] = Calling(f, "body")
        /\ \A i \in 1..(Len(r) - 1) : r[i].in # "body"
    BY CallsBegun
  <2>2. \A g \in Frame : r # << >> /\ r[Len(r)] = Calling(g, "body") <=> g = f
    BY <2>1 DEF Calling
  <2>3. stack' = [stack EXCEPT ![t] = r]
    BY <1>1
  <2> HIDE DEF r
  <2>4. \A g \in Frame : frame'[g].state = "running" <=>
           \/ frame[g].state = "running" /\ ~Executes(t, g)
           \/ r # << >> /\ r[Len(r)] = Calling(g, "body")
    BY <1>1, <1>5, <1>6, <1>10, <2>2
  <2>5. \A g \in Frame : r # << >> /\ r[Len(r)] = Calling(g, "body") =>
           frame[g].state # "running" \/ Executes(t, g)
    BY <1>1, <2>2
  <2> QED BY <2>1, <2>3, <2>4, <2>5, ExecutedNext DEF Control
<1>12. \A u \in Thread : u # t => stack'[u] = stack[u]
  BY <1>1 DEF Control, TaskTypes
<1>13. stack'[t] = << Calling(f, "body") >>
  BY <1>1 DEF Control, TaskTypes
<1> QED BY <1>1, <1>2, <1>5, <1>8, <1>9, <1>11, <1>12, <1>13 DEF Control, TaskTypes, F

\* co_await of a call: the caller is suspended, and its new callee runs on its thread.
LEMMA CoAwaited ==
  ASSUME Control, NEW t \in Thread, NEW f \in Frame, f[2] < 3, frame[f].child = None,
         NEW locals \in BodyAt(f), NEW body \in BodyAt(CalleeOf(f)), CoAwait(t, f, locals, body)
  PROVE  /\ Control' /\ Waiting' = Waiting
         /\ frame'[f] = FrameOf(frame[f].continuation, "suspended", CalleeOf(f), frame[f].value, locals)
         /\ frame'[CalleeOf(f)] = NewFrame("running", f, body)
         /\ \A g \in Frame : g # f /\ g # CalleeOf(f) => frame'[g] = frame[g]
         /\ \A u \in Thread : u # t => stack'[u] = stack[u]
         /\ Len(stack'[t]) = Len(stack[t]) + 1 /\ Top(t)' = Calling(CalleeOf(f), "body")
<1> DEFINE g == CalleeOf(f)
           F == FrameOf(frame[f].continuation, "suspended", g, frame[f].value, locals)
           G == NewFrame("running", f, body)
           r == Leaving(stack[t], "await") \o << Calling(g, "body") >>
<1>1. /\ Executes(t, f) /\ stack' = [stack EXCEPT ![t] = r]
      /\ frame' = [frame EXCEPT ![f] = [frame[f] EXCEPT !.state = "suspended", !.child = g, !.body = locals],
                                ![g] = G]
  BY DEF CoAwait
<1>2. /\ stack[t] \in Seq(Calls) /\ stack[t] # << >> /\ frame[f].state = "running"
      /\ frame[f] \in FrameAt(f) /\ \A h \in Frame : Executes(t, h) <=> h = f
      /\ \A i \in 1..(Len(stack[t]) - 1) : stack[t][i].in # "body"
  BY <1>1, ExecutedFrame DEF Control
<1>3. /\ g \in Frame /\ g # f /\ g # None /\ g[2] = f[2] + 1 /\ Caller(g) = f /\ g[1] = f[1]
      /\ f[2] \in Nat \ {0}
  BY FrameAddresses
<1>4. frame[g] = Gone
  BY <1>2, Callees
<1>5. [frame[f] EXCEPT !.state = "suspended", !.child = g, !.body = locals] = F /\ F \in FrameAt(f)
  <2>1. g \in {None} \cup (Frame \cap {CalleeOf(f)})
    BY <1>3
  <2>2. PICK child \in {None} \cup (Frame \cap {CalleeOf(f)}),
          H \in FrameAt(f) : child = g /\ H = frame[f]
    BY <1>2, <2>1
  <2>3. /\ [H EXCEPT !.state = "suspended", !.child = child, !.body = locals] =
              FrameOf(H.continuation, "suspended", child, H.value, locals)
        /\ [H EXCEPT !.state = "suspended", !.child = child, !.body = locals] \in FrameAt(f)
    BY FrameAwaits
  <2> QED BY <2>2, <2>3
<1>6. G \in FrameAt(g)
  <2>1. g[2] # 1
    BY <1>3
  <2> QED BY <1>3, <2>1 DEF FrameAt, NewFrame, NoValue
<1>7. /\ frame' = [h \in Frame |-> frame'[h]] /\ frame'[f] = F /\ frame'[g] = G
      /\ \A h \in Frame : h # f /\ h # g => frame'[h] = frame[h]
      /\ \A h \in Frame : frame'[h] \in {Gone} \cup FrameAt(h)
  BY <1>1, <1>3, <1>5, <1>6, TwoFrameChanges DEF Control
<1>8. /\ F.state = "suspended" /\ F.child = g
      /\ G.state = "running" /\ G.child = None /\ frame[g].state = "gone"
  BY <1>4, GoneState DEF NewFrame, FrameOf
<1>9. /\ r \in Seq(Calls) /\ Len(r) = Len(stack[t]) + 1 /\ r # << >>
      /\ r[Len(r)] = Calling(g, "body") /\ \A i \in 1..(Len(r) - 1) : r[i].in # "body"
  BY <1>2, <1>3, CallsEntered
<1> HIDE DEF F, G, g, r
<1>10. Nested'
  <2> SUFFICES ASSUME NEW h \in Frame PROVE Joined(h)'
    BY DEF Nested
  <2>1. Joined(f) /\ Joined(h)
    BY DEF Control, Nested
  <2>2. CASE h = f
    <3>1. f[2] > 1 => Caller(f) \in Frame /\ Caller(f) # f /\ Caller(f) # g
      BY <1>3, FrameAddresses
    <3>2. f[2] > 1 => frame'[Caller(f)] = frame[Caller(f)]
      BY <1>7, <3>1
    <3>3. CalleeOf(f) = g
      BY DEF g
    <3> QED BY <1>2, <1>3, <1>7, <1>8, <2>1, <2>2, <3>2, <3>3 DEF Joined
  <2>3. CASE h = g
    BY <1>3, <1>7, <1>8, <2>3 DEF Joined
  <2>4. CASE h # f /\ h # g
    <3>1. h[2] > 1 => Caller(h) \in Frame /\ Caller(h) # f /\ CalleeOf(Caller(h)) = h
      BY <2>4, FrameAddresses DEF g
    <3>2. h[2] > 1 /\ Caller(h) = g => frame[g].state = "gone" /\ frame'[g].child = None
            /\ frame[h].state = "gone"
      BY <1>7, <1>8, <2>1 DEF Joined
    <3>3. frame[h].state # "gone" /\ frame[h].child # None =>
            CalleeOf(h) \in Frame /\ CalleeOf(h) # g
      BY <1>3, <2>4, Callees, FrameAddresses
    <3>4. CASE h[2] > 1 /\ Caller(h) = g
      <4>1. frame'[h] = frame[h] /\ h # None
        BY <1>7, <2>4, FrameAddresses
      <4> QED BY <1>7, <1>8, <2>1, <3>2, <3>4, <4>1 DEF Joined
    <3>5. CASE ~(h[2] > 1 /\ Caller(h) = g)
      <4>1. frame'[h] = frame[h]
        BY <1>7, <2>4
      <4>2. h[2] > 1 => frame'[Caller(h)] = frame[Caller(h)]
        BY <1>7, <3>1, <3>5
      <4>3. frame[h].state # "gone" /\ frame[h].child # None =>
              (frame'[CalleeOf(h)].state = "final" <=> frame[CalleeOf(h)].state = "final")
        BY <1>2, <1>7, <1>8, <3>3
      <4> QED BY <4>1, <4>2, <4>3, JoinedSame
    <3> QED BY <3>4, <3>5
  <2> QED BY <2>2, <2>3, <2>4
<1>11. Waiting' = Waiting
  BY <1>2, <1>3, <1>7, <1>8 DEF Waiting
<1>12. stack' \in [Thread -> Seq(Calls)] /\ Executed'
  <2>1. \A h \in Frame : r # << >> /\ r[Len(r)] = Calling(h, "body") <=> h = g
    BY <1>3, <1>9 DEF Calling
  <2>2. \A h \in Frame : frame'[h].state = "running" <=>
           \/ frame[h].state = "running" /\ ~Executes(t, h)
           \/ r # << >> /\ r[Len(r)] = Calling(h, "body")
    BY <1>2, <1>3, <1>7, <1>8, <2>1
  <2>3. \A h \in Frame : r # << >> /\ r[Len(r)] = Calling(h, "body") =>
           frame[h].state # "running" \/ Executes(t, h)
    BY <1>8, <2>1
  <2> QED BY <1>1, <1>9, <2>2, <2>3, ExecutedNext DEF Control
<1>13. stack'[t] = r /\ \A u \in Thread : u # t => stack'[u] = stack[u]
  BY <1>1 DEF Control, TaskTypes
<1>14. Control'
  BY <1>7, <1>10, <1>12 DEF Control, TaskTypes
<1>15. Top(t)' = Calling(g, "body")
  BY <1>9, <1>13 DEF Top
<1> QED BY <1>7, <1>9, <1>11, <1>13, <1>14, <1>15 DEF F, G, g

\* The end of a coroutine: its frame is kept, and the coroutine that awaits it, if
\* any, runs in its place.
LEMMA Finished ==
  ASSUME Control, NEW t \in Thread, NEW f \in Frame, frame[f].child = None, FinalSuspend(t, f)
  PROVE  /\ Control' /\ Waiting' = Waiting
         /\ frame'[f] = FrameOf(frame[f].continuation, "final", None, frame[f].value, frame[f].body)
         /\ f[2] > 1 =>
              frame'[Caller(f)] = FrameOf(frame[Caller(f)].continuation, "running", f,
                                          frame[Caller(f)].value, frame[Caller(f)].body)
         /\ \A g \in Frame : g # f /\ ~(f[2] > 1 /\ g = Caller(f)) => frame'[g] = frame[g]
         /\ \A u \in Thread : u # t => stack'[u] = stack[u]
         /\ f[2] = 1 => Len(stack'[t]) = Len(stack[t]) /\ Top(t)'.in # "body"
         /\ f[2] > 1 => Len(stack'[t]) = Len(stack[t]) + 1 /\ Top(t)' = Calling(Caller(f), "body")
<1> DEFINE c == Caller(f)
           F == FrameOf(frame[f].continuation, "final", None, frame[f].value, frame[f].body)
           G == FrameOf(frame[c].continuation, "running", f, frame[c].value, frame[c].body)
           l == Leaving(stack[t], "final")
           r == l \o << Calling(c, "body") >>
<1>1. Executes(t, f)
  BY DEF FinalSuspend
<1>2. /\ stack[t] \in Seq(Calls) /\ stack[t] # << >> /\ frame[f].state = "running"
      /\ frame[f] \in FrameAt(f) /\ \A h \in Frame : Executes(t, h) <=> h = f
      /\ \A i \in 1..(Len(stack[t]) - 1) : stack[t][i].in # "body"
  BY <1>1, ExecutedFrame DEF Control
<1>3. frame[f].continuation = IF f[2] = 1 THEN None ELSE c
  BY <1>2, FrameFields
<1>4. [frame[f] EXCEPT !.state = "final"] = F /\ F \in FrameAt(f)
  BY <1>2 DEF FrameAt, FrameOf
<1>5. F.state = "final" /\ F.child = None
  BY DEF FrameOf
<1>6. f[2] \in 1..3 /\ f # None /\ frame[f].state # "gone"
  BY <1>2, FrameAddresses
<1>7. CASE f[2] = 1
  <2>1. stack' = [stack EXCEPT ![t] = l] /\ frame' = [frame EXCEPT ![f] = F]
    BY <1>3, <1>4, <1>7 DEF FinalSuspend
  <2>2. /\ l \in Seq(Calls) /\ Len(l) = Len(stack[t]) /\ l # << >>
             /\ \A i \in 1..Len(l) : l[i].in # "body"
    BY <1>2, CallsEntered
  <2>3. /\ frame' = [h \in Frame |-> frame'[h]] /\ frame'[f] = F
        /\ \A h \in Frame : h # f => frame'[h] = frame[h]
        /\ \A h \in Frame : frame'[h] \in {Gone} \cup FrameAt(h)
    BY <1>4, <2>1, FrameChanges DEF Control
  <2> HIDE DEF F, l
  <2>4. Nested'
    <3> SUFFICES ASSUME NEW h \in Frame PROVE Joined(h)'
      BY DEF Nested
    <3>1. CASE h = f
      BY <1>5, <1>7, <2>3, <3>1 DEF Joined
    <3>2. CASE h # f
      <4>1. h[2] > 1 /\ Caller(h) = f => frame[f].child # h
        BY <1>6, FrameAddresses
      <4>2. h[2] > 1 => Caller(h) \in Frame
        BY FrameAddresses
      <4>3. h[2] > 1 => /\ frame'[Caller(h)].state # "gone" <=> frame[Caller(h)].state # "gone"
                        /\ frame'[Caller(h)].child = h <=> frame[Caller(h)].child = h
        <5>1. h # None
          BY FrameAddresses
        <5> QED BY <1>5, <1>6, <2>3, <4>1, <4>2, <5>1
      <4>4. frame[h].state # "gone" /\ frame[h].child # None
              => CalleeOf(h) \in Frame /\ CalleeOf(h) # f
        BY <1>7, Callees, FrameAddresses
      <4> QED BY <2>3, <3>2, <4>3, <4>4, JoinedSame
    <3> QED BY <3>1, <3>2
  <2>5. Waiting' = Waiting
    BY <1>2, <1>5, <2>3 DEF Waiting
  <2>6. stack' \in [Thread -> Seq(Calls)] /\ Executed'
    <3>1. \A h \in Frame : ~(l # << >> /\ l[Len(l)] = Calling(h, "body"))
      <4>1. Len(l) \in 1..Len(l)
        BY <2>2, LenProperties, EmptySeq
      <4> QED BY <2>2, <4>1 DEF Calling
    <3>2. \A h \in Frame : frame'[h].state = "running" <=>
           \/ frame[h].state = "running" /\ ~Executes(t, h)
           \/ l # << >> /\ l[Len(l)] = Calling(h, "body")
      BY <1>2, <1>5, <2>3, <3>1
    <3>3. \A i \in 1..(Len(l) - 1) : l[i].in # "body"
      BY <2>2, LenProperties
    <3> QED BY <2>1, <2>2, <3>1, <3>2, <3>3, ExecutedNext DEF Control
  <2>7. stack'[t] = l /\ \A u \in Thread : u # t => stack'[u] = stack[u]
    BY <2>1 DEF Control, TaskTypes
  <2>8. Control'
    BY <2>3, <2>4, <2>6 DEF Control, TaskTypes
  <2>9. Top(t)'.in # "body"
    <3>1. Len(l) \in 1..Len(l)
      BY <2>2, LenProperties, EmptySeq
    <3> QED BY <2>2, <2>7, <3>1 DEF Top
  <2> QED BY <1>7, <2>2, <2>3, <2>5, <2>7, <2>8, <2>9 DEF F
<1>8. CASE f[2] > 1
  <2>1. /\ c \in Frame /\ c # f /\ c # None /\ c[2] < 3 /\ CalleeOf(c) = f
        /\ frame[c].state # "gone" /\ frame[c].child = f
    BY <1>6, <1>8, Callees, FrameAddresses
  <2>2. frame[c].state = "suspended" /\ frame[c] \in FrameAt(c)
    <3>1. frame[c].state = "suspended"
      BY <1>2, <1>6, <2>1 DEF Control, Nested, Joined
    <3> QED BY <2>1, <3>1, GoneState DEF Control, TaskTypes
  <2>3. [frame[c] EXCEPT !.state = "running"] = G /\ G \in FrameAt(c)
    BY <2>1, <2>2 DEF FrameAt, FrameOf
  <2>4. /\ stack' = [stack EXCEPT ![t] = r]
        /\ frame' = [frame EXCEPT ![f] = F, ![c] = G]
    <3>1. frame' = [frame EXCEPT ![f].state = "final", ![c].state = "running"]
      BY <1>3, <1>8, <2>1 DEF FinalSuspend
    <3>2. frame' = [frame EXCEPT ![f] = [frame[f] EXCEPT !.state = "final"],
                                 ![c] = [frame[c] EXCEPT !.state = "running"]]
      BY <2>1, <3>1
    <3>3. stack' = [stack EXCEPT ![t] = r]
      BY <1>3, <1>8, <2>1 DEF FinalSuspend
    <3> HIDE DEF F, G, r
    <3>4. frame' = [frame EXCEPT ![f] = F, ![c] = G]
      BY <1>4, <2>3, <3>2, Zenon
    <3> QED BY <3>3, <3>4
  <2>5. /\ frame' = [h \in Frame |-> frame'[h]] /\ frame'[f] = F /\ frame'[c] = G
        /\ \A h \in Frame : h # f /\ h # c => frame'[h] = frame[h]
        /\ \A h \in Frame : frame'[h] \in {Gone} \cup FrameAt(h)
    BY <1>4, <2>1, <2>3, <2>4, TwoFrameChanges DEF Control
  <2>6. /\ r \in Seq(Calls) /\ Len(r) = Len(stack[t]) + 1 /\ r # << >>
        /\ r[Len(r)] = Calling(c, "body") /\ \A i \in 1..(Len(r) - 1) : r[i].in # "body"
    BY <1>2, <2>1, CallsEntered
  <2>7. G.state = "running" /\ G.child = f
    BY DEF FrameOf
  <2> HIDE DEF F, G, c, r
  <2>8. Nested'
    <3> SUFFICES ASSUME NEW h \in Frame PROVE Joined(h)'
      BY DEF Nested
    <3>0. Joined(h) /\ Joined(f) /\ Joined(c)
      BY <2>1 DEF Control, Nested
    <3>1. CASE h = f
      BY <1>5, <1>8, <2>1, <2>5, <2>7, <3>1 DEF Joined, c
    <3>2. CASE h = c
      <4>1. h[2] > 1 => Caller(h) \in Frame /\ Caller(h) # f /\ Caller(h) # c
        BY <2>1, <3>2, FrameAddresses
      <4>2. h[2] > 1 => frame'[Caller(h)] = frame[Caller(h)]
        BY <2>5, <4>1
      <4>3. frame'[h].child = frame[h].child /\ frame'[h].state = "running"
        BY <2>1, <2>5, <2>7, <3>2
      <4> QED BY <1>5, <2>1, <2>2, <2>5, <3>0, <3>2, <4>2, <4>3 DEF Joined
    <3>3. CASE h # f /\ h # c
      <4>1. h[2] > 1 => Caller(h) \in Frame
        BY FrameAddresses
      <4>2. \A g \in Frame : frame'[g].child = frame[g].child
                               /\ (frame'[g].state = "gone" <=> frame[g].state = "gone")
        BY <1>5, <1>6, <2>1, <2>5, <2>7
      <4>3. frame[h].state # "gone" /\ frame[h].child # None
              => CalleeOf(h) \in Frame /\ CalleeOf(h) # f
        BY <1>8, <3>3, Callees, FrameAddresses DEF c
      <4>4. frame[h].state # "gone" /\ frame[h].child # None =>
              (frame'[CalleeOf(h)].state = "final" <=> frame[CalleeOf(h)].state = "final")
        BY <2>2, <2>5, <2>7, <4>3
      <4> QED BY <2>5, <3>3, <4>1, <4>2, <4>4, JoinedSame
    <3> QED BY <3>1, <3>2, <3>3
  <2>9. Waiting' = Waiting
    BY <1>2, <1>5, <1>6, <2>1, <2>5, <2>7 DEF Waiting
  <2>10. stack' \in [Thread -> Seq(Calls)] /\ Executed'
    <3>1. \A h \in Frame : r # << >> /\ r[Len(r)] = Calling(h, "body") <=> h = c
      BY <2>1, <2>6 DEF Calling
    <3>2. \A h \in Frame : frame'[h].state = "running" <=>
           \/ frame[h].state = "running" /\ ~Executes(t, h)
           \/ r # << >> /\ r[Len(r)] = Calling(h, "body")
      BY <1>2, <1>5, <2>1, <2>5, <2>7, <3>1
    <3>3. \A h \in Frame : r # << >> /\ r[Len(r)] = Calling(h, "body") =>
           frame[h].state # "running" \/ Executes(t, h)
      BY <2>2, <3>1
    <3> QED BY <2>4, <2>6, <3>2, <3>3, ExecutedNext DEF Control
  <2>11. stack'[t] = r /\ \A u \in Thread : u # t => stack'[u] = stack[u]
    BY <2>4 DEF Control, TaskTypes
  <2>12. Control'
    BY <2>5, <2>8, <2>10 DEF Control, TaskTypes
  <2>13. Top(t)' = Calling(c, "body")
    BY <2>6, <2>11 DEF Top
  <2> QED BY <1>8, <2>5, <2>6, <2>9, <2>11, <2>12, <2>13 DEF F, G, c
<1> QED BY <1>6, <1>7, <1>8

\* The end of a co_await: the task that has ended is destroyed.
LEMMA AwaitEnded ==
  ASSUME Control, NEW t \in Thread, NEW f \in Frame, NEW locals \in BodyAt(f),
         AwaitResume(t, f, locals)
  PROVE  /\ Control' /\ Waiting' = Waiting /\ UNCHANGED stack
         /\ Executes(t, f) /\ f[2] < 3 /\ frame[CalleeOf(f)].state = "final"
         /\ frame[f].child = CalleeOf(f)
         /\ frame'[f] = FrameOf(frame[f].continuation, "running", None, frame[f].value, locals)
         /\ frame'[CalleeOf(f)] = Gone
         /\ \A g \in Frame : g # f /\ g # CalleeOf(f) => frame'[g] = frame[g]
<1> DEFINE g == CalleeOf(f)
           F == FrameOf(frame[f].continuation, "running", None, frame[f].value, locals)
<1>1. Executes(t, f) /\ frame[f].child # None /\ stack' = stack
  BY DEF AwaitResume
<1>2. /\ frame[f].state = "running" /\ frame[f] \in FrameAt(f)
      /\ \A h \in Frame : Executes(t, h) <=> h = f
  BY <1>1, ExecutedFrame DEF Control
<1>3. /\ f[2] < 3 /\ frame[f].child = g /\ g \in Frame /\ g # f /\ g # None /\ Caller(g) = f
           /\ g[2] > 1
      /\ frame[g].state = "final"
  <2>1. f[2] < 3 /\ frame[f].child = g /\ g \in Frame
    BY <1>1, <1>2, Callees
  <2>2. g # f /\ g # None /\ Caller(g) = f /\ g[2] > 1
    BY <2>1, FrameAddresses
  <2>3. frame[g].state = "final"
    BY <1>1, <1>2, <2>1 DEF Control, Nested, Joined
  <2> QED BY <2>1, <2>2, <2>3
<1>4. [frame[f] EXCEPT !.child = None, !.body = locals] = F /\ F \in FrameAt(f)
  <2>1. PICK H \in FrameAt(f) : H = frame[f]
    BY <1>2
  <2>2. /\ [H EXCEPT !.child = None, !.body = locals]
             = FrameOf(H.continuation, H.state, None, H.value, locals)
        /\ [H EXCEPT !.child = None, !.body = locals] \in FrameAt(f)
    BY FrameGoesOn
  <2> QED BY <1>2, <2>1, <2>2
<1>5. F.state = "running" /\ F.child = None /\ Gone.state = "gone"
  BY GoneState DEF FrameOf
<1> HIDE DEF F, g
<1>6. frame' = [frame EXCEPT ![f] = F, ![g] = Gone]
  <2>1. frame' = [frame EXCEPT ![f] = [frame[f] EXCEPT !.child = None, !.body = locals],
                              ![frame[f].child] = Gone]
    BY DEF AwaitResume
  <2> QED BY <1>3, <1>4, <2>1, Zenon
<1>7. /\ frame' = [h \in Frame |-> frame'[h]] /\ frame'[f] = F /\ frame'[g] = Gone
      /\ \A h \in Frame : h # f /\ h # g => frame'[h] = frame[h]
      /\ \A h \in Frame : frame'[h] \in {Gone} \cup FrameAt(h)
  <2>1. PICK G \in {Gone} \cup FrameAt(g), H \in {Gone} \cup FrameAt(f) : G = Gone /\ H = F
    BY <1>4
  <2>2. frame' = [frame EXCEPT ![f] = H, ![g] = G]
    BY <1>6, <2>1
  <2>3. /\ frame' = [h \in Frame |-> frame'[h]] /\ frame'[f] = H /\ frame'[g] = G
        /\ \A h \in Frame : h # f /\ h # g => frame'[h] = frame[h]
        /\ \A h \in Frame : frame'[h] \in {Gone} \cup FrameAt(h)
    <3>1. g \in Frame /\ g # f /\ TaskTypes
      BY <1>3 DEF Control
    <3> QED BY <2>2, <3>1, TwoFrameChanges
  <2> QED BY <2>1, <2>3
<1>8. frame[g].child = None
  BY <1>3, Callees
<1>9. Nested'
  <2> SUFFICES ASSUME NEW h \in Frame PROVE Joined(h)'
    BY DEF Nested
  <2>0. Joined(h) /\ Joined(f) /\ Joined(g)
    BY <1>3 DEF Control, Nested
  <2>1. CASE h = f
    <3>1. f[2] > 1 => Caller(f) \in Frame /\ Caller(f) # f /\ Caller(f) # g
      BY <1>3, FrameAddresses
    <3>2. f[2] > 1 => frame'[Caller(f)] = frame[Caller(f)]
      BY <1>7, <3>1
    <3> QED BY <1>2, <1>5, <1>7, <2>0, <2>1, <3>2 DEF Joined
  <2>2. CASE h = g
    BY <1>3, <1>5, <1>7, <2>2 DEF Joined
  <2>3. CASE h # f /\ h # g
    <3>1. h[2] > 1 => Caller(h) \in Frame /\ Caller(h) # f
      BY <2>3, FrameAddresses DEF g
    <3>2. frame[h].state # "gone" /\ frame[h].child # None
            => CalleeOf(h) \in Frame /\ CalleeOf(h) # g
      BY <1>3, <2>3, Callees, FrameAddresses
    <3>3. h[2] > 1 /\ Caller(h) = g => frame[g].child # h /\ frame'[g].state = "gone"
            /\ frame[h].state = "gone"
      <4>1. h # None
        BY FrameAddresses
      <4> QED BY <1>5, <1>7, <1>8, <2>0, <4>1 DEF Joined
    <3>4. CASE h[2] > 1 /\ Caller(h) = g
      BY <1>7, <2>0, <2>3, <3>3, <3>4 DEF Joined
    <3>5. CASE ~(h[2] > 1 /\ Caller(h) = g)
      <4>1. h[2] > 1 => frame'[Caller(h)] = frame[Caller(h)]
        BY <1>7, <3>1, <3>5
      <4>2. frame[h].state # "gone" /\ frame[h].child # None =>
              (frame'[CalleeOf(h)].state = "final" <=> frame[CalleeOf(h)].state = "final")
        BY <1>2, <1>5, <1>7, <3>2
      <4> QED BY <1>7, <2>3, <4>1, <4>2, JoinedSame
    <3> QED BY <3>4, <3>5
  <2> QED BY <2>1, <2>2, <2>3
<1>10. Waiting' = Waiting
  BY <1>2, <1>3, <1>5, <1>7 DEF Waiting
<1>11. stack' \in [Thread -> Seq(Calls)] /\ Executed'
  <2>1. \A h \in Frame : frame'[h].state = "running" <=> frame[h].state = "running"
    BY <1>2, <1>3, <1>5, <1>7
  <2> QED BY <1>1, <2>1 DEF Control, TaskTypes, Executed, Executes, Top
<1>12. Control'
  BY <1>7, <1>9, <1>11 DEF Control, TaskTypes
<1> QED BY <1>1, <1>2, <1>3, <1>7, <1>10, <1>12 DEF F, g

\* Changes of one frame that does not await a task, and stays.
LEMMA NestedOne ==
  ASSUME Control, NEW f \in Frame, NEW F \in FrameAt(f), frame[f].child = None, F.child = None,
         frame[f].state \in {"running", "suspended"}, F.state \in {"running", "suspended"},
         F.state = "suspended" => f[2] = 3, frame' = [frame EXCEPT ![f] = F]
  PROVE  /\ Nested' /\ frame' = [h \in Frame |-> frame'[h]] /\ frame'[f] = F
         /\ \A h \in Frame : h # f => frame'[h] = frame[h]
         /\ \A h \in Frame : frame'[h] \in {Gone} \cup FrameAt(h)
<1>1. /\ frame' = [h \in Frame |-> frame'[h]] /\ frame'[f] = F
      /\ \A h \in Frame : h # f => frame'[h] = frame[h]
      /\ \A h \in Frame : frame'[h] \in {Gone} \cup FrameAt(h)
  BY FrameChanges DEF Control
<1>2. ASSUME NEW h \in Frame PROVE Joined(h)'
  <2>0. Joined(h)
    BY DEF Control, Nested
  <2>1. CASE h = f
    <3>1. f[2] > 1 => Caller(f) \in Frame /\ Caller(f) # f
      BY FrameAddresses
    <3>2. f[2] > 1 => frame'[Caller(f)] = frame[Caller(f)]
      BY <1>1, <3>1
    <3> QED BY <1>1, <2>0, <2>1, <3>2 DEF Joined
  <2>2. CASE h # f
    <3>1. h[2] > 1 => Caller(h) \in Frame
      BY FrameAddresses
    <3>2. \A g \in Frame : frame'[g].child = frame[g].child
                             /\ (frame'[g].state = "gone" <=> frame[g].state = "gone")
      BY <1>1
    <3>3. frame[h].state # "gone" /\ frame[h].child # None => CalleeOf(h) \in Frame
      BY Callees
    <3>4. \A g \in Frame : frame'[g].state = "final" <=> frame[g].state = "final"
      BY <1>1
    <3> QED BY <1>1, <2>2, <3>1, <3>2, <3>3, <3>4, JoinedSame
  <2> QED BY <2>1, <2>2
<1> QED BY <1>1, <1>2 DEF Nested

\* A coroutine waits for the kernel.
LEMMA Suspended ==
  ASSUME Control, NEW t \in Thread, NEW f \in Frame, f[2] = 3, Suspend(t, f)
  PROVE  /\ Control' /\ Waiting' = Waiting \cup {f}
         /\ Executes(t, f) /\ frame[f].child = None /\ f \notin Waiting
         /\ frame'[f] = FrameOf(frame[f].continuation, "suspended", None, frame[f].value, frame[f].body)
         /\ \A g \in Frame : g # f => frame'[g] = frame[g]
         /\ \A u \in Thread : u # t => stack'[u] = stack[u]
         /\ Len(stack'[t]) = Len(stack[t]) /\ Top(t)'.in # "body"
<1> DEFINE F == FrameOf(frame[f].continuation, "suspended", None, frame[f].value, frame[f].body)
           l == Leaving(stack[t], "await")
<1>1. Executes(t, f) /\ stack' = [stack EXCEPT ![t] = l]
  BY DEF Suspend
<1>2. /\ stack[t] \in Seq(Calls) /\ stack[t] # << >> /\ frame[f].state = "running"
      /\ frame[f] \in FrameAt(f) /\ \A h \in Frame : Executes(t, h) <=> h = f
      /\ \A i \in 1..(Len(stack[t]) - 1) : stack[t][i].in # "body"
  BY <1>1, ExecutedFrame DEF Control
<1>3. frame[f].child = None
  BY <1>2, FrameFields
<1>4. [frame[f] EXCEPT !.state = "suspended"] = F /\ F \in FrameAt(f)
  BY <1>2, <1>3 DEF FrameAt, FrameOf
<1>5. frame' = [frame EXCEPT ![f] = F]
  BY <1>4 DEF Suspend
<1>6. F.state = "suspended" /\ F.child = None
  BY DEF FrameOf
<1>7. /\ l \in Seq(Calls) /\ Len(l) = Len(stack[t]) /\ l # << >>
           /\ \A i \in 1..Len(l) : l[i].in # "body"
  BY <1>2, CallsEntered
<1>8. Len(l) \in 1..Len(l)
  BY <1>7, LenProperties, EmptySeq
<1> HIDE DEF F, l
<1>9. /\ Nested' /\ frame' = [h \in Frame |-> frame'[h]] /\ frame'[f] = F
      /\ \A h \in Frame : h # f => frame'[h] = frame[h]
      /\ \A h \in Frame : frame'[h] \in {Gone} \cup FrameAt(h)
  BY <1>2, <1>3, <1>4, <1>5, <1>6, NestedOne
<1>10. Waiting' = Waiting \cup {f} /\ f \notin Waiting
  BY <1>2, <1>6, <1>9 DEF Waiting
<1>11. stack' \in [Thread -> Seq(Calls)] /\ Executed'
  <2>1. \A h \in Frame : ~(l # << >> /\ l[Len(l)] = Calling(h, "body"))
    BY <1>7, <1>8 DEF Calling
  <2>2. \A h \in Frame : frame'[h].state = "running" <=>
           \/ frame[h].state = "running" /\ ~Executes(t, h)
           \/ l # << >> /\ l[Len(l)] = Calling(h, "body")
    BY <1>2, <1>6, <1>9, <2>1
  <2>3. \A i \in 1..(Len(l) - 1) : l[i].in # "body"
    BY <1>7, <1>8
  <2> QED BY <1>1, <1>7, <2>1, <2>2, <2>3, ExecutedNext DEF Control
<1>12. stack'[t] = l /\ \A u \in Thread : u # t => stack'[u] = stack[u]
  BY <1>1 DEF Control, TaskTypes
<1>13. Top(t)'.in # "body"
  BY <1>7, <1>8, <1>12 DEF Top
<1>14. Control'
  BY <1>9, <1>11 DEF Control, TaskTypes
<1> QED BY <1>1, <1>3, <1>7, <1>9, <1>10, <1>12, <1>13, <1>14 DEF F

\* A coroutine that is refused goes on inside its own await_suspend.
LEMMA ResumedInside ==
  ASSUME Control, NEW t \in Thread, NEW f \in Frame, f[2] = 3, NEW value \in Int,
         ResumeInside(t, f, value)
  PROVE  /\ Control' /\ Waiting' = Waiting
         /\ Executes(t, f) /\ frame[f].child = None
         /\ frame'[f] = FrameOf(frame[f].continuation, "running", None, value, frame[f].body)
         /\ \A g \in Frame : g # f => frame'[g] = frame[g]
         /\ \A u \in Thread : u # t => stack'[u] = stack[u]
         /\ Len(stack'[t]) = Len(stack[t]) + 1 /\ Top(t)' = Calling(f, "body")
<1> DEFINE F == FrameOf(frame[f].continuation, "running", None, value, frame[f].body)
           r == Leaving(stack[t], "await") \o << Calling(f, "body") >>
<1>1. Executes(t, f) /\ stack' = [stack EXCEPT ![t] = r]
  BY DEF ResumeInside
<1>2. /\ stack[t] \in Seq(Calls) /\ stack[t] # << >> /\ frame[f].state = "running"
      /\ frame[f] \in FrameAt(f) /\ \A h \in Frame : Executes(t, h) <=> h = f
      /\ \A i \in 1..(Len(stack[t]) - 1) : stack[t][i].in # "body"
  BY <1>1, ExecutedFrame DEF Control
<1>3. frame[f].child = None
  BY <1>2, FrameFields
<1>4. [frame[f] EXCEPT !.value = value] = F /\ F \in FrameAt(f)
  BY <1>2, <1>3 DEF FrameAt, FrameOf
<1>5. frame' = [frame EXCEPT ![f] = F]
  BY <1>4 DEF ResumeInside
<1>6. F.state = "running" /\ F.child = None
  BY DEF FrameOf
<1>7. /\ r \in Seq(Calls) /\ Len(r) = Len(stack[t]) + 1 /\ r # << >>
      /\ r[Len(r)] = Calling(f, "body") /\ \A i \in 1..(Len(r) - 1) : r[i].in # "body"
  BY <1>2, CallsEntered
<1> HIDE DEF F, r
<1>8. /\ Nested' /\ frame' = [h \in Frame |-> frame'[h]] /\ frame'[f] = F
      /\ \A h \in Frame : h # f => frame'[h] = frame[h]
      /\ \A h \in Frame : frame'[h] \in {Gone} \cup FrameAt(h)
  BY <1>2, <1>3, <1>4, <1>5, <1>6, NestedOne
<1>9. Waiting' = Waiting
  BY <1>2, <1>6, <1>8 DEF Waiting
<1>10. stack' \in [Thread -> Seq(Calls)] /\ Executed'
  <2>1. \A h \in Frame : r # << >> /\ r[Len(r)] = Calling(h, "body") <=> h = f
    BY <1>7 DEF Calling
  <2>2. \A h \in Frame : frame'[h].state = "running" <=>
           \/ frame[h].state = "running" /\ ~Executes(t, h)
           \/ r # << >> /\ r[Len(r)] = Calling(h, "body")
    BY <1>2, <1>6, <1>8, <2>1
  <2>3. \A h \in Frame : r # << >> /\ r[Len(r)] = Calling(h, "body") =>
           frame[h].state # "running" \/ Executes(t, h)
    BY <1>1, <2>1
  <2> QED BY <1>1, <1>7, <2>2, <2>3, ExecutedNext DEF Control
<1>11. stack'[t] = r /\ \A u \in Thread : u # t => stack'[u] = stack[u]
  BY <1>1 DEF Control, TaskTypes
<1>12. Top(t)' = Calling(f, "body")
  BY <1>7, <1>11 DEF Top
<1>13. Control'
  BY <1>8, <1>10 DEF Control, TaskTypes
<1> QED BY <1>1, <1>3, <1>7, <1>8, <1>9, <1>11, <1>12, <1>13 DEF F

\* A coroutine that waits is resumed with its answer.
LEMMA Resumed ==
  ASSUME Control, NEW t \in Thread, NEW f \in Frame, f \in Waiting, NEW value \in Int,
         Resume(t, f, value)
  PROVE  /\ Control' /\ Waiting' = Waiting \ {f}
         /\ f[2] = 3 /\ stack[t] = << >>
         /\ frame'[f] = FrameOf(frame[f].continuation, "running", None, value, frame[f].body)
         /\ \A g \in Frame : g # f => frame'[g] = frame[g]
         /\ \A u \in Thread : u # t => stack'[u] = stack[u]
         /\ stack'[t] = << Calling(f, "body") >>
<1> DEFINE F == FrameOf(frame[f].continuation, "running", None, value, frame[f].body)
           r == << Calling(f, "body") >>
<1>1. stack[t] = << >> /\ stack' = [stack EXCEPT ![t] = r]
  BY DEF Resume
<1>2. frame[f].state = "suspended" /\ frame[f].child = None /\ f[2] = 3 /\ frame[f] \in FrameAt(f)
  BY GoneState DEF Waiting, Control, TaskTypes, Nested, Joined
<1>3. [frame[f] EXCEPT !.state = "running", !.value = value] = F /\ F \in FrameAt(f)
  <2>1. PICK H \in FrameAt(f) : H = frame[f]
    BY <1>2
  <2>2. /\ [H EXCEPT !.state = "running", !.value = value]
             = FrameOf(H.continuation, "running", H.child, value, H.body)
        /\ [H EXCEPT !.state = "running", !.value = value] \in FrameAt(f)
    BY FrameResumes
  <2> QED BY <1>2, <2>1, <2>2
<1>4. F.state = "running" /\ F.child = None
  BY DEF FrameOf
<1>5. /\ r \in Seq(Calls) /\ r # << >> /\ r[Len(r)] = Calling(f, "body")
      /\ \A i \in 1..(Len(r) - 1) : r[i].in # "body"
  BY CallsBegun
<1> HIDE DEF F, r
<1>6. frame' = [frame EXCEPT ![f] = F]
  <2>1. frame' = [frame EXCEPT ![f].state = "running", ![f].value = value]
    BY DEF Resume
  <2>2. frame' = [frame EXCEPT ![f] = [frame[f] EXCEPT !.state = "running", !.value = value]]
    BY <2>1 DEF Control, TaskTypes
  <2> QED BY <1>3, <2>2
<1>7. /\ Nested' /\ frame' = [h \in Frame |-> frame'[h]] /\ frame'[f] = F
      /\ \A h \in Frame : h # f => frame'[h] = frame[h]
      /\ \A h \in Frame : frame'[h] \in {Gone} \cup FrameAt(h)
  BY <1>2, <1>3, <1>4, <1>6, NestedOne
<1>8. Waiting' = Waiting \ {f}
  BY <1>2, <1>4, <1>7 DEF Waiting
<1>9. stack' \in [Thread -> Seq(Calls)] /\ Executed'
  <2>1. \A h \in Frame : r # << >> /\ r[Len(r)] = Calling(h, "body") <=> h = f
    BY <1>5 DEF Calling
  <2>2. \A h \in Frame : ~Executes(t, h)
    BY <1>1 DEF Executes
  <2>3. \A h \in Frame : frame'[h].state = "running" <=>
           \/ frame[h].state = "running" /\ ~Executes(t, h)
           \/ r # << >> /\ r[Len(r)] = Calling(h, "body")
    BY <1>4, <1>7, <2>1, <2>2
  <2>4. \A h \in Frame : r # << >> /\ r[Len(r)] = Calling(h, "body") =>
           frame[h].state # "running" \/ Executes(t, h)
    BY <1>2, <2>1
  <2> QED BY <1>1, <1>5, <2>3, <2>4, ExecutedNext DEF Control
<1>10. stack'[t] = r /\ \A u \in Thread : u # t => stack'[u] = stack[u]
  BY <1>1 DEF Control, TaskTypes
<1>11. Control'
  BY <1>7, <1>9 DEF Control, TaskTypes
<1> QED BY <1>1, <1>2, <1>7, <1>8, <1>10, <1>11 DEF F, r

\* A call returns: nothing executes but what did.
LEMMA Unwound ==
  ASSUME Control, NEW t \in Thread, Unwind(t)
  PROVE  /\ Control' /\ Waiting' = Waiting /\ UNCHANGED frame
         /\ \A u \in Thread : u # t => stack'[u] = stack[u]
         /\ Len(stack'[t]) = Len(stack[t]) - 1 /\ (stack'[t] # << >> => Top(t)'.in # "body")
<1> DEFINE r == SubSeq(stack[t], 1, Len(stack[t]) - 1)
<1>1. stack[t] # << >> /\ Top(t).in # "body" /\ stack' = [stack EXCEPT ![t] = r] /\ frame' = frame
  BY DEF Unwind
<1>2. stack[t] \in Seq(Calls) /\ \A i \in 1..(Len(stack[t]) - 1) : stack[t][i].in # "body"
  BY DEF Control, TaskTypes, Executed
<1>3. r \in Seq(Calls) /\ Len(r) = Len(stack[t]) - 1 /\ \A i \in 1..Len(r) : r[i].in # "body"
  BY <1>1, <1>2, CallsReturned
<1> HIDE DEF r
<1>4. r # << >> => Len(r) \in 1..Len(r)
  BY <1>3, LenProperties, EmptySeq
<1>5. stack' \in [Thread -> Seq(Calls)] /\ Executed'
  <2>1. \A h \in Frame : ~(r # << >> /\ r[Len(r)] = Calling(h, "body"))
    BY <1>3, <1>4 DEF Calling
  <2>2. \A h \in Frame : ~Executes(t, h)
    BY <1>1 DEF Executes, Calling
  <2>3. \A h \in Frame : frame'[h].state = "running" <=>
           \/ frame[h].state = "running" /\ ~Executes(t, h)
           \/ r # << >> /\ r[Len(r)] = Calling(h, "body")
    BY <1>1, <2>1, <2>2
  <2>4. \A i \in 1..(Len(r) - 1) : r[i].in # "body"
    BY <1>3, LenProperties
  <2> QED BY <1>1, <1>3, <2>1, <2>3, <2>4, ExecutedNext DEF Control
<1>6. stack'[t] = r /\ \A u \in Thread : u # t => stack'[u] = stack[u]
  BY <1>1 DEF Control, TaskTypes
<1>7. Nested' /\ Waiting' = Waiting
  BY <1>1 DEF Control, Nested, Joined, Waiting
<1>8. Control'
  BY <1>1, <1>5, <1>7 DEF Control, TaskTypes
<1> QED BY <1>1, <1>3, <1>4, <1>6, <1>7, <1>8 DEF Top

-------------------------------------------------------------------------------
(* What follows from the parts *)

\* The longest piece, and the end of the last one.
LEMMA Bounds ==
  /\ MaxPiece \in Length /\ MaxPiece \in Nat /\ \A n \in Length : n \in Nat /\ n <= MaxPiece
  /\ MaxPos \in Nat /\ Pieces \in Nat /\ MaxFaults \in Nat /\ PipeSize \in Nat
  /\ \A n \in 0..Pieces : n * MaxPiece \in Nat /\ n * MaxPiece <= MaxPos
  /\ \A n \in 0..(Pieces - 1) : (n + 1) * MaxPiece = n * MaxPiece + MaxPiece
<1>1. PICK n \in Length : \A m \in Length : m <= n
  BY TransfersAssumption
<1>2. n >= n /\ \A m \in Length : n >= m
  BY <1>1, TransfersAssumption
<1>3. MaxPiece \in Length /\ \A m \in Length : MaxPiece >= m
  BY <1>1, <1>2 DEF MaxPiece, Max
<1>4. MaxPiece \in Nat /\ \A m \in Length : m \in Nat /\ m <= MaxPiece
  BY <1>3, TransfersAssumption
<1>5. Pieces \in Nat /\ MaxFaults \in Nat /\ PipeSize \in Nat
  BY TransfersAssumption
<1>6. \A p, m, q \in Nat : p <= q => p * m <= q * m
  <2> SUFFICES ASSUME NEW p \in Nat, NEW m \in Nat, NEW q \in Nat, p <= q PROVE p * m <= q * m
    OBVIOUS
  <2>1. PICK d \in Nat : q = p + d
    <3>1. q - p \in Nat /\ q = p + (q - p)
      OBVIOUS
    <3> QED BY <3>1
  <2>2. q * m = p * m + d * m
    BY <2>1
  <2>3. d * m \in Nat /\ p * m \in Nat
    OBVIOUS
  <2> QED BY <2>2, <2>3
<1>7. MaxPos \in Nat
  BY <1>4, <1>5 DEF MaxPos
<1>8. \A k \in 0..Pieces : k * MaxPiece \in Nat /\ k * MaxPiece <= MaxPos
  BY <1>4, <1>5, <1>6 DEF MaxPos
<1>9. \A k \in 0..(Pieces - 1) : (k + 1) * MaxPiece = k * MaxPiece + MaxPiece
  BY <1>4, <1>5
<1> QED BY <1>3, <1>4, <1>5, <1>7, <1>8, <1>9

\* The bodies of a client's frames, and what is known of their numbers.
LEMMA BodyTypes ==
  ASSUME Control, Types, Placed, NEW w \in Who
  PROVE  /\ frame[Root(w)] \in FrameAt(Root(w)) /\ frame[Root(w)].body \in ClientBody
         /\ pos[w] \in Nat /\ pos[w] <= MaxPos
         /\ frame[Piece(w)].state # "gone" =>
              /\ frame[Piece(w)] \in FrameAt(Piece(w)) /\ frame[Piece(w)].body \in BytesBody
         /\ frame[Chunk(w)].state # "gone" =>
              /\ frame[Chunk(w)] \in FrameAt(Chunk(w)) /\ frame[Chunk(w)].body \in CallBody
              /\ frame[Chunk(w)].child = None
              /\ frame[Piece(w)].state \in {"running", "suspended"}
                   /\ frame[Piece(w)].child = Chunk(w)
         /\ frame[Piece(w)].state # "gone" =>
              /\ frame[Root(w)].child = Piece(w)
                   /\ frame[Root(w)].state \in {"running", "suspended"}
              /\ frame[Piece(w)].state # "initial"
<1>1. /\ Root(w) \in Frame /\ Piece(w) \in Frame /\ Chunk(w) \in Frame
      /\ Root(w)[2] = 1 /\ Piece(w)[2] = 2 /\ Chunk(w)[2] = 3
      /\ Caller(Piece(w)) = Root(w) /\ Caller(Chunk(w)) = Piece(w)
      /\ Piece(w) # None /\ Chunk(w) # None
  BY FrameAddresses
<1>2. \A f \in Frame : frame[f].state # "gone" => frame[f] \in FrameAt(f)
  BY GoneState DEF Control, TaskTypes
<1>3. frame[Root(w)].state # "gone"
  BY <1>1 DEF Control, Nested, Joined
<1>4. frame[Root(w)] \in FrameAt(Root(w)) /\ frame[Root(w)].body \in ClientBody
  BY <1>1, <1>2, <1>3 DEF FrameAt, BodyAt
<1>5. frame[Piece(w)].state # "gone" =>
        frame[Piece(w)] \in FrameAt(Piece(w)) /\ frame[Piece(w)].body \in BytesBody
  BY <1>1, <1>2 DEF FrameAt, BodyAt
<1>6. frame[Chunk(w)].state # "gone" =>
        frame[Chunk(w)] \in FrameAt(Chunk(w)) /\ frame[Chunk(w)].body \in CallBody
  BY <1>1, <1>2 DEF FrameAt, BodyAt
<1>7. frame[Chunk(w)].state # "gone" => /\ frame[Chunk(w)].child = None
                                       /\ frame[Piece(w)].child = Chunk(w)
                                       /\ frame[Piece(w)].state \in {"running", "suspended"}
  <2>1. frame[Chunk(w)].state # "gone" => frame[Chunk(w)].child = None
    BY <1>1, <1>6, FrameFields
  <2>2. frame[Chunk(w)].state # "gone" => frame[Piece(w)].child = Chunk(w)
          /\ frame[Piece(w)].state # "gone"
    BY <1>1, Callees
  <2>3. frame[Chunk(w)].state # "gone" => frame[Piece(w)].state \in {"running", "suspended"}
    BY <1>1, <2>2, Callees
  <2> QED BY <2>1, <2>2, <2>3
<1>8. frame[Piece(w)].state # "gone" => /\ frame[Root(w)].child = Piece(w)
                                       /\ frame[Root(w)].state \in {"running", "suspended"}
                                       /\ frame[Piece(w)].state # "initial"
  <2>1. frame[Piece(w)].state # "gone" => frame[Root(w)].child = Piece(w)
    BY <1>1, Callees
  <2>2. frame[Piece(w)].state # "gone" => frame[Root(w)].state \in {"running", "suspended"}
    BY <1>1, <1>3, <2>1, Callees
  <2>3. frame[Piece(w)].state # "initial"
    BY <1>1 DEF Control, Nested, Joined
  <2> QED BY <2>1, <2>2, <2>3
<1>9. pos[w] \in Nat /\ pos[w] <= MaxPos
  <2>1. PICK n \in 0..Pieces : n = frame[Root(w)].body.pieces
    BY <1>4 DEF ClientBody
  <2>2. pos[w] \in Nat /\ pos[w] <= n * MaxPiece
    BY <2>1 DEF Types, Placed, PlacedAt
  <2>3. n * MaxPiece \in Nat /\ n * MaxPiece <= MaxPos /\ MaxPos \in Nat
    BY Bounds
  <2> QED BY <2>2, <2>3
<1> QED BY <1>4, <1>5, <1>6, <1>7, <1>8, <1>9

\* A coroutine at one of its levels.
LEMMA Levels ==
  ASSUME Control, NEW t \in Thread, NEW f \in Frame, Executes(t, f)
  PROVE  /\ frame[f].body.level = "client" => f = Root(f[1]) /\ f[2] = 1 /\ BodyAt(f) = ClientBody
         /\ frame[f].body.level = "bytes" => f = Piece(f[1]) /\ f[2] = 2 /\ BodyAt(f) = BytesBody
         /\ frame[f].body.level = "call" => f = Chunk(f[1]) /\ f[2] = 3 /\ BodyAt(f) = CallBody
         /\ f[1] \in Who /\ frame[f].body \in BodyAt(f) /\ frame[f].state = "running"
<1>1. frame[f] \in FrameAt(f) /\ frame[f].state = "running"
  BY ExecutedFrame DEF Control
<1>2. frame[f].body \in BodyAt(f)
  BY <1>1, FrameFields
<1>3. f[2] \in 1..3 /\ f[1] \in Who
  BY FrameAddresses
<1>4. /\ f[2] = 1 => BodyAt(f) = ClientBody
      /\ f[2] = 2 => BodyAt(f) = BytesBody
      /\ f[2] = 3 => BodyAt(f) = CallBody
  BY DEF BodyAt
<1>5. /\ \A b \in ClientBody : b.level = "client"
      /\ \A b \in BytesBody : b.level = "bytes"
      /\ \A b \in CallBody : b.level = "call"
  BY DEF ClientBody, BytesBody, CallBody
<1> QED BY <1>1, <1>2, <1>3, <1>4, <1>5, FrameAddresses

\* How far a client has got, by where its coroutines are.
GotRight ==
  \A w \in Who :
    /\ frame[Chunk(w)].value # NoValue => Got[w] = frame[Chunk(w)].value
    /\ frame[Chunk(w)].value = NoValue /\ (\A i \in 1..Len(cq) : cq[i].frame # Chunk(w))
         => Got[w] = 0
    /\ \A i \in 1..Len(cq) :
         frame[Chunk(w)].value = NoValue /\ cq[i].frame = Chunk(w) => Got[w] = cq[i].res

\* Reach by the state of a client's piece.
ReachRight ==
  \A w \in Who :
    /\ frame[Piece(w)].state \in {"gone", "final"} => Reach[w] = pos[w]
    /\ frame[Piece(w)].state \notin {"gone", "final"} =>
         Reach[w] = frame[Piece(w)].body.from + frame[Piece(w)].body.offset
                      + (IF frame[Piece(w)].child # None /\ Got[w] > 0 THEN Got[w] ELSE 0)

\* A coroutine that waits has at most one answer: that is the one found.
LEMMA GotCases == Answered => GotRight
<1> SUFFICES ASSUME Answered, NEW w \in Who
             PROVE  /\ frame[Chunk(w)].value # NoValue => Got[w] = frame[Chunk(w)].value
                    /\ frame[Chunk(w)].value = NoValue
                         /\ (\A i \in 1..Len(cq) : cq[i].frame # Chunk(w))
                         => Got[w] = 0
                    /\ \A i \in 1..Len(cq) :
                         frame[Chunk(w)].value = NoValue /\ cq[i].frame = Chunk(w)
                           => Got[w] = cq[i].res
  BY DEF GotRight
<1> DEFINE answers == {i \in 1..Len(cq) : cq[i].frame = Chunk(w)}
<1>1. Got[w] = IF frame[Chunk(w)].value # NoValue THEN frame[Chunk(w)].value
               ELSE IF answers = {} THEN 0 ELSE cq[CHOOSE i \in answers : TRUE].res
  BY Zenon DEF Got
<1>2. ASSUME NEW i \in answers PROVE answers # {} /\ (CHOOSE j \in answers : TRUE) = i
  <2>1. (CHOOSE j \in answers : TRUE) \in answers
    BY Zenon
  <2> QED BY <2>1 DEF Answered
<1>3. (\A i \in 1..Len(cq) : cq[i].frame # Chunk(w)) => answers = {}
  OBVIOUS
<1>4. \A i \in 1..Len(cq) : cq[i].frame = Chunk(w) => i \in answers
  OBVIOUS
<1> HIDE DEF answers
<1>5. ASSUME NEW i \in 1..Len(cq), frame[Chunk(w)].value = NoValue, cq[i].frame = Chunk(w)
      PROVE  Got[w] = cq[i].res
  <2>1. answers # {} /\ (CHOOSE j \in answers : TRUE) = i
    BY <1>2, <1>4, <1>5
  <2> QED BY <1>1, <1>5, <2>1, Zenon
<1> QED BY <1>1, <1>3, <1>5

\* Both cases of Reach.
LEMMA ReachCases == ReachRight
  BY Zenon DEF Reach, ReachRight

\* A client that nothing happens to has got as far as before.
LEMMA ReachSame ==
  ASSUME Answered, Answered', NEW w \in Who,
         frame'[Piece(w)] = frame[Piece(w)], frame'[Chunk(w)] = frame[Chunk(w)], pos'[w] = pos[w],
         \A i \in 1..Len(cq) : cq[i].frame = Chunk(w) => \E j \in 1..Len(cq') : cq'[j] = cq[i],
         \A i \in 1..Len(cq') : cq'[i].frame = Chunk(w) => \E j \in 1..Len(cq) : cq[j] = cq'[i]
  PROVE  Reach'[w] = Reach[w]
<1>1. GotRight /\ GotRight'
  BY GotCases, PTL
<1>2. Got'[w] = Got[w]
  <2>1. CASE frame[Chunk(w)].value # NoValue
    BY <1>1, <2>1 DEF GotRight
  <2>2. CASE frame[Chunk(w)].value = NoValue /\ \A i \in 1..Len(cq) : cq[i].frame # Chunk(w)
    <3>1. \A i \in 1..Len(cq') : cq'[i].frame # Chunk(w)
      BY <2>2
    <3> QED BY <1>1, <2>2, <3>1 DEF GotRight
  <2>3. CASE frame[Chunk(w)].value = NoValue /\ \E i \in 1..Len(cq) : cq[i].frame = Chunk(w)
    <3>1. PICK i \in 1..Len(cq) : cq[i].frame = Chunk(w)
      BY <2>3
    <3>2. PICK j \in 1..Len(cq') : cq'[j] = cq[i]
      BY <3>1
    <3>3. Got[w] = cq[i].res
      BY <1>1, <2>3, <3>1 DEF GotRight
    <3>4. Got'[w] = cq'[j].res
      BY <1>1, <2>3, <3>1, <3>2 DEF GotRight
    <3> QED BY <3>2, <3>3, <3>4
  <2> QED BY <2>1, <2>2, <2>3
<1>3. ReachRight /\ ReachRight'
  BY ReachCases, PTL
<1> QED BY <1>2, <1>3 DEF ReachRight

\* A client whose frames stay as they are.
LEMMA PlacedSame ==
  ASSUME Placed, NEW w \in Who, frame'[Root(w)] = frame[Root(w)],
         frame'[Piece(w)] = frame[Piece(w)],
         frame'[Chunk(w)] = frame[Chunk(w)], pos'[w] = pos[w]
  PROVE  PlacedAt(w)'
  BY DEF Placed, PlacedAt

\* What is asked stays what it is as long as those who ask wait.
LEMMA AskedSame ==
  ASSUME Answered, Asked, UNCHANGED <<pending, cq>>, \A g \in Waiting : frame'[g] = frame[g]
  PROVE  Asked'
<1>1. \A op \in pending : op.frame \in Waiting
  BY DEF Answered
<1>2. \A i \in 1..Len(cq) : cq[i].frame \in Waiting
  BY DEF Answered
<1> QED BY <1>1, <1>2 DEF Asked

\* The stacks of the other threads stay as they are.
LEMMA ShallowOthers ==
  ASSUME Control, Shallow, NEW t \in Thread, NEW u \in Thread, u # t,
         stack'[u] = stack[u], atOnce'[u] = atOnce[u],
         \A g \in Frame : frame[g].state = "running" /\ ~Executes(t, g) => frame'[g] = frame[g]
  PROVE  ShallowAt(u)'
<1>1. ShallowAt(u)
  BY DEF Shallow
<1>2. Top(u)' = Top(u)
  BY DEF Top
<1>3. ASSUME stack[u] # << >>, Top(u).in = "body"
      PROVE  frame'[Top(u).frame] = frame[Top(u).frame]
  <2>1. Top(u) \in Calls
    <3>1. stack[u] \in Seq(Calls)
      BY DEF Control, TaskTypes
    <3> QED BY <1>3, <3>1, EmptySeq, ElementOfSeq, LenProperties DEF Top
  <2>2. PICK g \in Frame : g = Top(u).frame
    BY <2>1 DEF Calls
  <2>3. Executes(u, g)
    BY <1>3, <2>1, <2>2 DEF Executes, Calls, Calling
  <2>4. frame[g].state = "running" /\ ~Executes(t, g)
    BY <2>3 DEF Control, Executed
  <2> QED BY <2>2, <2>4
<1>4. \A n \in Int : High(u, n)' <=> High(u, n)
  BY DEF High
<1> QED BY <1>1, <1>2, <1>3, <1>4 DEF ShallowAt

\* The stream and the buffer stay as they are, and so does how far the clients got.
LEMMA Carried ==
  ASSUME Streamed, Buffered, UNCHANGED <<stream, taken, buffer, cut>>,
         \A w \in Who : Reach'[w] = Reach[w]
  PROVE  Streamed' /\ Buffered'
<1>1. "sender" \in Who /\ "receiver" \in Who
  BY TransfersAssumption DEF Who
<1>2. Filled' = Filled
  BY DEF Filled
<1> QED BY <1>1, <1>2 DEF Streamed, Buffered

\* The kernel's answers to a client are the same in the next state.
SameAnswers(w) ==
  /\ \A i \in 1..Len(cq) : cq[i].frame = Chunk(w) => \E j \in 1..Len(cq') : cq'[j] = cq[i]
  /\ \A i \in 1..Len(cq') : cq'[i].frame = Chunk(w) => \E j \in 1..Len(cq) : cq[j] = cq'[i]

\* A thread's step for one client leaves the other client and thread alone.
LEMMA Elsewhere ==
  ASSUME IInv, NEW t \in Thread, NEW w \in Who, Control', Answered',
         \A g \in Frame : g[1] # w => frame'[g] = frame[g],
         \A g \in Frame : frame[g].state = "running" /\ ~Executes(t, g) => frame'[g] = frame[g],
         \A v \in Who : v # w => pos'[v] = pos[v] /\ SameAnswers(v),
         \A u \in Thread : u # t => stack'[u] = stack[u] /\ atOnce'[u] = atOnce[u],
         PlacedAt(w)', ShallowAt(t)'
  PROVE  /\ Placed' /\ Shallow'
         /\ \A v \in Who : v # w => Reach'[v] = Reach[v]
         /\ UNCHANGED <<stream, taken, buffer, cut>> /\ Reach'[w] = Reach[w]
              => Streamed' /\ Buffered'
<1>1. ASSUME NEW v \in Who, v # w
      PROVE  /\ frame'[Root(v)] = frame[Root(v)] /\ frame'[Piece(v)] = frame[Piece(v)]
             /\ frame'[Chunk(v)] = frame[Chunk(v)]
  BY <1>1, FrameAddresses
<1>2. Placed'
  <2>1. ASSUME NEW v \in Who, v # w PROVE PlacedAt(v)'
    BY <1>1, <2>1, PlacedSame DEF IInv
  <2> QED BY <2>1 DEF Placed
<1>3. Shallow'
  <2>1. ASSUME NEW u \in Thread, u # t PROVE ShallowAt(u)'
    BY <2>1, ShallowOthers DEF IInv
  <2> QED BY <2>1 DEF Shallow
<1>4. ASSUME NEW v \in Who, v # w PROVE Reach'[v] = Reach[v]
  BY <1>1, <1>4, ReachSame DEF IInv, SameAnswers
<1> QED BY <1>2, <1>3, <1>4, Carried DEF IInv

\* Where nothing has gone wrong, nothing had.
LEMMA UndisturbedBefore ==
  ASSUME Types, Types', faults' <= faults, \A w \in Who : open'[w] => open[w],
         \A op \in pending' : op \in pending \/ open[op.frame[1]], Undisturbed("sender")'
  PROVE  Undisturbed("sender") /\ faults' = faults
<1>1. faults' = MaxFaults /\ faults <= MaxFaults /\ faults \in Int /\ faults' \in Int
        /\ MaxFaults \in Int
  BY Bounds DEF Undisturbed, Types
<1>2. \A w \in Who : FileOpen(w)' => FileOpen(w)
  BY DEF FileOpen
<1> QED BY <1>1, <1>2 DEF Undisturbed

\* What happens to the receiver alone does not make the sender fall short.
LEMMA NeverShortSame ==
  ASSUME NeverShort, Undisturbed("sender")' => Undisturbed("sender"),
         \A g \in Frame : g[1] = "sender" => frame'[g] = frame[g],
         cut'["sender"] = cut["sender"], open'["sender"] = open["sender"], SameAnswers("sender")
  PROVE  NeverShort'
<1>1. "sender" \in Who
  BY TransfersAssumption DEF Who
<1>2. /\ frame'[Root("sender")] = frame[Root("sender")]
           /\ frame'[Piece("sender")] = frame[Piece("sender")]
      /\ frame'[Chunk("sender")] = frame[Chunk("sender")]
  BY <1>1, FrameAddresses
<1>3. Chunk("sender")' = Chunk("sender")
  BY DEF Chunk
<1> QED BY <1>2, <1>3 DEF NeverShort, SameAnswers

-------------------------------------------------------------------------------
(* The steps of the coroutines *)

\* Below a coroutine that awaits no task there are no frames.
LEMMA NothingBelow ==
  ASSUME Control, NEW w \in Who
  PROVE  /\ frame[Root(w)].child = None => frame[Piece(w)] = Gone /\ frame[Chunk(w)] = Gone
         /\ frame[Piece(w)].state # "gone" /\ frame[Piece(w)].child = None => frame[Chunk(w)] = Gone
         /\ frame[Piece(w)] = Gone => frame[Chunk(w)] = Gone
<1>1. /\ Root(w) \in Frame /\ Piece(w) \in Frame /\ Chunk(w) \in Frame
      /\ Root(w)[2] = 1 /\ Piece(w)[2] = 2 /\ Chunk(w)[2] = 3
      /\ CalleeOf(Root(w)) = Piece(w) /\ CalleeOf(Piece(w)) = Chunk(w)
           /\ Caller(Chunk(w)) = Piece(w)
  BY FrameAddresses
<1>2. frame[Root(w)].state # "gone"
  BY <1>1 DEF Control, Nested, Joined
<1>3. frame[Piece(w)] = Gone => frame[Chunk(w)] = Gone
  <2>1. frame[Piece(w)] = Gone => frame[Chunk(w)].state = "gone"
    BY <1>1, GoneState DEF Control, Nested, Joined
  <2> QED BY <1>1, <2>1, FrameFields DEF Control, TaskTypes
<1> QED BY <1>1, <1>2, <1>3, Callees

\* The bodies of coroutines as they go on.
LEMMA ClientGoesOn ==
  ASSUME NEW b \in ClientBody, b.pieces < Pieces
  PROVE  /\ [b EXCEPT !.pieces = @ + 1] \in ClientBody
         /\ [b EXCEPT !.pieces = @ + 1].pieces = b.pieces + 1
<1>1. PICK p \in 0..Pieces : b = [level |-> "client", pieces |-> p]
  BY DEF ClientBody
<1>2. [b EXCEPT !.pieces = @ + 1] = [level |-> "client", pieces |-> p + 1] /\ b.pieces = p
  BY <1>1
<1>3. p + 1 \in 0..Pieces
  BY <1>2, Bounds
<1> QED BY <1>2, <1>3 DEF ClientBody

\* A client begins its next piece where the last one ended.
LEMMA ClientCallsKeeps ==
  ASSUME IInv, NEW t \in Thread, NEW f \in Frame, ClientCalls(t, f)
  PROVE  IInv'
<1> DEFINE w == f[1]
           b == frame[f].body
<1>1. /\ Executes(t, f) /\ b.level = "client" /\ frame[f].child = None /\ b.pieces < Pieces
      /\ UNCHANGED <<open, pending, cq, stream, taken, buffer, cut, atOnce, faults>>
  BY DEF ClientCalls, At, transport
<1>2. /\ f = Root(w) /\ f[2] = 1 /\ CalleeOf(f) = Piece(w) /\ w \in Who /\ b \in ClientBody
      /\ frame[f].state = "running" /\ BodyAt(f) = ClientBody
  BY <1>1, Levels, FrameAddresses DEF IInv
<1>3. PICK len \in Length, exact \in IF w = "sender" THEN {TRUE} ELSE BOOLEAN :
        /\ CoAwait(t, f, [b EXCEPT !.pieces = @ + 1], Bytes(pos[w], len, exact))
        /\ pos' = [pos EXCEPT ![w] = @ + len]
  BY DEF ClientCalls
<1>4. /\ len \in Nat /\ len <= MaxPiece /\ MaxPiece \in Nat /\ pos[w] \in Nat
      /\ pos[w] <= b.pieces * MaxPiece /\ b.pieces \in 0..(Pieces - 1)
      /\ Root(w) \in Frame /\ Piece(w) \in Frame /\ Chunk(w) \in Frame
      /\ Piece(w)[2] = 2 /\ Chunk(w)[2] = 3
  <2>1. pos[w] \in Nat /\ pos[w] <= b.pieces * MaxPiece
    BY <1>2 DEF IInv, Types, Placed, PlacedAt
  <2> QED BY <1>1, <1>2, <2>1, Bounds, FrameAddresses DEF ClientBody
<1>5. PICK locals \in BodyAt(f) :
        locals = [b EXCEPT !.pieces = @ + 1] /\ locals.pieces = b.pieces + 1
  BY <1>1, <1>2, ClientGoesOn
<1>6. PICK body \in BodyAt(CalleeOf(f)) :
        /\ body = Bytes(pos[w], len, exact) /\ body.from = pos[w] /\ body.len = len
        /\ body.offset = 0 /\ body.broken = FALSE /\ body.exact = exact
  <2>1. BodyAt(CalleeOf(f)) = BytesBody
    BY <1>2, <1>4 DEF BodyAt
  <2>2. Bytes(pos[w], len, exact) \in BytesBody
    BY <1>3, <1>4 DEF Bytes, BytesBody
  <2> QED BY <2>1, <2>2 DEF Bytes
<1>7. CoAwait(t, f, locals, body)
  BY <1>3, <1>5, <1>6
<1>8. /\ Control' /\ Waiting' = Waiting
      /\ frame'[f] = FrameOf(frame[f].continuation, "suspended", CalleeOf(f), frame[f].value, locals)
      /\ frame'[CalleeOf(f)] = NewFrame("running", f, body)
      /\ \A g \in Frame : g # f /\ g # CalleeOf(f) => frame'[g] = frame[g]
      /\ \A u \in Thread : u # t => stack'[u] = stack[u]
      /\ Len(stack'[t]) = Len(stack[t]) + 1 /\ Top(t)' = Calling(CalleeOf(f), "body")
  <2>1. f[2] < 3 /\ Control
    BY <1>2 DEF IInv
  <2> QED BY <1>1, <1>7, <2>1, CoAwaited
<1> HIDE DEF w
<1>9. frame[Piece(w)] = Gone /\ frame[Chunk(w)] = Gone
  BY <1>1, <1>2, NothingBelow DEF IInv
<1>10. /\ frame'[Root(w)].state = "suspended" /\ frame'[Root(w)].child = Piece(w)
       /\ frame'[Root(w)].value = frame[f].value /\ frame'[Root(w)].body = locals
       /\ frame'[Piece(w)].state = "running" /\ frame'[Piece(w)].child = None
       /\ frame'[Piece(w)].value = NoValue /\ frame'[Piece(w)].body = body
       /\ frame'[Chunk(w)] = Gone
  BY <1>2, <1>4, <1>8, <1>9 DEF FrameOf, NewFrame
<1>11. /\ \A g \in Frame : g[1] # w => frame'[g] = frame[g]
       /\ \A g \in Frame : frame[g].state = "running" /\ ~Executes(t, g) => frame'[g] = frame[g]
       /\ \A g \in Waiting : frame'[g] = frame[g]
  <2>1. Root(w)[1] = w /\ Piece(w)[1] = w
    BY <1>2, FrameAddresses
  <2>2. \A g \in Frame : g # Root(w) /\ g # Piece(w) => frame'[g] = frame[g]
    BY <1>2, <1>8
  <2>3. frame[Piece(w)].state = "gone" /\ frame[Root(w)].state = "running" /\ Executes(t, Root(w))
    BY <1>1, <1>2, <1>9, GoneState
  <2> QED BY <2>1, <2>2, <2>3 DEF Waiting
<1>12. pos'[w] = pos[w] + len /\ \A v \in Who : v # w => pos'[v] = pos[v]
  BY <1>2, <1>3 DEF IInv, Types
<1>13. Types'
  <2>1. pos' \in [Who -> Nat]
    BY <1>2, <1>3, <1>4 DEF IInv, Types
  <2> QED BY <1>1, <2>1 DEF IInv, Types
<1>14. Answered'
  BY <1>1, <1>8 DEF IInv, Answered
<1>15. PlacedAt(w)'
  <2>1. b.pieces * MaxPiece + MaxPiece = (b.pieces + 1) * MaxPiece /\ b.pieces * MaxPiece \in Nat
    BY <1>4, Bounds
  <2>2. frame[f].value = NoValue
    BY <1>2 DEF IInv, Placed, PlacedAt
  <2>3. pos[w] + len <= (b.pieces + 1) * MaxPiece
    BY <1>4, <2>1
  <2>4. w = "sender" => exact = TRUE
    BY <1>3
  <2>5. /\ frame'[Root(w)].value = NoValue
        /\ pos'[w] <= frame'[Root(w)].body.pieces * MaxPiece
    BY <1>5, <1>10, <1>12, <2>2, <2>3
  <2>6. /\ w = "sender" => frame'[Piece(w)].body.exact
        /\ frame'[Piece(w)].body.from + frame'[Piece(w)].body.len = pos'[w]
        /\ frame'[Piece(w)].body.offset <= frame'[Piece(w)].body.len
    BY <1>4, <1>6, <1>10, <1>12, <2>4
  <2> QED BY <1>10, <2>5, <2>6, GoneState DEF PlacedAt
<1>16. Asked'
  BY <1>1, <1>11, AskedSame DEF IInv
<1>17. ShallowAt(t)'
  <2>1. High(t, 3)
    <3>1. stack[t] # << >> /\ Top(t).in = "body" /\ Top(t).frame = f
      BY <1>1, ExecutedFrame DEF IInv, Control
    <3> QED BY <1>2, <3>1 DEF IInv, Shallow, ShallowAt
  <2>2. Len(stack[t]) \in Nat /\ atOnce[t] \in Nat
    BY LenProperties DEF IInv, Control, TaskTypes, Types
  <2>3. High(t, 4)' /\ High(t, 5)'
    BY <1>1, <1>8, <2>1, <2>2 DEF High
  <2>4. Top(t)'.frame = Piece(w)
    BY <1>2, <1>8 DEF Calling
  <2> QED BY <1>4, <1>6, <1>10, <2>3, <2>4 DEF ShallowAt
<1>18. Reach'[w] = Reach[w]
  <2>1. ReachRight /\ ReachRight'
    BY ReachCases, PTL
  <2>2. Reach[w] = pos[w]
    BY <1>2, <1>9, <2>1, GoneState DEF ReachRight
  <2>3. Reach'[w] = body.from + body.offset + 0
    BY <1>2, <1>10, <2>1 DEF ReachRight
  <2> QED BY <1>4, <1>6, <2>2, <2>3
<1>19. \A v \in Who : SameAnswers(v)
  BY <1>1 DEF SameAnswers
<1>20. Placed' /\ Shallow' /\ Streamed' /\ Buffered'
  <2>1. \A u \in Thread : u # t => stack'[u] = stack[u] /\ atOnce'[u] = atOnce[u]
    BY <1>1, <1>8
  <2>2. UNCHANGED <<stream, taken, buffer, cut>>
    BY <1>1
  <2> QED BY <1>2, <1>8, <1>11, <1>12, <1>14, <1>15, <1>17, <1>18, <1>19, <2>1, <2>2, Elsewhere
<1>21. NeverShort'
  <2>1. Undisturbed("sender")' => Undisturbed("sender")
    BY <1>1 DEF Undisturbed, FileOpen
  <2>2. CASE w = "sender"
    BY <1>1, <1>2, <1>6, <1>10, <2>1, <2>2, GoneState DEF IInv, NeverShort, Answered, Waiting
  <2>3. CASE w # "sender"
    <3>1. "sender" \in Who
      BY TransfersAssumption DEF Who
    <3> QED BY <1>1, <1>11, <1>19, <2>1, <2>3, <3>1, NeverShortSame DEF IInv
  <2> QED BY <2>2, <2>3
<1> QED BY <1>8, <1>13, <1>14, <1>16, <1>20, <1>21 DEF IInv

\* A client goes on after a piece that has ended.
LEMMA ClientResumesKeeps ==
  ASSUME IInv, NEW t \in Thread, NEW f \in Frame, ClientResumes(t, f)
  PROVE  IInv'
<1> DEFINE w == f[1]
<1>1. /\ Executes(t, f) /\ frame[f].body.level = "client" /\ frame[f].child # None
      /\ AwaitResume(t, f, frame[f].body)
      /\ UNCHANGED <<open, pending, cq, stream, taken, buffer, pos, cut, atOnce, faults>>
  BY DEF ClientResumes, Awaited, transport, history
<1>2. /\ f = Root(w) /\ f[2] = 1 /\ CalleeOf(f) = Piece(w) /\ w \in Who
           /\ frame[f].body \in BodyAt(f)
      /\ Root(w) \in Frame /\ Piece(w) \in Frame /\ Chunk(w) \in Frame
      /\ Piece(w)[2] = 2 /\ Chunk(w)[2] = 3 /\ frame[f].state = "running"
  BY <1>1, Levels, FrameAddresses DEF IInv
<1>3. /\ Control' /\ Waiting' = Waiting /\ UNCHANGED stack
      /\ frame[CalleeOf(f)].state = "final"
      /\ frame'[f] = FrameOf(frame[f].continuation, "running", None, frame[f].value, frame[f].body)
      /\ frame'[CalleeOf(f)] = Gone
      /\ \A g \in Frame : g # f /\ g # CalleeOf(f) => frame'[g] = frame[g]
  <2>1. PICK locals \in BodyAt(f) : locals = frame[f].body
    BY <1>2
  <2>2. AwaitResume(t, f, locals) /\ Control
    BY <1>1, <2>1 DEF IInv
  <2> QED BY <2>1, <2>2, AwaitEnded
<1> HIDE DEF w
<1>4. frame[Piece(w)].child = None /\ frame[Chunk(w)] = Gone
  <2>1. frame[Piece(w)].state # "gone" /\ frame[Piece(w)].state \notin {"running", "suspended"}
    BY <1>2, <1>3
  <2>2. frame[Piece(w)].child = None
    BY <1>2, <2>1, Callees DEF IInv
  <2> QED BY <1>2, <2>1, <2>2, NothingBelow DEF IInv
<1>5. /\ frame'[Root(w)].state = "running" /\ frame'[Root(w)].child = None
      /\ frame'[Root(w)].value = frame[f].value /\ frame'[Root(w)].body = frame[f].body
      /\ frame'[Piece(w)] = Gone /\ frame'[Chunk(w)] = Gone
  BY <1>2, <1>3, <1>4, FrameAddresses DEF FrameOf
<1>6. /\ \A g \in Frame : g[1] # w => frame'[g] = frame[g]
      /\ \A g \in Frame : frame[g].state = "running" /\ ~Executes(t, g) => frame'[g] = frame[g]
      /\ \A g \in Waiting : frame'[g] = frame[g]
  <2>1. Root(w)[1] = w /\ Piece(w)[1] = w
    BY <1>2, FrameAddresses
  <2>2. \A g \in Frame : g # Root(w) /\ g # Piece(w) => frame'[g] = frame[g]
    BY <1>2, <1>3
  <2>3. frame[Piece(w)].state = "final" /\ frame[Root(w)].state = "running" /\ Executes(t, Root(w))
    BY <1>1, <1>2, <1>3
  <2> QED BY <2>1, <2>2, <2>3 DEF Waiting
<1>7. Types'
  BY <1>1 DEF IInv, Types
<1>8. Answered'
  BY <1>1, <1>3 DEF IInv, Answered
<1>9. PlacedAt(w)'
  BY <1>1, <1>2, <1>5, GoneState DEF IInv, Placed, PlacedAt
<1>10. Asked'
  BY <1>1, <1>6, AskedSame DEF IInv
<1>11. ShallowAt(t)'
  <2>1. stack[t] # << >> /\ Top(t).in = "body" /\ Top(t).frame = f
    BY <1>1, ExecutedFrame DEF IInv, Control
  <2>2. Top(t)' = Top(t) /\ High(t, 3)' /\ High(t, 5)'
    BY <1>1, <1>2, <1>3, <2>1 DEF IInv, Shallow, ShallowAt, High, Top
  <2> QED BY <1>2, <2>1, <2>2 DEF ShallowAt
<1>12. Reach'[w] = Reach[w]
  <2>1. ReachRight /\ ReachRight'
    BY ReachCases, PTL
  <2> QED BY <1>1, <1>2, <1>3, <1>5, <2>1, GoneState DEF ReachRight
<1>13. \A v \in Who : SameAnswers(v)
  BY <1>1 DEF SameAnswers
<1>14. Placed' /\ Shallow' /\ Streamed' /\ Buffered'
  <2>1. \A u \in Thread : u # t => stack'[u] = stack[u] /\ atOnce'[u] = atOnce[u]
    BY <1>1, <1>3
  <2>2. UNCHANGED <<stream, taken, buffer, cut>> /\ \A v \in Who : v # w => pos'[v] = pos[v]
    BY <1>1
  <2> QED BY <1>2, <1>3, <1>6, <1>8, <1>9, <1>11, <1>12, <1>13, <2>1, <2>2, Elsewhere
<1>15. NeverShort'
  <2>1. Undisturbed("sender")' => Undisturbed("sender")
    BY <1>1 DEF Undisturbed, FileOpen
  <2>2. CASE w = "sender"
    BY <1>1, <1>2, <1>5, <2>1, <2>2, GoneState DEF IInv, NeverShort
  <2>3. CASE w # "sender"
    <3>1. "sender" \in Who
      BY TransfersAssumption DEF Who
    <3> QED BY <1>1, <1>6, <1>13, <2>1, <2>3, <3>1, NeverShortSame DEF IInv
  <2> QED BY <2>2, <2>3
<1> QED BY <1>3, <1>7, <1>8, <1>10, <1>14, <1>15 DEF IInv

\* A client ends, and with it its handle.
LEMMA ClientEndsKeeps ==
  ASSUME IInv, NEW t \in Thread, NEW f \in Frame, ClientEnds(t, f)
  PROVE  IInv'
<1> DEFINE w == f[1]
<1>1. /\ Executes(t, f) /\ frame[f].body.level = "client" /\ frame[f].child = None
      /\ FinalSuspend(t, f) /\ open' = [open EXCEPT ![w] = FALSE]
      /\ UNCHANGED <<pending, cq, stream, taken, buffer, pos, cut, atOnce, faults>>
  BY DEF ClientEnds, At, transport, history
<1>2. /\ f = Root(w) /\ f[2] = 1 /\ w \in Who
      /\ Root(w) \in Frame /\ Piece(w) \in Frame /\ Chunk(w) \in Frame
      /\ Piece(w) # f /\ Chunk(w) # f /\ frame[f].state = "running"
  BY <1>1, Levels, FrameAddresses DEF IInv
<1>3. /\ Control' /\ Waiting' = Waiting
      /\ frame'[f] = FrameOf(frame[f].continuation, "final", None, frame[f].value, frame[f].body)
      /\ \A g \in Frame : g # f => frame'[g] = frame[g]
      /\ \A u \in Thread : u # t => stack'[u] = stack[u]
      /\ Len(stack'[t]) = Len(stack[t]) /\ Top(t)'.in # "body"
  <2>1. ~(f[2] > 1)
    BY <1>2
  <2> QED BY <1>1, <1>2, <2>1, Finished DEF IInv
<1> HIDE DEF w
<1>4. frame[Piece(w)] = Gone /\ frame[Chunk(w)] = Gone
  BY <1>1, <1>2, NothingBelow DEF IInv
<1>5. /\ frame'[Root(w)].state = "final" /\ frame'[Root(w)].value = frame[f].value
      /\ frame'[Root(w)].body = frame[f].body
      /\ frame'[Piece(w)] = Gone /\ frame'[Chunk(w)] = Gone
  BY <1>2, <1>3, <1>4 DEF FrameOf
<1>6. /\ \A g \in Frame : g[1] # w => frame'[g] = frame[g]
      /\ \A g \in Frame : frame[g].state = "running" /\ ~Executes(t, g) => frame'[g] = frame[g]
      /\ \A g \in Waiting : frame'[g] = frame[g]
  BY <1>1, <1>2, <1>3, FrameAddresses DEF Waiting
<1>7. Types' /\ \A v \in Who : v # w => open'[v] = open[v]
  BY <1>1, <1>2 DEF IInv, Types
<1>8. Answered'
  BY <1>1, <1>3 DEF IInv, Answered
<1>9. PlacedAt(w)'
  BY <1>1, <1>2, <1>5, GoneState DEF IInv, Placed, PlacedAt
<1>10. Asked'
  BY <1>1, <1>6, AskedSame DEF IInv
<1>11. ShallowAt(t)'
  <2>1. High(t, 5)'
    BY <1>1, <1>3 DEF IInv, Shallow, ShallowAt, High
  <2> QED BY <1>3, <2>1 DEF ShallowAt
<1>12. Reach'[w] = Reach[w]
  <2>1. ReachRight /\ ReachRight'
    BY ReachCases, PTL
  <2> QED BY <1>1, <1>2, <1>4, <1>5, <2>1, GoneState DEF ReachRight
<1>13. \A v \in Who : SameAnswers(v)
  BY <1>1 DEF SameAnswers
<1>14. Placed' /\ Shallow' /\ Streamed' /\ Buffered'
  <2>1. \A u \in Thread : u # t => stack'[u] = stack[u] /\ atOnce'[u] = atOnce[u]
    BY <1>1, <1>3
  <2>2. UNCHANGED <<stream, taken, buffer, cut>> /\ \A v \in Who : v # w => pos'[v] = pos[v]
    BY <1>1
  <2> QED BY <1>2, <1>3, <1>6, <1>8, <1>9, <1>11, <1>12, <1>13, <2>1, <2>2, Elsewhere
<1>15. NeverShort'
  <2>1. Undisturbed("sender")' => Undisturbed("sender")
    <3>1. /\ faults' <= faults /\ (\A v \in Who : open'[v] => open[v])
          /\ \A op \in pending' : op \in pending \/ open[op.frame[1]]
      <4>1. faults' = faults /\ faults \in Int /\ pending' = pending
        BY <1>1, Bounds DEF IInv, Types
      <4>2. \A v \in Who : open'[v] => open[v]
        BY <1>1, <1>2 DEF IInv, Types
      <4> QED BY <4>1, <4>2
    <3> QED BY <1>7, <3>1, UndisturbedBefore DEF IInv
  <2>2. CASE w = "sender"
    BY <1>1, <1>2, <1>5, <2>1, <2>2, GoneState DEF IInv, NeverShort
  <2>3. CASE w # "sender"
    <3>1. "sender" \in Who
      BY TransfersAssumption DEF Who
    <3> QED BY <1>1, <1>6, <1>7, <1>13, <2>1, <2>3, <3>1, NeverShortSame DEF IInv
  <2> QED BY <2>2, <2>3
<1> QED BY <1>3, <1>7, <1>8, <1>10, <1>14, <1>15 DEF IInv

\* A chunk has no answer before it is asked for.
LEMMA NothingGot ==
  ASSUME Control, Answered, NEW w \in Who, Chunk(w) \notin Waiting
  PROVE  \A i \in 1..Len(cq) : cq[i].frame # Chunk(w)
  BY DEF Answered

\* A piece asks for the rest of it.
LEMMA BytesCallsKeeps ==
  ASSUME IInv, NEW t \in Thread, NEW f \in Frame, BytesCalls(t, f)
  PROVE  IInv'
<1> DEFINE w == f[1]
           b == frame[f].body
<1>1. /\ Executes(t, f) /\ b.level = "bytes" /\ frame[f].child = None /\ b.offset < b.len
           /\ ~b.broken
      /\ CoAwait(t, f, b, Call(b.from + b.offset, b.len - b.offset))
      /\ UNCHANGED <<open, pending, cq, stream, taken, buffer, pos, cut, atOnce, faults>>
  BY DEF BytesCalls, At, transport, history
<1>2. /\ f = Piece(w) /\ f[2] = 2 /\ CalleeOf(f) = Chunk(w) /\ w \in Who /\ b \in BytesBody
      /\ frame[f].state = "running" /\ b \in BodyAt(f)
      /\ Root(w) \in Frame /\ Piece(w) \in Frame /\ Chunk(w) \in Frame
      /\ Root(w)[2] = 1 /\ Chunk(w)[2] = 3
  BY <1>1, Levels, FrameAddresses DEF IInv
<1>3. /\ b.from \in Nat /\ b.len \in Nat /\ b.offset \in Nat
      /\ b.from + b.len = pos[w] /\ (w = "sender" => b.exact) /\ frame[f].value = NoValue
  BY <1>2, Bounds DEF BytesBody, IInv, Placed, PlacedAt
<1>4. PICK body \in BodyAt(CalleeOf(f)) :
        /\ body = Call(b.from + b.offset, b.len - b.offset)
        /\ body.from = b.from + b.offset /\ body.len = b.len - b.offset
  <2>1. BodyAt(CalleeOf(f)) = CallBody
    BY <1>2 DEF BodyAt
  <2>2. Call(b.from + b.offset, b.len - b.offset) \in CallBody
    <3>1. b.from + b.offset \in Nat /\ b.len - b.offset \in Nat \ {0}
      BY <1>1, <1>3
    <3> QED BY <3>1 DEF Call, CallBody
  <2> QED BY <2>1, <2>2 DEF Call
<1>5. PICK locals \in BodyAt(f) : locals = b
  BY <1>2
<1>6. CoAwait(t, f, locals, body)
  BY <1>1, <1>4, <1>5
<1>7. /\ Control' /\ Waiting' = Waiting
      /\ frame'[f] = FrameOf(frame[f].continuation, "suspended", CalleeOf(f), frame[f].value, locals)
      /\ frame'[CalleeOf(f)] = NewFrame("running", f, body)
      /\ \A g \in Frame : g # f /\ g # CalleeOf(f) => frame'[g] = frame[g]
      /\ \A u \in Thread : u # t => stack'[u] = stack[u]
      /\ Len(stack'[t]) = Len(stack[t]) + 1 /\ Top(t)' = Calling(CalleeOf(f), "body")
  <2>1. f[2] < 3 /\ Control
    BY <1>2 DEF IInv
  <2> QED BY <1>1, <1>6, <2>1, CoAwaited
<1> HIDE DEF w
<1>8. frame[Chunk(w)] = Gone
  BY <1>1, <1>2, NothingBelow DEF IInv
<1>9. /\ frame'[Root(w)] = frame[Root(w)]
      /\ frame'[Piece(w)].state = "suspended" /\ frame'[Piece(w)].child = Chunk(w)
      /\ frame'[Piece(w)].value = frame[f].value /\ frame'[Piece(w)].body = b
      /\ frame'[Chunk(w)].state = "running" /\ frame'[Chunk(w)].child = None
      /\ frame'[Chunk(w)].value = NoValue /\ frame'[Chunk(w)].body = body
  <2>1. Root(w) # f /\ Root(w) # CalleeOf(f)
    BY <1>2
  <2> QED BY <1>2, <1>5, <1>7, <2>1 DEF FrameOf, NewFrame
<1>10. /\ \A g \in Frame : g[1] # w => frame'[g] = frame[g]
       /\ \A g \in Frame : frame[g].state = "running" /\ ~Executes(t, g) => frame'[g] = frame[g]
       /\ \A g \in Waiting : frame'[g] = frame[g]
       /\ Chunk(w) \notin Waiting
  <2>1. Chunk(w)[1] = w /\ Piece(w)[1] = w
    BY <1>2, FrameAddresses
  <2>2. \A g \in Frame : g # Piece(w) /\ g # Chunk(w) => frame'[g] = frame[g]
    BY <1>2, <1>7
  <2>3. frame[Chunk(w)].state = "gone" /\ frame[Piece(w)].state = "running" /\ Executes(t, Piece(w))
    BY <1>1, <1>2, <1>8, GoneState
  <2> QED BY <2>1, <2>2, <2>3 DEF Waiting
<1>11. Types'
  BY <1>1 DEF IInv, Types
<1>12. Answered'
  BY <1>1, <1>7 DEF IInv, Answered
<1>13. PlacedAt(w)'
  <2>1. PlacedAt(w)
    BY <1>2 DEF IInv, Placed
  <2>2. /\ frame'[Chunk(w)].body.from = b.from + b.offset
             /\ frame'[Chunk(w)].body.len = b.len - b.offset
        /\ frame'[Chunk(w)].value \in NoValue..(b.len - b.offset)
    <3>1. NoValue \in NoValue..(b.len - b.offset)
      BY <1>1, <1>3 DEF NoValue
    <3> QED BY <1>4, <1>9, <3>1
  <2>3. frame[f].state # "gone"
    BY <1>2
  <2> QED BY <1>1, <1>2, <1>9, <2>1, <2>2, <2>3 DEF PlacedAt
<1>14. Asked'
  BY <1>1, <1>10, AskedSame DEF IInv
<1>15. ShallowAt(t)'
  <2>1. High(t, 4)
    <3>1. stack[t] # << >> /\ Top(t).in = "body" /\ Top(t).frame = f
      BY <1>1, ExecutedFrame DEF IInv, Control
    <3> QED BY <1>2, <3>1 DEF IInv, Shallow, ShallowAt
  <2>2. Len(stack[t]) \in Nat /\ atOnce[t] \in Nat
    BY LenProperties DEF IInv, Control, TaskTypes, Types
  <2>3. High(t, 5)'
    BY <1>1, <1>7, <2>1, <2>2 DEF High
  <2>4. Top(t)'.frame = Chunk(w)
    BY <1>2, <1>7 DEF Calling
  <2> QED BY <1>2, <1>9, <2>3, <2>4 DEF ShallowAt
<1>16. \A i \in 1..Len(cq') : cq'[i].frame # Chunk(w)
  BY <1>1, <1>2, <1>10, NothingGot DEF IInv
<1>17. Reach'[w] = Reach[w]
  <2>1. ReachRight /\ ReachRight' /\ GotRight'
    BY <1>12, ReachCases, GotCases, PTL
  <2>2. Reach[w] = b.from + b.offset + 0
    BY <1>1, <1>2, <2>1 DEF ReachRight
  <2>3. Got'[w] = 0
    BY <1>2, <1>9, <1>16, <2>1 DEF GotRight
  <2>4. Reach'[w] = b.from + b.offset + 0
    BY <1>2, <1>9, <2>1, <2>3 DEF ReachRight
  <2> QED BY <2>2, <2>4
<1>18. \A v \in Who : SameAnswers(v)
  BY <1>1 DEF SameAnswers
<1>19. Placed' /\ Shallow' /\ Streamed' /\ Buffered'
  <2>1. \A u \in Thread : u # t => stack'[u] = stack[u] /\ atOnce'[u] = atOnce[u]
    BY <1>1, <1>7
  <2>2. UNCHANGED <<stream, taken, buffer, cut>> /\ \A v \in Who : v # w => pos'[v] = pos[v]
    BY <1>1
  <2> QED BY <1>2, <1>7, <1>10, <1>12, <1>13, <1>15, <1>17, <1>18, <2>1, <2>2, Elsewhere
<1>20. NeverShort'
  <2>1. Undisturbed("sender")' => Undisturbed("sender")
    BY <1>1 DEF Undisturbed, FileOpen
  <2>2. CASE w = "sender"
    <3>1. NoValue \notin {0, Failed}
      BY DEF NoValue, Failed
    <3> QED BY <1>1, <1>2, <1>9, <1>16, <2>1, <2>2, <3>1 DEF IInv, NeverShort
  <2>3. CASE w # "sender"
    <3>1. "sender" \in Who
      BY TransfersAssumption DEF Who
    <3> QED BY <1>1, <1>10, <1>18, <2>1, <2>3, <3>1, NeverShortSame DEF IInv
  <2> QED BY <2>2, <2>3
<1> QED BY <1>7, <1>11, <1>12, <1>14, <1>19, <1>20 DEF IInv

\* The body of a piece after an answer.
BytesOf(b, offset, broken) ==
  [level |-> "bytes", from |-> b.from, len |-> b.len, exact |-> b.exact, offset |-> offset,
   broken |-> broken]

\* A piece goes on after its chunk has ended.
LEMMA BytesGoOn ==
  ASSUME NEW b \in BytesBody, NEW offset \in Nat, NEW broken \in BOOLEAN
  PROVE  /\ [b EXCEPT !.broken = broken] = BytesOf(b, b.offset, broken)
         /\ [b EXCEPT !.offset = offset, !.broken = broken] = BytesOf(b, offset, broken)
         /\ BytesOf(b, b.offset, broken) \in BytesBody /\ BytesOf(b, offset, broken) \in BytesBody
<1> DEFINE B(o, x) == BytesOf(b, o, x)
<1>1. /\ b = B(b.offset, b.broken) /\ b.from \in Nat /\ b.len \in Length /\ b.exact \in BOOLEAN
      /\ b.offset \in Nat /\ b.broken \in BOOLEAN
  BY DEF BytesBody, BytesOf
<1>3. \A o \in Nat, x \in BOOLEAN : B(o, x) \in BytesBody
  BY <1>1 DEF BytesBody, BytesOf
<1>4. \A o, x, y : [B(o, x) EXCEPT !.broken = y] = B(o, y)
  BY DEF BytesOf
<1>5. \A o, x, p : [B(o, x) EXCEPT !.offset = p] = B(p, x)
  BY DEF BytesOf
<1> HIDE DEF B
<1>6. ASSUME NEW c, c = B(c.offset, c.broken)
      PROVE [c EXCEPT !.broken = broken] = B(c.offset, broken)
  BY <1>4, <1>6
<1>7. [b EXCEPT !.broken = broken] = B(b.offset, broken)
  BY <1>1, <1>6
<1>8. ASSUME NEW c, c = B(c.offset, c.broken)
      PROVE [c EXCEPT !.offset = offset] = B(offset, c.broken)
  BY <1>5, <1>8
<1>9. [b EXCEPT !.offset = offset] = B(offset, b.broken)
  BY <1>1, <1>8
<1>10. PICK c : c = [b EXCEPT !.offset = offset]
  OBVIOUS
<1>11. [b EXCEPT !.offset = offset, !.broken = broken] = B(offset, broken)
  <2>1. c = B(offset, b.broken)
    BY <1>9, <1>10
  <2>2. [c EXCEPT !.broken = broken] = B(offset, broken)
    BY <1>4, <2>1
  <2>3. [b EXCEPT !.offset = offset, !.broken = broken] = [c EXCEPT !.broken = broken]
    BY <1>10, Zenon
  <2> QED BY <2>2, <2>3
<1>12. B(b.offset, broken) \in BytesBody /\ B(offset, broken) \in BytesBody
  BY <1>1, <1>3
<1> QED BY <1>7, <1>11, <1>12 DEF B

\* A piece goes on after an answer.
LEMMA BytesResumesKeeps ==
  ASSUME IInv, NEW t \in Thread, NEW f \in Frame, BytesResumes(t, f)
  PROVE  IInv'
<1> DEFINE w == f[1]
           b == frame[f].body
           n == frame[frame[f].child].value
<1>1. /\ Executes(t, f) /\ b.level = "bytes" /\ frame[f].child # None
      /\ AwaitResume(t, f, IF n <= 0 THEN [b EXCEPT !.broken = TRUE]
                           ELSE [b EXCEPT !.offset = @ + n, !.broken = ~b.exact])
      /\ UNCHANGED <<open, pending, cq, stream, taken, buffer, pos, cut, atOnce, faults>>
  BY DEF BytesResumes, Awaited, transport, history
<1>2. /\ f = Piece(w) /\ f[2] = 2 /\ CalleeOf(f) = Chunk(w) /\ w \in Who /\ b \in BytesBody
      /\ frame[f].state = "running" /\ BodyAt(f) = BytesBody
      /\ Root(w) \in Frame /\ Piece(w) \in Frame /\ Chunk(w) \in Frame
      /\ Root(w)[2] = 1 /\ Chunk(w)[2] = 3
  BY <1>1, Levels, FrameAddresses DEF IInv
<1>3. frame[f].child = Chunk(w) /\ frame[Chunk(w)].state # "gone"
  BY <1>1, <1>2, Callees DEF IInv
<1>4. frame[Chunk(w)].state = "final"
  BY <1>1, <1>2, <1>3 DEF IInv, Control, Nested, Joined
<1>5. /\ b.from \in Nat /\ b.len \in Nat /\ b.offset \in Nat /\ b.exact \in BOOLEAN
      /\ b.from + b.len = pos[w] /\ (w = "sender" => b.exact) /\ frame[f].value = NoValue
      /\ b.offset <= b.len /\ n \in Int /\ n \in NoValue..(b.len - b.offset) /\ n # NoValue
  <2>1. b.from \in Nat /\ b.len \in Nat /\ b.offset \in Nat /\ b.exact \in BOOLEAN
    BY <1>2, Bounds DEF BytesBody
  <2>2. PlacedAt(w)
    BY <1>2 DEF IInv, Placed
  <2>3. /\ b.from + b.len = pos[w] /\ (w = "sender" => b.exact) /\ frame[f].value = NoValue
        /\ b.offset <= b.len
    BY <1>2, <2>2 DEF PlacedAt
  <2>4. n \in NoValue..(b.len - b.offset) /\ n # NoValue
    BY <1>2, <1>3, <1>4, <2>2 DEF PlacedAt
  <2> QED BY <2>1, <2>3, <2>4 DEF NoValue
<1> HIDE DEF n
<1>6. PICK locals \in BodyAt(f) :
        /\ AwaitResume(t, f, locals)
        /\ locals.from = b.from /\ locals.len = b.len /\ (locals.exact <=> b.exact)
        /\ locals.offset = b.offset + (IF n > 0 THEN n ELSE 0)
        /\ locals.broken <=> (n <= 0 \/ ~b.exact)
  <2>1. PICK offset \in Nat : offset = b.offset + (IF n > 0 THEN n ELSE 0)
    BY <1>5
  <2>2. PICK broken \in BOOLEAN : broken <=> (n <= 0 \/ ~b.exact)
    OBVIOUS
  <2>3. PICK c \in BytesBody : c = b
    BY <1>2
  <2>4. /\ [c EXCEPT !.broken = broken] = BytesOf(c, c.offset, broken)
        /\ [c EXCEPT !.offset = offset, !.broken = broken] = BytesOf(c, offset, broken)
        /\ BytesOf(c, c.offset, broken) \in BytesBody /\ BytesOf(c, offset, broken) \in BytesBody
    BY BytesGoOn
  <2>5. (IF n <= 0 THEN [b EXCEPT !.broken = TRUE]
          ELSE [b EXCEPT !.offset = @ + n, !.broken = ~b.exact])
           = BytesOf(c, offset, broken)
    <3>1. CASE n <= 0
      <4>1. offset = c.offset /\ broken = TRUE
        BY <1>5, <2>1, <2>2, <2>3, <3>1
      <4>2. [c EXCEPT !.broken = TRUE] = BytesOf(c, offset, broken)
        BY <2>4, <4>1
      <4> QED BY <2>3, <3>1, <4>2
    <3>2. CASE ~(n <= 0)
      <4>1. offset = b.offset + n /\ (broken <=> ~b.exact)
        BY <1>5, <2>1, <2>2, <3>2
      <4>2. broken = ~b.exact
        BY <1>5, <4>1
      <4> QED BY <2>3, <2>4, <3>2, <4>1, <4>2
    <3> QED BY <3>1, <3>2
  <2>6. AwaitResume(t, f, BytesOf(c, offset, broken))
    BY <1>1, <2>5
  <2>7. PICK locals : locals = BytesOf(c, offset, broken)
    OBVIOUS
  <2>8. /\ locals.from = b.from /\ locals.len = b.len /\ (locals.exact <=> b.exact)
        /\ locals.offset = offset /\ (locals.broken <=> broken)
    BY <2>3, <2>7 DEF BytesOf
  <2> QED BY <1>2, <2>1, <2>2, <2>4, <2>6, <2>7, <2>8
<1>7. /\ Control' /\ Waiting' = Waiting /\ UNCHANGED stack
      /\ frame'[f] = FrameOf(frame[f].continuation, "running", None, frame[f].value, locals)
      /\ frame'[CalleeOf(f)] = Gone
      /\ \A g \in Frame : g # f /\ g # CalleeOf(f) => frame'[g] = frame[g]
  BY <1>6, AwaitEnded DEF IInv
<1> HIDE DEF w
<1>8. /\ frame'[Root(w)] = frame[Root(w)]
      /\ frame'[Piece(w)].state = "running" /\ frame'[Piece(w)].child = None
      /\ frame'[Piece(w)].value = frame[f].value /\ frame'[Piece(w)].body = locals
      /\ frame'[Chunk(w)] = Gone
  <2>1. Root(w) # f /\ Root(w) # CalleeOf(f)
    BY <1>2
  <2> QED BY <1>2, <1>7, <2>1 DEF FrameOf
<1>9. /\ \A g \in Frame : g[1] # w => frame'[g] = frame[g]
      /\ \A g \in Frame : frame[g].state = "running" /\ ~Executes(t, g) => frame'[g] = frame[g]
      /\ \A g \in Waiting : frame'[g] = frame[g]
  <2>1. Chunk(w)[1] = w /\ Piece(w)[1] = w
    BY <1>2, FrameAddresses
  <2>2. \A g \in Frame : g # Piece(w) /\ g # Chunk(w) => frame'[g] = frame[g]
    BY <1>2, <1>7
  <2>3. frame[Chunk(w)].state = "final" /\ frame[Piece(w)].state = "running"
          /\ Executes(t, Piece(w))
    BY <1>1, <1>2, <1>4
  <2> QED BY <2>1, <2>2, <2>3 DEF Waiting
<1>10. Types'
  BY <1>1 DEF IInv, Types
<1>11. Answered'
  BY <1>1, <1>7 DEF IInv, Answered
<1>12. PlacedAt(w)'
  <2>1. PlacedAt(w)
    BY <1>2 DEF IInv, Placed
  <2>2. locals.offset <= locals.len
    BY <1>5, <1>6
  <2>3. frame[f].state # "gone"
    BY <1>2
  <2> QED BY <1>1, <1>2, <1>6, <1>8, <2>1, <2>2, <2>3, GoneState DEF PlacedAt
<1>13. Asked'
  BY <1>1, <1>9, AskedSame DEF IInv
<1>14. ShallowAt(t)'
  <2>1. stack[t] # << >> /\ Top(t).in = "body" /\ Top(t).frame = f
    BY <1>1, ExecutedFrame DEF IInv, Control
  <2>2. Top(t)' = Top(t) /\ High(t, 2)' /\ High(t, 4)' /\ High(t, 5)'
    BY <1>1, <1>2, <1>7, <2>1 DEF IInv, Shallow, ShallowAt, High, Top
  <2> QED BY <1>2, <2>1, <2>2 DEF ShallowAt
<1>15. Reach'[w] = Reach[w]
  <2>1. ReachRight /\ ReachRight' /\ GotRight
    BY ReachCases, GotCases, PTL DEF IInv
  <2>2. Got[w] = n
    BY <1>2, <1>3, <1>5, <2>1 DEF GotRight, n
  <2>3. Reach[w] = b.from + b.offset + (IF n > 0 THEN n ELSE 0)
    BY <1>1, <1>2, <2>1, <2>2 DEF ReachRight
  <2>4. Reach'[w] = locals.from + locals.offset + 0
    BY <1>2, <1>8, <2>1 DEF ReachRight
  <2> QED BY <1>5, <1>6, <2>3, <2>4
<1>16. \A v \in Who : SameAnswers(v)
  BY <1>1 DEF SameAnswers
<1>17. Placed' /\ Shallow' /\ Streamed' /\ Buffered'
  <2>1. \A u \in Thread : u # t => stack'[u] = stack[u] /\ atOnce'[u] = atOnce[u]
    BY <1>1, <1>7
  <2>2. UNCHANGED <<stream, taken, buffer, cut>> /\ \A v \in Who : v # w => pos'[v] = pos[v]
    BY <1>1
  <2> QED BY <1>2, <1>7, <1>9, <1>11, <1>12, <1>14, <1>15, <1>16, <2>1, <2>2, Elsewhere
<1>18. NeverShort'
  <2>1. Undisturbed("sender")' => Undisturbed("sender")
    BY <1>1 DEF Undisturbed, FileOpen
  <2>2. CASE w = "sender"
    <3>1. Undisturbed("sender") => n \notin {0, Failed}
      BY <1>3, <2>2 DEF IInv, NeverShort, n
    <3>2. Undisturbed("sender") => n > 0
      BY <1>5, <3>1 DEF NoValue, Failed
    <3>3. Undisturbed("sender") => ~locals.broken
      BY <1>5, <1>6, <2>2, <3>2
    <3> QED BY <1>1, <1>2, <1>8, <2>1, <2>2, <3>3, GoneState DEF IInv, NeverShort
  <2>3. CASE w # "sender"
    <3>1. "sender" \in Who
      BY TransfersAssumption DEF Who
    <3> QED BY <1>1, <1>9, <1>16, <2>1, <2>3, <3>1, NeverShortSame DEF IInv
  <2> QED BY <2>2, <2>3
<1> QED BY <1>7, <1>10, <1>11, <1>13, <1>17, <1>18 DEF IInv

\* A piece ends: what it has not transferred is left out.
LEMMA BytesReturnsKeeps ==
  ASSUME IInv, NEW t \in Thread, NEW f \in Frame, BytesReturns(t, f)
  PROVE  IInv'
<1> DEFINE w == f[1]
           b == frame[f].body
<1>1. /\ Executes(t, f) /\ b.level = "bytes" /\ frame[f].child = None
      /\ b.offset >= b.len \/ b.broken
      /\ FinalSuspend(t, f)
      /\ cut' = [cut EXCEPT ![w] = @ \cup (b.from + b.offset)..(b.from + b.len - 1)]
      /\ atOnce' = [atOnce EXCEPT ![t] = IF b.len = 0 THEN @ + 1 ELSE @]
      /\ UNCHANGED <<open, pending, cq, stream, taken, buffer, pos, faults>>
  BY DEF BytesReturns, At, transport
<1>2. /\ f = Piece(w) /\ f[2] = 2 /\ Caller(f) = Root(w) /\ w \in Who /\ b \in BytesBody
      /\ frame[f].state = "running"
      /\ Root(w) \in Frame /\ Piece(w) \in Frame /\ Chunk(w) \in Frame
      /\ Root(w)[2] = 1 /\ Chunk(w)[2] = 3
  BY <1>1, Levels, FrameAddresses DEF IInv
<1>3. /\ b.from \in Nat /\ b.len \in Nat /\ b.offset \in Nat /\ b.offset <= b.len
      /\ b.from + b.len = pos[w] /\ (w = "sender" => b.exact) /\ frame[f].value = NoValue
  BY <1>2, Bounds DEF BytesBody, IInv, Placed, PlacedAt
<1>4. /\ Control' /\ Waiting' = Waiting
      /\ frame'[f] = FrameOf(frame[f].continuation, "final", None, frame[f].value, frame[f].body)
      /\ frame'[Caller(f)] = FrameOf(frame[Caller(f)].continuation, "running", f,
                                     frame[Caller(f)].value, frame[Caller(f)].body)
      /\ \A g \in Frame : g # f /\ g # Caller(f) => frame'[g] = frame[g]
      /\ \A u \in Thread : u # t => stack'[u] = stack[u]
      /\ Len(stack'[t]) = Len(stack[t]) + 1 /\ Top(t)' = Calling(Caller(f), "body")
  <2>1. f[2] > 1 /\ f[2] # 1
    BY <1>2
  <2> QED BY <1>1, <2>1, Finished DEF IInv
<1> HIDE DEF w
<1>5. /\ frame[Chunk(w)] = Gone
      /\ frame[Root(w)].state = "suspended" /\ frame[Root(w)].child = Piece(w)
  <2>1. frame[Chunk(w)] = Gone
    BY <1>1, <1>2, NothingBelow DEF IInv
  <2>2. frame[Root(w)].state # "gone" /\ frame[Root(w)].child = Piece(w) /\ Piece(w) # None
    BY <1>2, Callees, FrameAddresses DEF IInv
  <2>3. frame[Root(w)].state \in {"running", "suspended"} /\ CalleeOf(Root(w)) = Piece(w)
    BY <1>2, <2>2, Callees, FrameAddresses DEF IInv
  <2>4. frame[Root(w)].state = "running" => frame[Piece(w)].state = "final"
    BY <1>2, <2>2, <2>3 DEF IInv, Control, Nested, Joined
  <2> QED BY <1>2, <2>1, <2>2, <2>3, <2>4
<1>6. /\ frame'[Root(w)].state = "running" /\ frame'[Root(w)].child = Piece(w)
      /\ frame'[Root(w)].value = frame[Root(w)].value /\ frame'[Root(w)].body = frame[Root(w)].body
      /\ frame'[Piece(w)].state = "final" /\ frame'[Piece(w)].child = None
      /\ frame'[Piece(w)].value = frame[f].value /\ frame'[Piece(w)].body = b
      /\ frame'[Chunk(w)] = Gone
  <2>1. Chunk(w) # f /\ Chunk(w) # Caller(f)
    BY <1>2
  <2> QED BY <1>2, <1>4, <1>5, <2>1 DEF FrameOf
<1>7. /\ \A g \in Frame : g[1] # w => frame'[g] = frame[g]
      /\ \A g \in Frame : frame[g].state = "running" /\ ~Executes(t, g) => frame'[g] = frame[g]
      /\ \A g \in Waiting : frame'[g] = frame[g]
  <2>1. Root(w)[1] = w /\ Piece(w)[1] = w /\ Piece(w) # None
    BY <1>2, FrameAddresses
  <2>2. \A g \in Frame : g # Piece(w) /\ g # Root(w) => frame'[g] = frame[g]
    BY <1>2, <1>4
  <2> QED BY <1>1, <1>2, <1>5, <2>1, <2>2 DEF Waiting
<1>8. /\ cut'[w] = cut[w] \cup (b.from + b.offset)..(b.from + b.len - 1)
      /\ \A v \in Who : v # w => cut'[v] = cut[v]
      /\ cut' \in [Who -> SUBSET Nat]
  <2>1. (b.from + b.offset)..(b.from + b.len - 1) \subseteq Nat
    BY <1>3
  <2>2. cut \in [Who -> SUBSET Nat]
    BY DEF IInv, Types
  <2>3. cut'[w] = cut[w] \cup (b.from + b.offset)..(b.from + b.len - 1)
    BY <1>1, <1>2, <2>2
  <2>4. \A v \in Who : v # w => cut'[v] = cut[v]
    BY <1>1, <2>2
  <2>5. cut' = [v \in Who |-> cut'[v]]
    BY <1>1, <2>2
  <2> QED BY <2>1, <2>2, <2>3, <2>4, <2>5
<1>9. /\ atOnce'[t] = (IF b.len = 0 THEN atOnce[t] + 1 ELSE atOnce[t])
      /\ \A u \in Thread : u # t => atOnce'[u] = atOnce[u]
      /\ atOnce' \in [Thread -> Nat] /\ atOnce[t] \in Nat
  BY <1>1 DEF IInv, Types
<1>10. Types'
  BY <1>1, <1>8, <1>9 DEF IInv, Types
<1>11. Answered'
  BY <1>1, <1>4 DEF IInv, Answered
<1>12. PlacedAt(w)'
  <2>1. PlacedAt(w)
    BY <1>2 DEF IInv, Placed
  <2>2. frame[f].state # "gone"
    BY <1>2
  <2> QED BY <1>1, <1>2, <1>6, <2>1, <2>2, GoneState DEF PlacedAt
<1>13. Asked'
  BY <1>1, <1>7, AskedSame DEF IInv
<1>14. ShallowAt(t)'
  <2>1. High(t, 4) /\ (b.offset > 0 \/ b.broken => High(t, 2))
    <3>1. stack[t] # << >> /\ Top(t).in = "body" /\ Top(t).frame = f
      BY <1>1, ExecutedFrame DEF IInv, Control
    <3> QED BY <1>2, <3>1 DEF IInv, Shallow, ShallowAt
  <2>2. Len(stack[t]) \in Nat
    BY LenProperties DEF IInv, Control, TaskTypes
  <2>3. High(t, 3)' /\ High(t, 5)'
    <3>1. CASE b.len = 0
      BY <1>4, <1>9, <2>1, <2>2, <3>1 DEF High
    <3>2. CASE b.len # 0
      <4>1. High(t, 2)
        BY <1>1, <1>3, <2>1, <3>2
      <4> QED BY <1>4, <1>9, <2>2, <3>2, <4>1 DEF High
    <3> QED BY <3>1, <3>2
  <2>4. Top(t)'.frame = Root(w)
    BY <1>2, <1>4 DEF Calling
  <2> QED BY <1>2, <2>3, <2>4 DEF ShallowAt
<1>15. /\ Reach[w] = b.from + b.offset /\ Reach'[w] = b.from + b.len
       /\ \A v \in Who : v # w => Reach'[v] = Reach[v]
       /\ Placed' /\ Shallow'
  <2>1. ReachRight /\ ReachRight'
    BY ReachCases, PTL
  <2>2. Reach[w] = b.from + b.offset + 0
    BY <1>1, <1>2, <2>1 DEF ReachRight
  <2>3. Reach'[w] = b.from + b.len
    BY <1>1, <1>2, <1>3, <1>6, <2>1 DEF ReachRight
  <2>4. \A v \in Who : SameAnswers(v)
    BY <1>1 DEF SameAnswers
  <2>5. \A v \in Who : v # w => pos'[v] = pos[v] /\ SameAnswers(v)
    BY <1>1, <2>4
  <2>6. \A u \in Thread : u # t => stack'[u] = stack[u] /\ atOnce'[u] = atOnce[u]
    BY <1>4, <1>9
  <2> QED BY <1>2, <1>3, <1>4, <1>7, <1>11, <1>12, <1>14, <2>2, <2>3, <2>5, <2>6, Elsewhere
<1>16. Streamed' /\ Buffered'
  <2>1. "sender" \in Who /\ "receiver" \in Who /\ Filled' = Filled
    BY <1>1, TransfersAssumption DEF Who, Filled
  <2>2. PICK r \in Nat, e \in Nat :
          /\ r = b.from + b.offset /\ e = b.from + b.len /\ r <= e
          /\ Reach[w] = r /\ Reach'[w] = e /\ cut'[w] = cut[w] \cup r..(e - 1)
    BY <1>3, <1>8, <1>15
  <2>3. CASE w = "sender"
    <3>1. cut'["receiver"] = cut["receiver"] /\ Reach'["receiver"] = Reach["receiver"]
      BY <1>8, <1>15, <2>1, <2>3
    <3>2. Buffered'
      BY <1>1, <2>1, <3>1 DEF IInv, Buffered
    <3>3. /\ ToSet(stream) \cap cut["sender"] = {}
          /\ ToSet(stream) \cup cut["sender"] = 0..(r - 1)
      <4>1. Reach["sender"] = r
        BY <2>3, <2>2
      <4>2. /\ ToSet(stream) \cap cut["sender"] = {}
            /\ ToSet(stream) \cup cut["sender"] = 0..(Reach["sender"] - 1)
        BY DEF IInv, Streamed
      <4> QED BY <4>1, <4>2
    <3>4. /\ ToSet(stream) \cap cut'["sender"] = {}
          /\ ToSet(stream) \cup cut'["sender"] = 0..(e - 1)
      BY <2>3, <2>2, <3>3
    <3>5. Reach'["sender"] = e
      BY <2>3, <2>2
    <3>6. ToSet(stream) \cup cut'["sender"] = 0..(Reach'["sender"] - 1)
      BY <3>4, <3>5
    <3>7. \A i, j \in 1..Len(stream) : i < j => stream[i] < stream[j]
      BY DEF IInv, Streamed
    <3> QED BY <1>1, <3>2, <3>4, <3>6, <3>7 DEF Streamed
  <2>4. CASE w = "receiver"
    <3>1. cut'["sender"] = cut["sender"] /\ Reach'["sender"] = Reach["sender"]
      BY <1>8, <1>15, <2>1, <2>4
    <3>2. Streamed'
      BY <1>1, <3>1 DEF IInv, Streamed
    <3>3. /\ Filled \cap cut["receiver"] = {}
          /\ Filled \cup cut["receiver"] = 0..(r - 1)
      <4>1. Reach["receiver"] = r
        BY <2>4, <2>2
      <4>2. /\ Filled \cap cut["receiver"] = {}
            /\ Filled \cup cut["receiver"] = 0..(Reach["receiver"] - 1)
        BY DEF IInv, Buffered
      <4> QED BY <4>1, <4>2
    <3>4. /\ Filled \cap cut'["receiver"] = {}
          /\ Filled \cup cut'["receiver"] = 0..(e - 1)
      BY <2>4, <2>2, <3>3
    <3>5. Reach'["receiver"] = e
      BY <2>4, <2>2
    <3>6. Filled \cup cut'["receiver"] = 0..(Reach'["receiver"] - 1)
      BY <3>4, <3>5
    <3>7. /\ Cardinality(Filled) = taken
          /\ \A c \in Filled : buffer[c] = stream[Cardinality({d \in Filled : d <= c})]
      BY DEF IInv, Buffered
    <3> QED BY <1>1, <2>1, <3>2, <3>4, <3>6, <3>7 DEF Buffered
  <2> QED BY <1>2, <2>3, <2>4, TransfersAssumption DEF Who
<1>17. NeverShort'
  <2>1. Undisturbed("sender")' => Undisturbed("sender")
    BY <1>1 DEF Undisturbed, FileOpen
  <2>2. CASE w = "sender"
    <3>1. Undisturbed("sender") => cut["sender"] = {} /\ ~b.broken
      BY <1>2, <2>2 DEF IInv, NeverShort
    <3>2. Undisturbed("sender") => cut'["sender"] = {}
      BY <1>1, <1>3, <1>8, <2>2, <3>1
    <3>3. frame[Root(w)].state # "final"
      BY <1>5
    <3> QED BY <1>1, <1>2, <1>5, <1>6, <2>1, <2>2, <3>1, <3>2, <3>3, GoneState DEF IInv, NeverShort
  <2>3. CASE w # "sender"
    <3>1. "sender" \in Who /\ SameAnswers("sender")
      BY <1>1, TransfersAssumption DEF Who, SameAnswers
    <3> QED BY <1>1, <1>7, <1>8, <2>1, <2>3, <3>1, NeverShortSame DEF IInv
  <2> QED BY <2>2, <2>3
<1> QED BY <1>4, <1>10, <1>11, <1>13, <1>15, <1>16, <1>17 DEF IInv

\* A coroutine of a chunk: where it is, and what surrounds it.
LEMMA ChunkRuns ==
  ASSUME IInv, NEW t \in Thread, NEW f \in Frame, Executes(t, f), frame[f].body.level = "call"
  PROVE  /\ f = Chunk(f[1]) /\ f[2] = 3 /\ Caller(f) = Piece(f[1]) /\ f[1] \in Who
         /\ frame[f].state = "running" /\ frame[f].child = None /\ f \notin Waiting
         /\ frame[Piece(f[1])].state = "suspended" /\ frame[Piece(f[1])].child = f
         /\ frame[Root(f[1])].state = "suspended"
         /\ frame[f].body.from \in Nat /\ frame[f].body.len \in Nat
         /\ stack[t] # << >> /\ Top(t).in = "body" /\ Top(t).frame = f /\ Len(stack[t]) \in Nat
<1>1. f = Chunk(f[1]) /\ f[2] = 3 /\ f[1] \in Who /\ frame[f].state = "running"
  BY Levels DEF IInv
<1>2. PICK w \in Who : w = f[1]
  BY <1>1
<1>3. /\ Caller(Chunk(w)) = Piece(w) /\ Caller(Piece(w)) = Root(w)
      /\ CalleeOf(Root(w)) = Piece(w) /\ CalleeOf(Piece(w)) = Chunk(w)
      /\ Root(w) \in Frame /\ Piece(w) \in Frame /\ Chunk(w) \in Frame
      /\ Piece(w) # None /\ Chunk(w) # None
  BY FrameAddresses
<1>4. /\ frame[Chunk(w)].child = None /\ frame[Chunk(w)].body \in CallBody
      /\ frame[Piece(w)].state \in {"running", "suspended"} /\ frame[Piece(w)].child = Chunk(w)
      /\ frame[Root(w)].state \in {"running", "suspended"} /\ frame[Root(w)].child = Piece(w)
  BY <1>1, <1>2, BodyTypes DEF IInv
<1>5. frame[Piece(w)].state = "suspended"
  BY <1>1, <1>2, <1>3, <1>4 DEF IInv, Control, Nested, Joined
<1>6. frame[Root(w)].state = "suspended"
  BY <1>3, <1>4, <1>5 DEF IInv, Control, Nested, Joined
<1>7. stack[t] # << >> /\ Top(t).in = "body" /\ Top(t).frame = f /\ Len(stack[t]) \in Nat
  <2>1. stack[t] # << >> /\ Top(t).in = "body" /\ Top(t).frame = f /\ stack[t] \in Seq(Calls)
    BY ExecutedFrame DEF IInv, Control
  <2> QED BY <2>1, LenProperties
<1>8. frame[f].body.from \in Nat /\ frame[f].body.len \in Nat
  BY <1>1, <1>2, <1>4 DEF CallBody
<1> QED BY <1>1, <1>2, <1>3, <1>4, <1>5, <1>6, <1>7, <1>8 DEF Waiting

\* A chunk that is refused has its answer at once.
LEMMA CallRefusedKeeps ==
  ASSUME IInv, NEW t \in Thread, NEW f \in Frame, CallRefused(t, f)
  PROVE  IInv'
<1> DEFINE w == f[1]
<1>1. /\ Executes(t, f) /\ frame[f].body.level = "call" /\ frame[f].value = NoValue
      /\ atOnce' = [atOnce EXCEPT ![t] = @ + 1]
      /\ UNCHANGED <<open, pending, cq, stream, taken, buffer, pos, cut>>
  BY DEF CallRefused, At, transport, history
<1>2. PICK value \in {0, Failed} :
        /\ ResumeInside(t, f, value)
        /\ \/ ~open[w] /\ faults' = faults
           \/ faults > 0 /\ faults' = faults - 1
  BY DEF CallRefused
<1>3. /\ f = Chunk(w) /\ f[2] = 3 /\ w \in Who /\ frame[f].state = "running" /\ f \notin Waiting
      /\ frame[Piece(w)].state = "suspended" /\ frame[Piece(w)].child = f
      /\ frame[Root(w)].state = "suspended"
      /\ frame[f].body.len \in Nat /\ Len(stack[t]) \in Nat
      /\ Root(w) \in Frame /\ Piece(w) \in Frame /\ Root(w) # f /\ Piece(w) # f /\ f # None
  BY <1>1, ChunkRuns, FrameAddresses
<1>4. /\ Control' /\ Waiting' = Waiting
      /\ frame'[f] = FrameOf(frame[f].continuation, "running", None, value, frame[f].body)
      /\ \A g \in Frame : g # f => frame'[g] = frame[g]
      /\ \A u \in Thread : u # t => stack'[u] = stack[u]
      /\ Len(stack'[t]) = Len(stack[t]) + 1 /\ Top(t)' = Calling(f, "body")
  <2>1. value \in Int /\ Control
    BY DEF Failed, IInv
  <2> QED BY <1>2, <1>3, <2>1, ResumedInside
<1> HIDE DEF w
<1>5. value \in {0, Failed} /\ value <= 0 /\ value # NoValue /\ value \in Int
  BY DEF Failed, NoValue
<1>6. /\ frame'[Root(w)] = frame[Root(w)] /\ frame'[Piece(w)] = frame[Piece(w)]
      /\ frame'[Chunk(w)].state = "running" /\ frame'[Chunk(w)].child = None
      /\ frame'[Chunk(w)].value = value /\ frame'[Chunk(w)].body = frame[Chunk(w)].body
  BY <1>3, <1>4 DEF FrameOf
<1>7. /\ \A g \in Frame : g[1] # w => frame'[g] = frame[g]
      /\ \A g \in Frame : frame[g].state = "running" /\ ~Executes(t, g) => frame'[g] = frame[g]
      /\ \A g \in Waiting : frame'[g] = frame[g]
  <2>1. Chunk(w)[1] = w
    BY <1>3, FrameAddresses
  <2> QED BY <1>1, <1>3, <1>4, <2>1 DEF Waiting
<1>8. /\ atOnce'[t] = atOnce[t] + 1 /\ \A u \in Thread : u # t => atOnce'[u] = atOnce[u]
      /\ atOnce' \in [Thread -> Nat] /\ atOnce[t] \in Nat
  BY <1>1 DEF IInv, Types
<1>9. faults' \in 0..MaxFaults /\ faults' <= faults
  BY <1>2, Bounds DEF IInv, Types
<1>10. Types'
  BY <1>1, <1>8, <1>9 DEF IInv, Types
<1>11. Answered'
  BY <1>1, <1>4 DEF IInv, Answered
<1>12. PlacedAt(w)'
  <2>1. PlacedAt(w)
    BY <1>3 DEF IInv, Placed
  <2>2. value \in NoValue..frame[f].body.len
    BY <1>3 DEF Failed, NoValue
  <2> QED BY <1>1, <1>3, <1>5, <1>6, <2>1, <2>2 DEF PlacedAt
<1>13. Asked'
  BY <1>1, <1>7, AskedSame DEF IInv
<1>14. ShallowAt(t)'
  <2>1. High(t, 5)
    BY DEF IInv, Shallow, ShallowAt
  <2>2. High(t, 1)' /\ High(t, 5)'
    BY <1>3, <1>4, <1>8, <2>1 DEF High
  <2>3. Top(t)'.frame = f
    BY <1>4 DEF Calling
  <2> QED BY <1>3, <2>2, <2>3 DEF ShallowAt
<1>15. \A i \in 1..Len(cq) : cq[i].frame # Chunk(w)
  BY <1>3, NothingGot DEF IInv
<1>16. Reach'[w] = Reach[w]
  <2>1. ReachRight /\ ReachRight' /\ GotRight /\ GotRight'
    BY <1>11, ReachCases, GotCases, PTL DEF IInv
  <2>2. Got[w] = 0
    BY <1>1, <1>3, <1>15, <2>1 DEF GotRight
  <2>3. Got'[w] = value
    BY <1>3, <1>5, <1>6, <2>1 DEF GotRight
  <2>4. ~(Got[w] > 0) /\ ~(Got'[w] > 0)
    BY <1>5, <2>2, <2>3
  <2> QED BY <1>3, <1>6, <2>1, <2>4 DEF ReachRight
<1>17. \A v \in Who : SameAnswers(v)
  BY <1>1 DEF SameAnswers
<1>18. Placed' /\ Shallow' /\ Streamed' /\ Buffered'
  <2>1. \A u \in Thread : u # t => stack'[u] = stack[u] /\ atOnce'[u] = atOnce[u]
    BY <1>4, <1>8
  <2>2. UNCHANGED <<stream, taken, buffer, cut>> /\ \A v \in Who : v # w => pos'[v] = pos[v]
    BY <1>1
  <2> QED BY <1>3, <1>4, <1>7, <1>11, <1>12, <1>14, <1>16, <1>17, <2>1, <2>2, Elsewhere
<1>19. NeverShort'
  <2>1. Undisturbed("sender")' => Undisturbed("sender") /\ faults' = faults
    BY <1>1, <1>9, <1>10, UndisturbedBefore DEF IInv
  <2>2. CASE w = "sender"
    <3>1. Undisturbed("sender") => open["sender"]
      BY <1>3, <2>2 DEF IInv, NeverShort
    <3>2. ~Undisturbed("sender")'
      <4>1. faults \in Int
        BY Bounds DEF IInv, Types
      <4> QED BY <1>2, <2>1, <2>2, <3>1, <4>1
    <3> QED BY <3>2 DEF NeverShort
  <2>3. CASE w # "sender"
    <3>1. "sender" \in Who
      BY TransfersAssumption DEF Who
    <3> QED BY <1>1, <1>7, <1>17, <2>1, <2>3, <3>1, NeverShortSame DEF IInv
  <2> QED BY <2>2, <2>3
<1> QED BY <1>4, <1>10, <1>11, <1>13, <1>18, <1>19 DEF IInv

\* A chunk is handed to the kernel.
LEMMA CallSubmittedKeeps ==
  ASSUME IInv, NEW t \in Thread, NEW f \in Frame, CallSubmitted(t, f)
  PROVE  IInv'
<1> DEFINE w == f[1]
           b == frame[f].body
           new == [frame |-> f, from |-> b.from, len |-> b.len]
<1>1. /\ Executes(t, f) /\ b.level = "call" /\ frame[f].value = NoValue /\ open[w]
      /\ Suspend(t, f) /\ pending' = pending \cup {new}
      /\ UNCHANGED <<open, cq, stream, taken, buffer, pos, cut, atOnce, faults>>
  BY DEF CallSubmitted, At, history
<1>2. /\ f = Chunk(w) /\ f[2] = 3 /\ w \in Who /\ frame[f].state = "running" /\ f \notin Waiting
      /\ frame[Piece(w)].state = "suspended" /\ frame[Piece(w)].child = f
      /\ b.from \in Nat /\ b.len \in Nat
      /\ Root(w) \in Frame /\ Piece(w) \in Frame /\ Root(w) # f /\ Piece(w) # f
  BY <1>1, ChunkRuns, FrameAddresses
<1>3. /\ Control' /\ Waiting' = Waiting \cup {f}
      /\ frame[f].child = None
      /\ frame'[f] = FrameOf(frame[f].continuation, "suspended", None, frame[f].value, frame[f].body)
      /\ \A g \in Frame : g # f => frame'[g] = frame[g]
      /\ \A u \in Thread : u # t => stack'[u] = stack[u]
      /\ Len(stack'[t]) = Len(stack[t]) /\ Top(t)'.in # "body"
  BY <1>1, <1>2, Suspended DEF IInv
<1> HIDE DEF w
<1>4. /\ frame'[Root(w)] = frame[Root(w)] /\ frame'[Piece(w)] = frame[Piece(w)]
      /\ frame'[Chunk(w)].state = "suspended" /\ frame'[Chunk(w)].child = None
      /\ frame'[Chunk(w)].value = NoValue /\ frame'[Chunk(w)].body = b
  BY <1>1, <1>2, <1>3 DEF FrameOf
<1>5. /\ \A g \in Frame : g[1] # w => frame'[g] = frame[g]
      /\ \A g \in Frame : frame[g].state = "running" /\ ~Executes(t, g) => frame'[g] = frame[g]
      /\ \A g \in Waiting : frame'[g] = frame[g]
  <2>1. Chunk(w)[1] = w
    BY <1>2, FrameAddresses
  <2> QED BY <1>1, <1>2, <1>3, <2>1 DEF Waiting
<1>6. new.frame = f /\ new.from = b.from /\ new.len = b.len
        /\ new \in [frame : Frame, from : Nat, len : Nat]
  BY <1>2
<1> HIDE DEF new
<1>7. Types'
  BY <1>1, <1>6 DEF IInv, Types
<1>8. Answered'
  <2>1. /\ Waiting = {op.frame : op \in pending} \cup {cq[i].frame : i \in 1..Len(cq)}
        /\ \A o, p \in pending : o.frame = p.frame => o = p
        /\ \A i, j \in 1..Len(cq) : cq[i].frame = cq[j].frame => i = j
        /\ \A op \in pending : \A i \in 1..Len(cq) : op.frame # cq[i].frame
    BY DEF IInv, Answered
  <2>2. \A op \in pending : op.frame # f
    BY <1>2, <2>1
  <2>3. \A i \in 1..Len(cq) : cq[i].frame # f
    BY <1>2, <2>1
  <2>4. {op.frame : op \in pending'} = {op.frame : op \in pending} \cup {f}
    BY <1>1, <1>6
  <2>5. Waiting' = {op.frame : op \in pending'} \cup {cq'[i].frame : i \in 1..Len(cq')}
    <3>1. {cq'[i].frame : i \in 1..Len(cq')} = {cq[i].frame : i \in 1..Len(cq)}
      BY <1>1
    <3>2. \A A, B, C, X : A = B \cup C /\ X = B \cup {f} => A \cup {f} = X \cup C
      OBVIOUS
    <3> QED BY <1>3, <2>1, <2>4, <3>1, <3>2, Zenon
  <2>6. \A o, p \in pending' : o.frame = p.frame => o = p
    BY <1>1, <1>6, <2>1, <2>2
  <2>7. \A op \in pending' : \A i \in 1..Len(cq) : op.frame # cq[i].frame
    BY <1>1, <1>6, <2>1, <2>3
  <2> QED BY <1>1, <2>1, <2>5, <2>6, <2>7 DEF Answered
<1>9. PlacedAt(w)'
  <2>1. PlacedAt(w)
    BY <1>2 DEF IInv, Placed
  <2> QED BY <1>1, <1>2, <1>4, <2>1 DEF PlacedAt
<1>10. Asked'
  <2>1. \A op \in pending : op.frame \in Waiting /\ frame'[op.frame] = frame[op.frame]
    BY <1>5 DEF IInv, Answered
  <2>2. \A i \in 1..Len(cq) : cq[i].frame \in Waiting /\ frame'[cq[i].frame] = frame[cq[i].frame]
    BY <1>5 DEF IInv, Answered
  <2>3. frame'[f].body = b
    BY <1>2, <1>4
  <2> QED BY <1>1, <1>6, <2>1, <2>2, <2>3 DEF IInv, Asked
<1>11. ShallowAt(t)'
  <2>1. High(t, 5)'
    BY <1>1, <1>3 DEF IInv, Shallow, ShallowAt, High
  <2> QED BY <1>3, <2>1 DEF ShallowAt
<1>12. \A i \in 1..Len(cq) : cq[i].frame # Chunk(w)
  BY <1>2, NothingGot DEF IInv
<1>13. Reach'[w] = Reach[w]
  <2>1. ReachRight /\ ReachRight' /\ GotRight /\ GotRight'
    BY <1>8, ReachCases, GotCases, PTL DEF IInv
  <2>2. Got[w] = 0 /\ Got'[w] = 0
    BY <1>1, <1>2, <1>4, <1>12, <2>1 DEF GotRight
  <2>3. ~(Got[w] > 0) /\ ~(Got'[w] > 0)
    BY <2>2
  <2> QED BY <1>1, <1>2, <1>4, <2>1, <2>3 DEF ReachRight
<1>14. \A v \in Who : SameAnswers(v)
  BY <1>1 DEF SameAnswers
<1>15. Placed' /\ Shallow' /\ Streamed' /\ Buffered'
  <2>1. \A u \in Thread : u # t => stack'[u] = stack[u] /\ atOnce'[u] = atOnce[u]
    BY <1>1, <1>3
  <2>2. UNCHANGED <<stream, taken, buffer, cut>> /\ \A v \in Who : v # w => pos'[v] = pos[v]
    BY <1>1
  <2> QED BY <1>2, <1>3, <1>5, <1>8, <1>9, <1>11, <1>13, <1>14, <2>1, <2>2, Elsewhere
<1>16. NeverShort'
  <2>1. Undisturbed("sender")' => Undisturbed("sender")
    <3>1. /\ faults' <= faults /\ (\A v \in Who : open'[v] => open[v])
          /\ \A op \in pending' : op \in pending \/ open[op.frame[1]]
      <4>1. faults' = faults /\ faults \in Int /\ new.frame[1] = w
        BY <1>1, <1>6, Bounds DEF IInv, Types, w
      <4> QED BY <1>1, <4>1
    <3> QED BY <1>7, <3>1, UndisturbedBefore DEF IInv
  <2>2. CASE w = "sender"
    <3>1. NoValue \notin {0, Failed}
      BY DEF NoValue, Failed
    <3> QED BY <1>1, <1>2, <1>4, <1>12, <2>1, <2>2, <3>1 DEF IInv, NeverShort
  <2>3. CASE w # "sender"
    <3>1. "sender" \in Who
      BY TransfersAssumption DEF Who
    <3> QED BY <1>1, <1>5, <1>14, <2>1, <2>3, <3>1, NeverShortSame DEF IInv
  <2> QED BY <2>2, <2>3
<1> QED BY <1>3, <1>7, <1>8, <1>10, <1>15, <1>16 DEF IInv

\* A chunk that has its answer ends.
LEMMA CallReturnsKeeps ==
  ASSUME IInv, NEW t \in Thread, NEW f \in Frame, CallReturns(t, f)
  PROVE  IInv'
<1> DEFINE w == f[1]
<1>1. /\ Executes(t, f) /\ frame[f].body.level = "call" /\ frame[f].value # NoValue
      /\ FinalSuspend(t, f)
      /\ UNCHANGED <<open, pending, cq, stream, taken, buffer, pos, cut, atOnce, faults>>
  BY DEF CallReturns, At, transport, history
<1>2. /\ f = Chunk(w) /\ f[2] = 3 /\ Caller(f) = Piece(w) /\ w \in Who
      /\ frame[f].state = "running" /\ frame[f].child = None
      /\ frame[Piece(w)].state = "suspended" /\ frame[Piece(w)].child = f
      /\ stack[t] # << >> /\ Top(t).in = "body" /\ Top(t).frame = f /\ Len(stack[t]) \in Nat
      /\ Root(w) \in Frame /\ Piece(w) \in Frame /\ Root(w) # f /\ Piece(w) # f
      /\ Root(w) # Piece(w) /\ f # None /\ Piece(w)[2] = 2
  BY <1>1, ChunkRuns, FrameAddresses
<1>3. /\ Control' /\ Waiting' = Waiting
      /\ frame'[f] = FrameOf(frame[f].continuation, "final", None, frame[f].value, frame[f].body)
      /\ frame'[Caller(f)] = FrameOf(frame[Caller(f)].continuation, "running", f,
                                     frame[Caller(f)].value, frame[Caller(f)].body)
      /\ \A g \in Frame : g # f /\ g # Caller(f) => frame'[g] = frame[g]
      /\ \A u \in Thread : u # t => stack'[u] = stack[u]
      /\ Len(stack'[t]) = Len(stack[t]) + 1 /\ Top(t)' = Calling(Caller(f), "body")
  <2>1. f[2] > 1 /\ f[2] # 1
    BY <1>2
  <2> QED BY <1>1, <1>2, <2>1, Finished DEF IInv
<1> HIDE DEF w
<1>4. /\ frame'[Root(w)] = frame[Root(w)]
      /\ frame'[Piece(w)].state = "running" /\ frame'[Piece(w)].child = Chunk(w)
      /\ frame'[Piece(w)].value = frame[Piece(w)].value
           /\ frame'[Piece(w)].body = frame[Piece(w)].body
      /\ frame'[Chunk(w)].state = "final" /\ frame'[Chunk(w)].child = None
      /\ frame'[Chunk(w)].value = frame[f].value /\ frame'[Chunk(w)].body = frame[Chunk(w)].body
  BY <1>2, <1>3 DEF FrameOf
<1>5. /\ \A g \in Frame : g[1] # w => frame'[g] = frame[g]
      /\ \A g \in Frame : frame[g].state = "running" /\ ~Executes(t, g) => frame'[g] = frame[g]
      /\ \A g \in Waiting : frame'[g] = frame[g]
  <2>1. Chunk(w)[1] = w /\ Piece(w)[1] = w
    BY <1>2, FrameAddresses
  <2>2. \A g \in Frame : g # Chunk(w) /\ g # Piece(w) => frame'[g] = frame[g]
    BY <1>2, <1>3
  <2> QED BY <1>1, <1>2, <2>1, <2>2 DEF Waiting
<1>6. Types'
  BY <1>1 DEF IInv, Types
<1>7. Answered'
  BY <1>1, <1>3 DEF IInv, Answered
<1>8. PlacedAt(w)'
  <2>1. PlacedAt(w)
    BY <1>2 DEF IInv, Placed
  <2> QED BY <1>1, <1>2, <1>4, <2>1 DEF PlacedAt
<1>9. Asked'
  BY <1>1, <1>5, AskedSame DEF IInv
<1>10. ShallowAt(t)'
  <2>1. High(t, 1)
    BY <1>1, <1>2 DEF IInv, Shallow, ShallowAt
  <2>2. atOnce[t] \in Nat
    BY DEF IInv, Types
  <2>3. High(t, 2)' /\ High(t, 4)' /\ High(t, 5)'
    BY <1>1, <1>2, <1>3, <2>1, <2>2 DEF High
  <2>4. Top(t)'.frame = Piece(w)
    BY <1>2, <1>3 DEF Calling
  <2> QED BY <1>2, <2>3, <2>4 DEF ShallowAt
<1>11. Reach'[w] = Reach[w]
  <2>1. ReachRight /\ ReachRight' /\ GotRight /\ GotRight'
    BY <1>7, ReachCases, GotCases, PTL DEF IInv
  <2>2. Got[w] = frame[f].value /\ Got'[w] = frame[f].value
    BY <1>1, <1>2, <1>4, <2>1 DEF GotRight
  <2> QED BY <1>2, <1>4, <2>1, <2>2 DEF ReachRight
<1>12. \A v \in Who : SameAnswers(v)
  BY <1>1 DEF SameAnswers
<1>13. Placed' /\ Shallow' /\ Streamed' /\ Buffered'
  <2>1. \A u \in Thread : u # t => stack'[u] = stack[u] /\ atOnce'[u] = atOnce[u]
    BY <1>1, <1>3
  <2>2. UNCHANGED <<stream, taken, buffer, cut>> /\ \A v \in Who : v # w => pos'[v] = pos[v]
    BY <1>1
  <2> QED BY <1>2, <1>3, <1>5, <1>7, <1>8, <1>10, <1>11, <1>12, <2>1, <2>2, Elsewhere
<1>14. NeverShort'
  <2>1. Undisturbed("sender")' => Undisturbed("sender")
    BY <1>1 DEF Undisturbed, FileOpen
  <2>2. CASE w = "sender"
    BY <1>1, <1>2, <1>4, <2>1, <2>2 DEF IInv, NeverShort
  <2>3. CASE w # "sender"
    <3>1. "sender" \in Who
      BY TransfersAssumption DEF Who
    <3> QED BY <1>1, <1>5, <1>12, <2>1, <2>3, <3>1, NeverShortSame DEF IInv
  <2> QED BY <2>2, <2>3
<1> QED BY <1>3, <1>6, <1>7, <1>9, <1>13, <1>14 DEF IInv

\* main starts a client.
LEMMA StartKeeps ==
  ASSUME IInv, NEW w \in Who, Start(w)
  PROVE  IInv'
<1> DEFINE f == Root(w)
           t == "main"
<1>1. /\ t \in Thread /\ f \in Frame /\ f[1] = w /\ f[2] = 1 /\ f # None
      /\ Piece(w) \in Frame /\ Chunk(w) \in Frame /\ Piece(w) # f /\ Chunk(w) # f
  BY TransfersAssumption, FrameAddresses
<1>2. /\ StartDetached(t, f) /\ atOnce' = [atOnce EXCEPT ![t] = 0]
      /\ UNCHANGED <<open, pending, cq, stream, taken, buffer, pos, cut, faults>>
  BY DEF Start, transport, history
<1> HIDE DEF t, f
<1>3. /\ Control' /\ Waiting' = Waiting
      /\ frame[f].state = "initial"
      /\ frame'[f] = FrameOf(frame[f].continuation, "running", frame[f].child, frame[f].value,
                             frame[f].body)
      /\ \A g \in Frame : g # f => frame'[g] = frame[g]
      /\ \A u \in Thread : u # t => stack'[u] = stack[u]
      /\ stack'[t] = << Calling(f, "body") >>
  BY <1>1, <1>2, Started DEF IInv
<1>4. /\ frame'[Root(w)].state = "running" /\ frame'[Root(w)].child = frame[Root(w)].child
      /\ frame'[Root(w)].value = frame[Root(w)].value /\ frame'[Root(w)].body = frame[Root(w)].body
      /\ frame'[Piece(w)] = frame[Piece(w)] /\ frame'[Chunk(w)] = frame[Chunk(w)]
  BY <1>1, <1>3 DEF FrameOf, f
<1>5. /\ \A g \in Frame : g[1] # w => frame'[g] = frame[g]
      /\ \A g \in Frame : frame[g].state = "running" /\ ~Executes(t, g) => frame'[g] = frame[g]
      /\ \A g \in Waiting : frame'[g] = frame[g]
  BY <1>1, <1>3 DEF Waiting
<1>6. /\ atOnce'[t] = 0 /\ (\A u \in Thread : u # t => atOnce'[u] = atOnce[u])
      /\ atOnce' \in [Thread -> Nat]
  BY <1>1, <1>2 DEF IInv, Types
<1>7. Types'
  BY <1>2, <1>6 DEF IInv, Types
<1>8. Answered'
  BY <1>2, <1>3 DEF IInv, Answered
<1>9. PlacedAt(w)'
  <2>1. PlacedAt(w)
    BY DEF IInv, Placed
  <2> QED BY <1>2, <1>4, <2>1 DEF PlacedAt
<1>10. Asked'
  BY <1>2, <1>5, AskedSame DEF IInv
<1>11. ShallowAt(t)'
  <2>1. Len(stack'[t]) = 1 /\ stack'[t] # << >> /\ Top(t)'.frame = f
    BY <1>3 DEF Top, Calling
  <2>2. High(t, 3)' /\ High(t, 5)'
    BY <1>6, <2>1 DEF High
  <2> QED BY <1>1, <2>1, <2>2 DEF ShallowAt
<1>12. \A v \in Who : SameAnswers(v)
  BY <1>2 DEF SameAnswers
<1>13. Reach'[w] = Reach[w]
  BY <1>2, <1>4, <1>8, <1>12, ReachSame DEF IInv, SameAnswers
<1>14. Placed' /\ Shallow' /\ Streamed' /\ Buffered'
  <2>1. \A u \in Thread : u # t => stack'[u] = stack[u] /\ atOnce'[u] = atOnce[u]
    BY <1>3, <1>6
  <2>2. UNCHANGED <<stream, taken, buffer, cut>> /\ \A v \in Who : v # w => pos'[v] = pos[v]
    BY <1>2
  <2> QED BY <1>1, <1>3, <1>5, <1>8, <1>9, <1>11, <1>12, <1>13, <2>1, <2>2, Elsewhere
<1>15. NeverShort'
  <2>1. Undisturbed("sender")' => Undisturbed("sender")
    BY <1>2 DEF Undisturbed, FileOpen
  <2>2. CASE w = "sender"
    BY <1>2, <1>3, <1>4, <2>1, <2>2 DEF IInv, NeverShort, f
  <2>3. CASE w # "sender"
    <3>1. "sender" \in Who
      BY TransfersAssumption DEF Who
    <3> QED BY <1>2, <1>5, <1>12, <2>1, <2>3, <3>1, NeverShortSame DEF IInv
  <2> QED BY <2>2, <2>3
<1> QED BY <1>3, <1>7, <1>8, <1>10, <1>14, <1>15 DEF IInv

\* A call returns.
LEMMA ReturnsKeeps ==
  ASSUME IInv, NEW t \in Thread, Returns(t)
  PROVE  IInv'
<1>1. /\ Unwind(t)
      /\ UNCHANGED <<open, pending, cq, stream, taken, buffer, pos, cut, atOnce, faults>>
  BY DEF Returns, transport, history
<1>2. /\ Control' /\ Waiting' = Waiting /\ UNCHANGED frame
      /\ \A u \in Thread : u # t => stack'[u] = stack[u]
      /\ Len(stack'[t]) = Len(stack[t]) - 1 /\ (stack'[t] # << >> => Top(t)'.in # "body")
  BY <1>1, Unwound DEF IInv
<1>3. Types' /\ Answered' /\ Asked'
  BY <1>1, <1>2 DEF IInv, Types, Answered, Asked
<1>4. Placed'
  BY <1>1, <1>2 DEF IInv, Placed, PlacedAt
<1>5. Shallow'
  <2>1. ShallowAt(t)'
    <3>1. Len(stack[t]) \in Nat /\ atOnce[t] \in Nat
      BY LenProperties DEF IInv, Control, TaskTypes, Types
    <3>2. High(t, 5)'
      BY <1>1, <1>2, <3>1 DEF IInv, Shallow, ShallowAt, High
    <3> QED BY <1>2, <3>2 DEF ShallowAt
  <2>2. ASSUME NEW u \in Thread, u # t PROVE ShallowAt(u)'
    BY <1>1, <1>2, <2>2, ShallowOthers DEF IInv
  <2> QED BY <2>1, <2>2 DEF Shallow
<1>6. Streamed' /\ Buffered'
  <2>1. \A v \in Who : SameAnswers(v)
    BY <1>1 DEF SameAnswers
  <2>2. ASSUME NEW v \in Who PROVE Reach'[v] = Reach[v]
    BY <1>1, <1>2, <1>3, <2>1, ReachSame DEF IInv, SameAnswers
  <2> QED BY <1>1, <2>2, Carried DEF IInv
<1>7. NeverShort'
  BY <1>1, <1>2 DEF IInv, NeverShort, Undisturbed, FileOpen
<1> QED BY <1>2, <1>3, <1>4, <1>5, <1>6, <1>7 DEF IInv

-------------------------------------------------------------------------------
(* The steps of the loop and of the kernel *)

\* The answers after the first.
LEMMA AnswersAfter ==
  ASSUME NEW T, NEW s \in Seq(T), s # << >>
  PROVE  /\ Len(s) \in Nat \ {0} /\ 1 \in 1..Len(s) /\ Head(s) = s[1] /\ Head(s) \in T
         /\ Tail(s) \in Seq(T) /\ Len(Tail(s)) = Len(s) - 1
         /\ \A i \in 1..Len(Tail(s)) : Tail(s)[i] = s[i + 1] /\ i + 1 \in 2..Len(s)
         /\ \A j \in 2..Len(s) : j - 1 \in 1..Len(Tail(s)) /\ Tail(s)[j - 1] = s[j]
<1>1. Len(s) \in Nat \ {0}
  BY LenProperties, EmptySeq
<1>2. /\ Tail(s) \in Seq(T) /\ Len(Tail(s)) = Len(s) - 1
      /\ \A i \in 1..Len(Tail(s)) : Tail(s)[i] = s[i + 1]
  BY HeadTailProperties
<1>3. Head(s) = s[1] /\ Head(s) \in T
  BY HeadTailProperties, <1>1, ElementOfSeq
<1>4. \A j \in 2..Len(s) : j - 1 \in 1..Len(Tail(s)) /\ Tail(s)[j - 1] = s[j]
  BY <1>1, <1>2
<1> QED BY <1>1, <1>2, <1>3, <1>4

\* The loop resumes the coroutine that the first answer is for.
LEMMA HandleCqeKeeps ==
  ASSUME IInv, HandleCqe
  PROVE  IInv'
<1>1. /\ cq # << >> /\ Resume("loop", Head(cq).frame, Head(cq).res) /\ cq' = Tail(cq)
      /\ atOnce' = [atOnce EXCEPT !["loop"] = 0] /\ "loop" \in Thread
      /\ UNCHANGED <<open, pending, stream, taken, buffer, pos, cut, faults>>
  BY TransfersAssumption DEF HandleCqe, history
<1>2. /\ cq \in Seq([frame : Frame, res : Int])
      /\ Waiting = {op.frame : op \in pending} \cup {cq[i].frame : i \in 1..Len(cq)}
      /\ \A o, p \in pending : o.frame = p.frame => o = p
      /\ \A i, j \in 1..Len(cq) : cq[i].frame = cq[j].frame => i = j
      /\ \A op \in pending : \A i \in 1..Len(cq) : op.frame # cq[i].frame
  BY DEF IInv, Types, Answered
<1>3. /\ Len(cq) \in Nat \ {0} /\ 1 \in 1..Len(cq) /\ Head(cq) = cq[1]
      /\ Head(cq) \in [frame : Frame, res : Int]
      /\ cq' \in Seq([frame : Frame, res : Int]) /\ Len(cq') = Len(cq) - 1
      /\ \A i \in 1..Len(cq') : cq'[i] = cq[i + 1] /\ i + 1 \in 2..Len(cq)
      /\ \A j \in 2..Len(cq) : j - 1 \in 1..Len(cq') /\ cq'[j - 1] = cq[j]
  BY <1>1, <1>2, AnswersAfter
<1>4. PICK t \in Thread, f \in Frame, value \in Int :
        /\ t = "loop" /\ f = cq[1].frame /\ value = cq[1].res /\ f \in Waiting
        /\ Resume(t, f, value) /\ atOnce' = [atOnce EXCEPT ![t] = 0]
  BY <1>1, <1>2, <1>3
<1> DEFINE w == f[1]
<1>5. /\ Control' /\ Waiting' = Waiting \ {f} /\ f[2] = 3 /\ stack[t] = << >>
      /\ frame'[f] = FrameOf(frame[f].continuation, "running", None, value, frame[f].body)
      /\ \A g \in Frame : g # f => frame'[g] = frame[g]
      /\ \A u \in Thread : u # t => stack'[u] = stack[u]
      /\ stack'[t] = << Calling(f, "body") >>
  BY <1>4, Resumed DEF IInv
<1>6. /\ f = Chunk(w) /\ w \in Who /\ Root(w) \in Frame /\ Piece(w) \in Frame
      /\ Root(w) # f /\ Piece(w) # f /\ frame[f].state = "suspended" /\ frame[f].child = None
  BY <1>4, <1>5, FrameAddresses DEF Waiting
<1> HIDE DEF w
<1>7. PlacedAt(w) /\ frame[f].value = NoValue /\ frame[f].body.len \in Nat
  <2>1. PlacedAt(w)
    BY <1>6 DEF IInv, Placed
  <2>2. frame[f].body.len \in Nat
    BY <1>6, BodyTypes DEF IInv, CallBody
  <2>3. NoValue..frame[f].body.len \subseteq Int
    BY <2>2 DEF NoValue
  <2> QED BY <1>6, <2>1, <2>2 DEF PlacedAt
<1>8. value \in Failed..frame[f].body.len /\ value # NoValue /\ value \in NoValue..frame[f].body.len
  <2>1. value \in Failed..frame[f].body.len
    BY <1>3, <1>4 DEF IInv, Asked
  <2> QED BY <1>7, <2>1 DEF Failed, NoValue
<1>9. /\ frame'[Root(w)] = frame[Root(w)] /\ frame'[Piece(w)] = frame[Piece(w)]
      /\ frame'[Chunk(w)].state = "running" /\ frame'[Chunk(w)].child = None
      /\ frame'[Chunk(w)].value = value /\ frame'[Chunk(w)].body = frame[Chunk(w)].body
  BY <1>5, <1>6 DEF FrameOf
<1>10. /\ \A g \in Frame : g[1] # w => frame'[g] = frame[g]
       /\ \A g \in Frame : frame[g].state = "running" /\ ~Executes(t, g) => frame'[g] = frame[g]
       /\ \A g \in Waiting' : g \in Waiting /\ frame'[g] = frame[g]
  <2>1. Chunk(w)[1] = w
    BY <1>6, FrameAddresses
  <2> QED BY <1>5, <1>6, <2>1 DEF Waiting
<1>11. /\ atOnce'[t] = 0 /\ (\A u \in Thread : u # t => atOnce'[u] = atOnce[u])
       /\ atOnce' \in [Thread -> Nat]
  BY <1>4 DEF IInv, Types
<1>12. Types'
  BY <1>1, <1>3, <1>11 DEF IInv, Types
<1>13. /\ \A i \in 1..Len(cq') : \E j \in 1..Len(cq) : cq[j] = cq'[i]
       /\ \A j \in 1..Len(cq) : cq[j].frame # f => \E i \in 1..Len(cq') : cq'[i] = cq[j]
  <2>1. \A i \in 1..Len(cq') : i + 1 \in 1..Len(cq)
    BY <1>3
  <2>2. \A j \in 1..Len(cq) : cq[j].frame # f => j \in 2..Len(cq)
    BY <1>3, <1>4
  <2> QED BY <1>3, <2>1, <2>2
<1>14. Answered'
  <2>1. \A i, j \in 1..Len(cq') : cq'[i].frame = cq'[j].frame => i = j
    <3> SUFFICES ASSUME NEW i \in 1..Len(cq'), NEW j \in 1..Len(cq'), cq'[i].frame = cq'[j].frame
                 PROVE  i = j
      OBVIOUS
    <3>1. i + 1 \in 1..Len(cq) /\ j + 1 \in 1..Len(cq) /\ cq[i + 1].frame = cq[j + 1].frame
      BY <1>3
    <3>2. i + 1 = j + 1
      BY <1>2, <3>1
    <3> QED BY <1>3, <3>2
  <2>2. \A op \in pending' : \A i \in 1..Len(cq') : op.frame # cq'[i].frame
    BY <1>1, <1>2, <1>13
  <2>3. \A i \in 1..Len(cq') : cq'[i].frame # f
    <3>1. ASSUME NEW i \in 1..Len(cq'), cq'[i].frame = f PROVE FALSE
      <4>1. i + 1 \in 1..Len(cq) /\ cq[i + 1].frame = cq[1].frame /\ i + 1 # 1
        BY <1>3, <1>4, <3>1
      <4> QED BY <1>2, <1>3, <4>1
    <3> QED BY <3>1
  <2>4. \A op \in pending : op.frame # f
    BY <1>2, <1>3, <1>4
  <2>5. {cq'[i].frame : i \in 1..Len(cq')} = {cq[i].frame : i \in 1..Len(cq)} \ {f}
    BY <1>4, <1>13, <2>3
  <2>6. {op.frame : op \in pending'} = {op.frame : op \in pending} \ {f}
    BY <1>1, <2>4
  <2>7. Waiting' = {op.frame : op \in pending'} \cup {cq'[i].frame : i \in 1..Len(cq')}
    <3>1. \A A, B, C : A = B \cup C => A \ {f} = (B \ {f}) \cup (C \ {f})
      OBVIOUS
    <3> QED BY <1>2, <1>5, <2>5, <2>6, <3>1, Zenon
  <2>8. \A o, p \in pending' : o.frame = p.frame => o = p
    BY <1>1, <1>2
  <2> QED BY <2>1, <2>2, <2>7, <2>8 DEF Answered
<1>15. PlacedAt(w)'
  <2>1. /\ frame'[Chunk(w)].value \in NoValue..frame'[Chunk(w)].body.len
        /\ frame'[Chunk(w)].state = "running" /\ frame[Chunk(w)].state = "suspended"
        /\ frame'[Chunk(w)].body = frame[Chunk(w)].body
    BY <1>6, <1>8, <1>9
  <2>2. pos' = pos /\ frame'[Root(w)] = frame[Root(w)] /\ frame'[Piece(w)] = frame[Piece(w)]
    BY <1>1, <1>9
  <2>3. PlacedAt(w)
    BY <1>7
  <2> QED BY <2>1, <2>2, <2>3 DEF PlacedAt
<1>16. Asked'
  <2>1. /\ \A op \in pending' : op.frame \in Waiting'
        /\ \A i \in 1..Len(cq') : cq'[i].frame \in Waiting'
    BY <1>14 DEF Answered
  <2>2. \A op \in pending' : frame'[op.frame] = frame[op.frame]
    BY <1>10, <2>1
  <2>3. \A i \in 1..Len(cq') : frame'[cq'[i].frame] = frame[cq'[i].frame]
    BY <1>10, <2>1
  <2>4. \A i \in 1..Len(cq') : cq'[i].res \in Failed..frame[cq'[i].frame].body.len
    BY <1>13 DEF IInv, Asked
  <2> QED BY <1>1, <2>2, <2>3, <2>4 DEF IInv, Asked
<1>17. ShallowAt(t)'
  <2>1. Len(stack'[t]) = 1 /\ stack'[t] # << >> /\ Top(t)'.frame = f
    BY <1>5 DEF Top, Calling
  <2>2. High(t, 1)' /\ High(t, 5)'
    BY <1>11, <2>1 DEF High
  <2> QED BY <1>5, <2>1, <2>2 DEF ShallowAt
<1>18. \A v \in Who : v # w => SameAnswers(v)
  <2>1. \A v \in Who : v # w => Chunk(v) # f
    BY <1>6, FrameAddresses
  <2> QED BY <1>13, <2>1 DEF SameAnswers
<1>19. Reach'[w] = Reach[w]
  <2>1. ReachRight /\ ReachRight' /\ GotRight /\ GotRight'
    BY <1>14, ReachCases, GotCases, PTL DEF IInv
  <2>2. Got[w] = value
    <3>1. frame[Chunk(w)].value = NoValue /\ cq[1].frame = Chunk(w) /\ cq[1].res = value
      BY <1>4, <1>6, <1>7
    <3> QED BY <1>3, <1>6, <2>1, <3>1 DEF GotRight
  <2>3. Got'[w] = value
    BY <1>6, <1>8, <1>9, <2>1 DEF GotRight
  <2> QED BY <1>1, <1>6, <1>9, <2>1, <2>2, <2>3 DEF ReachRight
<1>20. Placed' /\ Shallow' /\ Streamed' /\ Buffered'
  <2>1. \A u \in Thread : u # t => stack'[u] = stack[u] /\ atOnce'[u] = atOnce[u]
    BY <1>5, <1>11
  <2>2. UNCHANGED <<stream, taken, buffer, cut>> /\ \A v \in Who : v # w => pos'[v] = pos[v]
    BY <1>1
  <2>3. \A v \in Who : v # w => pos'[v] = pos[v] /\ SameAnswers(v)
    BY <1>18, <2>2
  <2> QED BY <1>5, <1>6, <1>10, <1>14, <1>15, <1>17, <1>19, <2>1, <2>2, <2>3, Elsewhere
<1>21. NeverShort'
  <2>1. Undisturbed("sender")' => Undisturbed("sender")
    BY <1>1 DEF Undisturbed, FileOpen
  <2>2. CASE w = "sender"
    <3>1. Undisturbed("sender") => value > 0
      BY <1>3, <1>4, <1>6, <2>2 DEF IInv, NeverShort
    <3>2. Undisturbed("sender") => value \notin {0, Failed}
      BY <1>4, <3>1 DEF Failed
    <3>3. Undisturbed("sender") => \A i \in 1..Len(cq') : cq'[i].frame = Chunk("sender")
            => cq'[i].res > 0
      BY <1>13 DEF IInv, NeverShort
    <3> QED BY <1>1, <1>9, <2>1, <2>2, <3>2, <3>3 DEF IInv, NeverShort
  <2>3. CASE w # "sender"
    <3>1. "sender" \in Who
      BY TransfersAssumption DEF Who
    <3> QED BY <1>1, <1>10, <1>18, <2>1, <2>3, <3>1, NeverShortSame DEF IInv
  <2> QED BY <2>2, <2>3
<1> QED BY <1>5, <1>12, <1>14, <1>16, <1>20, <1>21 DEF IInv

\* A handle is closed: nothing else changes.
LEMMA CloseCopyKeeps ==
  ASSUME IInv, NEW w \in Who, CloseCopy(w)
  PROVE  IInv'
<1>1. /\ faults > 0 /\ faults' = faults - 1 /\ open' = [open EXCEPT ![w] = FALSE]
      /\ UNCHANGED <<frame, stack, pending, cq, stream, taken, buffer, pos, cut, atOnce>>
  BY DEF CloseCopy, tasks, transport, history
<1>2. faults \in Int /\ faults <= MaxFaults /\ MaxFaults \in Nat
  BY Bounds DEF IInv, Types
<1>3. Types'
  BY <1>1, <1>2 DEF IInv, Types
<1>4. Control' /\ Answered' /\ Placed' /\ Asked' /\ Shallow'
  <2>1. Control'
    <3>1. TaskTypes' /\ Nested'
      BY <1>1 DEF IInv, Control, TaskTypes, Nested, Joined
    <3>2. \A t \in Thread, f \in Frame : Executes(t, f)' <=> Executes(t, f)
      BY <1>1 DEF Executes, Top
    <3>3. Executed'
      BY <1>1, <3>2 DEF IInv, Control, Executed
    <3> QED BY <3>1, <3>3 DEF Control
  <2>2. Answered' /\ Placed' /\ Asked'
    BY <1>1 DEF IInv, Answered, Waiting, Placed, PlacedAt, Asked
  <2>3. ASSUME NEW t \in Thread PROVE ShallowAt(t)'
    <3>1. ShallowAt(t) /\ Top(t)' = Top(t)
      BY <1>1 DEF IInv, Shallow, Top
    <3> QED BY <1>1, <3>1 DEF ShallowAt, High
  <2> QED BY <2>1, <2>2, <2>3 DEF Shallow
<1>5. Streamed' /\ Buffered'
  <2>1. \A v \in Who : SameAnswers(v)
    BY <1>1 DEF SameAnswers
  <2>2. ASSUME NEW v \in Who PROVE Reach'[v] = Reach[v]
    BY <1>1, <1>4, <2>1, ReachSame DEF IInv, SameAnswers
  <2> QED BY <1>1, <2>2, Carried DEF IInv
<1>6. NeverShort'
  <2>1. ~Undisturbed("sender")'
    BY <1>1, <1>2 DEF Undisturbed
  <2> QED BY <2>1 DEF NeverShort
<1> QED BY <1>3, <1>4, <1>5, <1>6 DEF IInv

\* One more answer.
LEMMA AnswersBefore ==
  ASSUME NEW T, NEW s \in Seq(T), NEW e \in T
  PROVE  /\ Len(s) \in Nat /\ Append(s, e) \in Seq(T) /\ Len(Append(s, e)) = Len(s) + 1
         /\ \A i \in 1..Len(s) : Append(s, e)[i] = s[i] /\ i \in 1..(Len(s) + 1)
         /\ Append(s, e)[Len(s) + 1] = e
         /\ \A i \in 1..(Len(s) + 1) : i \in 1..Len(s) \/ i = Len(s) + 1
<1>1. Len(s) \in Nat
  BY LenProperties
<1>2. \A i \in 1..(Len(s) + 1) : i \in 1..Len(s) \/ i = Len(s) + 1
  BY <1>1
<1> QED BY <1>1, <1>2, AppendProperties

\* The kernel answers: only the client that asked has got further, by so many bytes.
LEMMA AnswerKeeps ==
  ASSUME IInv, NEW op \in pending, NEW w \in Who, op.frame[1] = w, NEW n \in Int, Failed <= n,
         n <= op.len,
         Answer(op, n)
  PROVE  /\ Control' /\ Answered' /\ Placed' /\ Asked' /\ Shallow'
         /\ op.from \in Nat /\ op.len \in Nat /\ op.from + op.len = pos[w] /\ pos[w] <= MaxPos
         /\ Reach[w] = op.from /\ Reach'[w] = op.from + (IF n > 0 THEN n ELSE 0)
         /\ \A v \in Who : v # w => Reach'[v] = Reach[v] /\ SameAnswers(v)
         /\ pending' \subseteq pending /\ cq' \in Seq([frame : Frame, res : Int])
         /\ \A i \in 1..Len(cq') : cq'[i].frame = Chunk(w) => cq'[i].res = n
<1> DEFINE e == [frame |-> op.frame, res |-> n]
<1>1. /\ pending' = pending \ {op} /\ cq' = Append(cq, e)
      /\ UNCHANGED <<frame, stack, open, pos, cut, atOnce>>
  BY DEF Answer, tasks, history
<1>2. /\ op.frame \in Frame /\ op.from \in Nat /\ op.len \in Nat
      /\ e \in [frame : Frame, res : Int] /\ e.frame = op.frame /\ e.res = n
      /\ cq \in Seq([frame : Frame, res : Int])
  BY DEF IInv, Types
<1> HIDE DEF e
<1>3. /\ Waiting = {o.frame : o \in pending} \cup {cq[i].frame : i \in 1..Len(cq)}
      /\ \A o, p \in pending : o.frame = p.frame => o = p
      /\ \A i, j \in 1..Len(cq) : cq[i].frame = cq[j].frame => i = j
      /\ \A o \in pending : \A i \in 1..Len(cq) : o.frame # cq[i].frame
  BY DEF IInv, Answered
<1>4. /\ Len(cq) \in Nat /\ cq' \in Seq([frame : Frame, res : Int]) /\ Len(cq') = Len(cq) + 1
      /\ \A i \in 1..Len(cq) : cq'[i] = cq[i] /\ i \in 1..Len(cq')
      /\ cq'[Len(cq) + 1] = e
      /\ \A i \in 1..Len(cq') : i \in 1..Len(cq) \/ i = Len(cq) + 1
  BY <1>1, <1>2, AnswersBefore
<1>5. /\ op.frame = Chunk(w) /\ op.frame \in Waiting
      /\ frame[Chunk(w)].state = "suspended" /\ frame[Chunk(w)].child = None
      /\ op.from = frame[Chunk(w)].body.from /\ op.len = frame[Chunk(w)].body.len
  <2>1. op.frame \in Waiting
    BY <1>3
  <2>2. op.frame[2] = 3
    BY <2>1 DEF IInv, Control, Nested, Joined, Waiting
  <2>3. op.frame = Chunk(w)
    BY <1>2, <2>2, FrameAddresses
  <2> QED BY <2>1, <2>3 DEF IInv, Asked, Waiting
<1>6. Control'
  <2>1. TaskTypes' /\ Nested'
    BY <1>1 DEF IInv, Control, TaskTypes, Nested, Joined
  <2>2. \A t \in Thread, f \in Frame : Executes(t, f)' <=> Executes(t, f)
    BY <1>1 DEF Executes, Top
  <2>3. Executed'
    BY <1>1, <2>2 DEF IInv, Control, Executed
  <2> QED BY <2>1, <2>3 DEF Control
<1>7. Placed'
  BY <1>1 DEF IInv, Placed, PlacedAt
<1>8. Shallow'
  <2>1. ASSUME NEW t \in Thread PROVE ShallowAt(t)'
    <3>1. ShallowAt(t) /\ Top(t)' = Top(t)
      BY <1>1 DEF IInv, Shallow, Top
    <3> QED BY <1>1, <3>1 DEF ShallowAt, High
  <2> QED BY <2>1 DEF Shallow
<1>9. Answered'
  <2>1. Waiting' = Waiting
    BY <1>1 DEF Waiting
  <2>2. {o.frame : o \in pending'} = {o.frame : o \in pending} \ {op.frame}
    BY <1>1, <1>3
  <2>3. {cq'[i].frame : i \in 1..Len(cq')} = {cq[i].frame : i \in 1..Len(cq)} \cup {op.frame}
    <3>1. ASSUME NEW x \in {cq'[i].frame : i \in 1..Len(cq')}
          PROVE  x \in {cq[i].frame : i \in 1..Len(cq)} \cup {op.frame}
      <4>1. PICK i \in 1..Len(cq') : x = cq'[i].frame
        BY <3>1
      <4> QED BY <1>2, <1>4, <4>1
    <3>2. ASSUME NEW x \in {cq[i].frame : i \in 1..Len(cq)}
          PROVE  x \in {cq'[i].frame : i \in 1..Len(cq')}
      <4>1. PICK i \in 1..Len(cq) : x = cq[i].frame
        BY <3>2
      <4> QED BY <1>4, <4>1
    <3>3. op.frame \in {cq'[i].frame : i \in 1..Len(cq')}
      <4>1. Len(cq) + 1 \in 1..Len(cq') /\ cq'[Len(cq) + 1].frame = op.frame
        BY <1>2, <1>4
      <4> QED BY <4>1
    <3> QED BY <3>1, <3>2, <3>3
  <2>4. Waiting' = {o.frame : o \in pending'} \cup {cq'[i].frame : i \in 1..Len(cq')}
    <3>1. PICK A, B : A = {o.frame : o \in pending} /\ B = {cq[i].frame : i \in 1..Len(cq)}
      OBVIOUS
    <3>2. op.frame \in A
      BY <3>1
    <3>3. A \cup B = (A \ {op.frame}) \cup (B \cup {op.frame})
      BY <3>2
    <3>4. Waiting = A \cup B
      BY <1>3, <3>1, Zenon
    <3> QED BY <2>1, <2>2, <2>3, <3>1, <3>3, <3>4, Zenon
  <2>5. \A o, p \in pending' : o.frame = p.frame => o = p
    BY <1>1, <1>3
  <2>6. \A i, j \in 1..Len(cq') : cq'[i].frame = cq'[j].frame => i = j
    <3>1. \A i \in 1..Len(cq) : cq[i].frame # op.frame
      BY <1>3
    <3> QED BY <1>2, <1>3, <1>4, <3>1
  <2>7. \A o \in pending' : \A i \in 1..Len(cq') : o.frame # cq'[i].frame
    <3>1. \A o \in pending' : o \in pending /\ o.frame # op.frame
      BY <1>1, <1>3
    <3> QED BY <1>2, <1>3, <1>4, <3>1
  <2> QED BY <2>4, <2>5, <2>6, <2>7 DEF Answered
<1>10. Asked'
  <2>1. \A o \in pending' : o.from = frame[o.frame].body.from /\ o.len = frame[o.frame].body.len
    BY <1>1 DEF IInv, Asked
  <2>2. \A i \in 1..Len(cq') : cq'[i].res \in Failed..frame[cq'[i].frame].body.len
    <3>1. n \in Failed..frame[op.frame].body.len
      BY <1>2, <1>5 DEF Failed
    <3> QED BY <1>2, <1>4, <3>1 DEF IInv, Asked
  <2> QED BY <1>1, <2>1, <2>2 DEF Asked
<1>11. \A i \in 1..Len(cq') : cq'[i].frame = Chunk(w) => cq'[i].res = n
  <2>1. \A i \in 1..Len(cq) : cq[i].frame # op.frame
    BY <1>3
  <2> QED BY <1>2, <1>4, <1>5, <2>1
<1>12. \A v \in Who : v # w => Chunk(v) # Chunk(w)
  BY FrameAddresses
<1>13. ASSUME NEW v \in Who, v # w PROVE Reach'[v] = Reach[v] /\ SameAnswers(v)
  <2>1. SameAnswers(v)
    BY <1>2, <1>4, <1>5, <1>12, <1>13 DEF SameAnswers
  <2> QED BY <1>1, <1>9, <2>1, ReachSame DEF IInv, SameAnswers
<1>14. /\ op.from + op.len = pos[w] /\ pos[w] <= MaxPos
       /\ frame[Piece(w)].state \notin {"gone", "final"} /\ frame[Piece(w)].child # None
       /\ op.from = frame[Piece(w)].body.from + frame[Piece(w)].body.offset
       /\ frame[Chunk(w)].value = NoValue
  <2>1. PlacedAt(w)
    BY DEF IInv, Placed
  <2>2. frame[Piece(w)].state \in {"running", "suspended"} /\ frame[Piece(w)].child = Chunk(w)
    BY <1>5, BodyTypes DEF IInv
  <2>3. frame[Piece(w)].body \in BytesBody /\ pos[w] <= MaxPos
    BY <2>2, BodyTypes DEF IInv
  <2>4. /\ frame[Piece(w)].body.from \in Nat /\ frame[Piece(w)].body.len \in Nat
        /\ frame[Piece(w)].body.offset \in Nat
    BY <2>3, Bounds DEF BytesBody
  <2>5. /\ frame[Piece(w)].body.from + frame[Piece(w)].body.len = pos[w]
        /\ op.from = frame[Piece(w)].body.from + frame[Piece(w)].body.offset
        /\ op.len = frame[Piece(w)].body.len - frame[Piece(w)].body.offset
        /\ frame[Chunk(w)].value = NoValue
    BY <1>5, <2>1, <2>2 DEF PlacedAt
  <2> QED BY <2>2, <2>3, <2>4, <2>5, FrameAddresses
<1>15. Reach[w] = op.from /\ Reach'[w] = op.from + (IF n > 0 THEN n ELSE 0)
  <2>1. ReachRight /\ ReachRight' /\ GotRight /\ GotRight'
    BY <1>9, ReachCases, GotCases, PTL DEF IInv
  <2>2. Got[w] = 0
    BY <1>3, <1>5, <1>14, <2>1 DEF GotRight
  <2>3. Got'[w] = n
    <3>1. Len(cq) + 1 \in 1..Len(cq') /\ cq'[Len(cq) + 1].frame = Chunk(w)
            /\ cq'[Len(cq) + 1].res = n
      BY <1>2, <1>4, <1>5
    <3> QED BY <1>1, <1>14, <2>1, <3>1 DEF GotRight
  <2>4. Reach[w] = op.from + 0
    BY <1>14, <2>1, <2>2 DEF ReachRight
  <2>5. Reach'[w] = op.from + (IF n > 0 THEN n ELSE 0)
    BY <1>1, <1>14, <2>1, <2>3 DEF ReachRight
  <2> QED BY <1>2, <2>4, <2>5
<1>16. pending' \subseteq pending
  BY <1>1
<1> QED BY <1>2, <1>4, <1>6, <1>7, <1>8, <1>9, <1>10, <1>11, <1>13, <1>14, <1>15, <1>16

\* How many cells up to one of them are filled.
LEMMA Ranks ==
  ASSUME NEW r \in Nat, NEW F \in SUBSET (0..(r - 1))
  PROVE  /\ IsFiniteSet(F) /\ Cardinality(F) \in Nat
         /\ \A c \in F : Cardinality({d \in F : d <= c}) \in 1..Cardinality(F)
<1>1. IsFiniteSet(F)
  <2>1. IsFiniteSet(0..(r - 1))
    BY FS_Interval
  <2> QED BY <2>1, FS_Subset
<1>2. Cardinality(F) \in Nat
  BY <1>1, FS_CardinalityType
<1>3. ASSUME NEW c \in F PROVE Cardinality({d \in F : d <= c}) \in 1..Cardinality(F)
  <2> DEFINE D == {d \in F : d <= c}
  <2>1. D \in SUBSET F /\ c \in D /\ c \in Int
    OBVIOUS
  <2>2. IsFiniteSet(D) /\ Cardinality(D) <= Cardinality(F) /\ D # {}
    BY <1>1, <2>1, FS_Subset
  <2>3. Cardinality(D) \in Nat /\ Cardinality(D) # 0
    BY <2>2, FS_CardinalityType, FS_EmptySet
  <2> HIDE DEF D
  <2>4. Cardinality(D) \in 1..Cardinality(F)
    BY <1>2, <2>2, <2>3
  <2> QED BY <2>4 DEF D
<1> QED BY <1>1, <1>2, <1>3

\* G is F and the cells from r to e, which come after those of F.
Ranked(G, F, r, e) ==
  /\ Cardinality(G) = Cardinality(F) + (e - r)
  /\ \A c \in F : {d \in G : d <= c} = {d \in F : d <= c}
  /\ \A c \in r..(e - 1) : Cardinality({d \in G : d <= c}) = Cardinality(F) + (c - r + 1)

\* The same after the next cells, up to the one before e, have been filled.
LEMMA RanksAfter ==
  ASSUME NEW r \in Nat, NEW F \in SUBSET (0..(r - 1)), NEW e \in Nat, r <= e,
         NEW G, G = F \cup r..(e - 1)
  PROVE  Ranked(G, F, r, e)
<1>1. IsFiniteSet(F) /\ Cardinality(F) \in Nat
  BY Ranks
<1>2. ASSUME NEW c \in Int, r <= c + 1
      PROVE  Cardinality(F \cup r..c) = Cardinality(F) + (c - r + 1)
  <2>1. IsFiniteSet(r..c) /\ Cardinality(r..c) = IF r > c THEN 0 ELSE c - r + 1
    BY FS_Interval
  <2>2. Cardinality(r..c) = c - r + 1
    BY <1>2, <2>1
  <2>3. F \cap r..c = {}
    OBVIOUS
  <2>4. Cardinality(F \cup r..c) = Cardinality(F) + Cardinality(r..c) - Cardinality(F \cap r..c)
    BY <1>1, <2>1, FS_Union
  <2>5. Cardinality({}) = 0
    BY FS_EmptySet
  <2>6. Cardinality(F \cap r..c) = 0
    BY <2>3, <2>5
  <2> QED BY <1>1, <2>2, <2>4, <2>6
<1>3. Cardinality(G) = Cardinality(F) + (e - r)
  <2>1. PICK c \in Int : c = e - 1
    OBVIOUS
  <2>2. Cardinality(F \cup r..c) = Cardinality(F) + (c - r + 1)
    BY <1>2, <2>1
  <2>3. G = F \cup r..c
    BY <2>1
  <2> QED BY <1>1, <2>1, <2>2, <2>3
<1>4. \A c \in F : {d \in G : d <= c} = {d \in F : d <= c}
  OBVIOUS
<1>5. ASSUME NEW c \in r..(e - 1)
      PROVE  Cardinality({d \in G : d <= c}) = Cardinality(F) + (c - r + 1)
  <2>1. ASSUME NEW d PROVE d \in {x \in G : x <= c} <=> d \in F \cup r..c
    <3>1. d \in G <=> d \in F \/ d \in r..(e - 1)
      OBVIOUS
    <3>2. d \in F => d \in Int /\ d <= c
      OBVIOUS
    <3>3. d \in r..(e - 1) /\ d <= c <=> d \in r..c
      OBVIOUS
    <3> QED BY <3>1, <3>2, <3>3
  <2>2. Cardinality(F \cup r..c) = Cardinality(F) + (c - r + 1)
    BY <1>2
  <2>3. {d \in G : d <= c} = F \cup r..c
    BY <2>1
  <2> QED BY <2>2, <2>3
<1> QED BY <1>3, <1>4, <1>5 DEF Ranked

\* Increasing numbers below r, as the bytes of a stream are.
Numbers(s, r) == s \in Seq(0..(r - 1)) /\ \A i, j \in 1..Len(s) : i < j => s[i] < s[j]

\* Followed by n numbers from r on.
Continued(s, r, n) == s \o [i \in 1..n |-> r + i - 1]

\* q is s and n numbers from r on.
Continues(q, s, r, n) ==
  /\ Len(s) \in Nat /\ Numbers(q, r + n) /\ Len(q) = Len(s) + n
  /\ \A i \in 1..Len(s) : q[i] = s[i]
  /\ ToSet(q) = ToSet(s) \cup r..(r + n - 1)

\* The stream after the next n bytes, from r on, have been sent.
LEMMA StreamAfter ==
  ASSUME NEW r \in Nat, NEW s, Numbers(s, r), NEW n \in Nat, n > 0,
         NEW q, q = Continued(s, r, n)
  PROVE  Continues(q, s, r, n)
<1> PICK e \in Nat : e = r + n /\ r < e
  OBVIOUS
<1> PICK p : p = [i \in 1..n |-> r + i - 1] /\ q = s \o p
  BY DEF Continued
<1>0. s \in Seq(0..(r - 1)) /\ \A i, j \in 1..Len(s) : i < j => s[i] < s[j]
  BY DEF Numbers
<1>1. Len(s) \in Nat /\ DOMAIN s = 1..Len(s) /\ s \in Seq(0..(e - 1))
        /\ \A i \in 1..Len(s) : s[i] \in 0..(r - 1)
  <2>1. Len(s) \in Nat /\ s \in [1..Len(s) -> 0..(r - 1)]
    BY <1>0, LenProperties
  <2>2. \A i \in 1..Len(s) : s[i] \in 0..(r - 1) /\ s[i] \in 0..(e - 1)
    <3>1. 0..(r - 1) \subseteq 0..(e - 1)
      OBVIOUS
    <3> QED BY <2>1, <3>1
  <2>3. s \in [1..Len(s) -> 0..(e - 1)]
    BY <2>1, <2>2
  <2>4. s \in Seq(0..(e - 1))
    BY <2>1, <2>3, SeqDef
  <2> QED BY <2>1, <2>2, <2>4
<1>2. p \in Seq(0..(e - 1)) /\ Len(p) = n /\ \A i \in 1..n : p[i] = r + i - 1
  <2>1. \A i \in 1..n : p[i] \in 0..(e - 1)
    OBVIOUS
  <2>2. p \in [1..n -> 0..(e - 1)]
    BY <2>1
  <2>3. p \in Seq(0..(e - 1))
    BY <2>2, SeqDef
  <2>4. Len(p) = n
    <3>1. Len(p) \in Nat /\ DOMAIN p = 1..Len(p)
      BY <2>3, LenProperties
    <3>2. DOMAIN p = 1..n
      OBVIOUS
    <3> QED BY <3>1, <3>2
  <2> QED BY <2>3, <2>4
<1>3. /\ q \in Seq(0..(e - 1)) /\ Len(q) = Len(s) + n
      /\ \A i \in 1..Len(q) : q[i] = IF i <= Len(s) THEN s[i] ELSE p[i - Len(s)]
  <2>1. PICK S : S = 0..(e - 1)
    OBVIOUS
  <2>2. s \in Seq(S) /\ p \in Seq(S)
    BY <1>1, <1>2, <2>1
  <2>3. /\ s \o p \in Seq(S) /\ Len(s \o p) = Len(s) + Len(p)
        /\ \A i \in 1..(Len(s) + Len(p)) : (s \o p)[i] = IF i <= Len(s) THEN s[i] ELSE p[i - Len(s)]
    BY <2>2, ConcatProperties
  <2> QED BY <1>2, <2>1, <2>3
<1>4. \A i \in 1..Len(s) : q[i] = s[i] /\ i \in 1..Len(q)
  BY <1>1, <1>3
<1>5. ASSUME NEW i \in 1..Len(q), i > Len(s)
      PROVE q[i] = r + (i - Len(s)) - 1 /\ q[i] \in r..(e - 1)
  <2>1. PICK k \in 1..n : k = i - Len(s)
    <3>1. PICK l \in Nat : l = Len(s)
      BY <1>1
    <3>2. i \in Int /\ i <= l + n /\ i > l
      BY <1>1, <1>3, <1>5, <3>1
    <3>3. i - l \in 1..n
      BY <3>1, <3>2
    <3> QED BY <3>1, <3>3
  <2>2. q[i] = p[k]
    BY <1>1, <1>3, <1>5, <2>1
  <2>3. p[k] = r + k - 1
    BY <1>2
  <2> QED BY <1>1, <2>1, <2>2, <2>3
<1>6. ASSUME NEW i \in 1..Len(q), NEW j \in 1..Len(q), i < j PROVE q[i] < q[j]
  <2>1. CASE j <= Len(s)
    BY <1>0, <1>1, <1>4, <1>6, <2>1
  <2>2. CASE i <= Len(s) /\ j > Len(s)
    <3>1. i \in 1..Len(s)
      BY <1>1, <2>2
    <3>2. q[i] = s[i] /\ s[i] \in 0..(r - 1) /\ q[j] \in r..(e - 1)
      BY <1>1, <1>4, <1>5, <2>2, <3>1
    <3>3. q[i] \in Int /\ q[j] \in Int /\ q[i] <= r - 1 /\ r <= q[j]
      BY <3>2
    <3> QED BY <3>3
  <2>3. CASE i > Len(s)
    <3>1. PICK l \in Nat : l = Len(s)
      BY <1>1
    <3>2. i \in Int /\ j \in Int /\ i > l /\ j > l
      BY <1>3, <1>6, <2>3, <3>1
    <3>3. q[i] = r + (i - l) - 1
      BY <1>5, <3>1, <3>2
    <3>4. q[j] = r + (j - l) - 1
      BY <1>5, <3>1, <3>2
    <3> QED BY <1>6, <3>2, <3>3, <3>4
  <2>4. i \in Int /\ j \in Int /\ Len(s) \in Int
    BY <1>1, <1>3
  <2> QED BY <2>1, <2>2, <2>3, <2>4
<1>7. ToSet(q) = ToSet(s) \cup r..(e - 1)
  <2>1. DOMAIN q = 1..Len(q)
    BY <1>3, LenProperties
  <2>2. ASSUME NEW x \in ToSet(q) PROVE x \in ToSet(s) \cup r..(e - 1)
    <3>1. PICK i \in 1..Len(q) : x = q[i]
      BY <2>1, <2>2 DEF ToSet
    <3>2. CASE i <= Len(s)
      <4>1. i \in 1..Len(s)
        BY <1>1, <3>2
      <4> QED BY <1>1, <1>4, <3>1, <4>1 DEF ToSet
    <3>3. CASE i > Len(s)
      BY <1>5, <3>1, <3>3
    <3> QED BY <1>1, <1>3, <3>2, <3>3
  <2>3. ASSUME NEW x \in ToSet(s) PROVE x \in ToSet(q)
    <3>1. PICK i \in 1..Len(s) : x = s[i]
      BY <1>1, <2>3 DEF ToSet
    <3>2. i \in 1..Len(q) /\ q[i] = x
      BY <1>4, <3>1
    <3> QED BY <2>1, <3>2 DEF ToSet
  <2>4. ASSUME NEW x \in r..(e - 1) PROVE x \in ToSet(q)
    <3>1. PICK k \in 1..n : k = x - r + 1
      OBVIOUS
    <3>2. PICK i \in Nat : i = Len(s) + k
      BY <1>1
    <3>3. i \in 1..Len(q) /\ i > Len(s)
      BY <1>1, <1>3, <3>1, <3>2
    <3>4. q[i] = x
      BY <1>1, <1>5, <3>1, <3>2, <3>3
    <3> QED BY <2>1, <3>3, <3>4 DEF ToSet
  <2> QED BY <2>2, <2>3, <2>4
<1>8. Numbers(q, e)
  BY <1>3, <1>6 DEF Numbers
<1>9. Numbers(q, r + n) /\ ToSet(q) = ToSet(s) \cup r..(r + n - 1)
  BY <1>7, <1>8
<1> QED BY <1>1, <1>3, <1>4, <1>9 DEF Continues

\* A byte of the buffer is one of the bytes taken from the stream.
LEMMA FilledRanks ==
  ASSUME Types, Cardinality(Filled) = taken
  PROVE  /\ Filled \in SUBSET (0..(MaxPos - 1)) /\ Len(stream) \in Nat
         /\ \A c \in Filled : Cardinality({d \in Filled : d <= c}) \in 1..taken
         /\ 1..taken \subseteq 1..Len(stream)
<1>1. MaxPos \in Nat
  BY Bounds
<1>2. Filled \in SUBSET (0..(MaxPos - 1))
  BY DEF Types, Filled
<1>3. Len(stream) \in Nat /\ taken \in 0..Len(stream)
  BY LenProperties DEF Types
<1>4. \A c \in Filled : Cardinality({d \in Filled : d <= c}) \in 1..Cardinality(Filled)
  BY <1>1, <1>2, Ranks
<1> QED BY <1>2, <1>3, <1>4

\* The kernel takes n bytes of the sender's piece.
LEMMA SentKeeps ==
  ASSUME IInv, NEW op \in pending, NEW n \in 1..MaxPiece, Sent(op, n)
  PROVE  IInv'
<1>1. /\ op.frame[1] = "sender" /\ n <= op.len /\ Answer(op, n)
      /\ stream' = stream \o [i \in 1..n |-> op.from + i - 1]
      /\ UNCHANGED <<frame, stack, open, pos, cut, atOnce, taken, buffer, faults>>
  BY DEF Sent, Answer, tasks, history
<1>2. "sender" \in Who /\ "receiver" \in Who /\ n \in Nat /\ n > 0 /\ Failed <= n /\ MaxPos \in Nat
  BY TransfersAssumption, Bounds DEF Who, Failed
<1>3. /\ Control' /\ Answered' /\ Placed' /\ Asked' /\ Shallow'
      /\ op.from \in Nat /\ op.len \in Nat /\ op.from + op.len = pos["sender"]
           /\ pos["sender"] <= MaxPos
      /\ Reach["sender"] = op.from /\ Reach'["sender"] = op.from + n
      /\ Reach'["receiver"] = Reach["receiver"]
      /\ pending' \subseteq pending /\ cq' \in Seq([frame : Frame, res : Int])
      /\ \A i \in 1..Len(cq') : cq'[i].frame = Chunk("sender") => cq'[i].res = n
  <2>1. PICK w \in Who : w = "sender"
    BY <1>2
  <2>2. n \in Int /\ Failed <= n /\ n <= op.len /\ op.frame[1] = w
    BY <1>1, <1>2, <2>1
  <2>3. Answer(op, n)
    BY <1>1
  <2>4. /\ Control' /\ Answered' /\ Placed' /\ Asked' /\ Shallow'
        /\ op.from \in Nat /\ op.len \in Nat /\ op.from + op.len = pos[w] /\ pos[w] <= MaxPos
        /\ Reach[w] = op.from /\ Reach'[w] = op.from + (IF n > 0 THEN n ELSE 0)
        /\ \A v \in Who : v # w => Reach'[v] = Reach[v] /\ SameAnswers(v)
        /\ pending' \subseteq pending /\ cq' \in Seq([frame : Frame, res : Int])
        /\ \A i \in 1..Len(cq') : cq'[i].frame = Chunk(w) => cq'[i].res = n
    BY <2>2, <2>3, AnswerKeeps
  <2> QED BY <1>2, <2>1, <2>4
<1>4. PICK r \in Nat, e \in Nat :
        r = op.from /\ e = r + n /\ r < e /\ n = e - r /\ e <= MaxPos
  <2>1. PICK r \in Nat, l \in Nat, p \in Nat : r = op.from /\ l = op.len /\ p = pos["sender"]
    BY <1>2, <1>3 DEF IInv, Types
  <2>2. PICK e \in Nat : e = r + n
    BY <1>2
  <2>3. r + l = p /\ p <= MaxPos /\ n <= l /\ n \in Nat /\ n > 0 /\ MaxPos \in Nat
    BY <1>1, <1>2, <1>3, <2>1
  <2>4. e <= MaxPos /\ n = e - r /\ r < e
    BY <2>2, <2>3
  <2> QED BY <2>1, <2>2, <2>4
<1>5. PICK s : s = stream
  OBVIOUS
<1>6. Numbers(s, r)
  <2>1. ToSet(s) \subseteq 0..(r - 1) /\ \A i, j \in 1..Len(s) : i < j => s[i] < s[j]
    BY <1>3, <1>4, <1>5 DEF IInv, Streamed
  <2>2. Len(s) \in Nat /\ DOMAIN s = 1..Len(s) /\ s \in [1..Len(s) -> 0..(MaxPos - 1)]
    BY <1>5, LenProperties DEF IInv, Types
  <2>3. \A i \in 1..Len(s) : s[i] \in 0..(r - 1)
    BY <2>1, <2>2 DEF ToSet
  <2>4. s \in [1..Len(s) -> 0..(r - 1)]
    BY <2>2, <2>3
  <2> QED BY <2>1, <2>2, <2>4, SeqDef DEF Numbers
<1>7. PICK q : q = stream'
  OBVIOUS
<1>8. q = s \o [i \in 1..n |-> r + i - 1]
  BY <1>1, <1>4, <1>5, <1>7
<1>9. /\ Len(s) \in Nat /\ q \in Seq(0..(e - 1)) /\ Len(q) = Len(s) + n
      /\ \A i \in 1..Len(s) : q[i] = s[i]
      /\ \A i, j \in 1..Len(q) : i < j => q[i] < q[j]
      /\ ToSet(q) = ToSet(s) \cup r..(e - 1)
  <2> PICK m \in Nat : m = n /\ m > 0 /\ e = r + m
    BY <1>2, <1>4
  <2>1. q = Continued(s, r, m)
    BY <1>8 DEF Continued
  <2>2. /\ Len(s) \in Nat /\ Numbers(q, r + m) /\ Len(q) = Len(s) + m
        /\ \A i \in 1..Len(s) : q[i] = s[i]
        /\ ToSet(q) = ToSet(s) \cup r..(r + m - 1)
    <3>1. Continues(q, s, r, m)
      BY <1>6, <2>1, StreamAfter
    <3> QED BY <3>1 DEF Continues
  <2>3. Numbers(q, e) /\ ToSet(q) = ToSet(s) \cup r..(e - 1)
    BY <2>2
  <2> QED BY <2>2, <2>3 DEF Numbers
<1>10. Streamed'
  <2>1. PICK A, C : A = ToSet(s) /\ C = cut["sender"]
    OBVIOUS
  <2>2. A \cap C = {} /\ A \cup C = 0..(r - 1)
    BY <1>3, <1>4, <1>5, <2>1 DEF IInv, Streamed
  <2>3. (A \cup r..(e - 1)) \cap C = {} /\ (A \cup r..(e - 1)) \cup C = 0..(e - 1)
    BY <1>4, <2>2
  <2>4. ToSet(stream') = A \cup r..(e - 1) /\ cut' = cut /\ Reach'["sender"] = e
    BY <1>1, <1>3, <1>4, <1>7, <1>9, <2>1
  <2> QED BY <1>7, <1>9, <2>1, <2>3, <2>4 DEF Streamed
<1>11. Buffered'
  <2>1. /\ Cardinality(Filled) = taken
        /\ \A c \in Filled : buffer[c] = stream[Cardinality({d \in Filled : d <= c})]
    BY DEF IInv, Buffered
  <2>2. /\ \A c \in Filled : Cardinality({d \in Filled : d <= c}) \in 1..Len(s)
    BY <1>5, <2>1, FilledRanks DEF IInv
  <2>3. \A c \in Filled : buffer[c] = q[Cardinality({d \in Filled : d <= c})]
    BY <1>5, <1>9, <2>1, <2>2
  <2>4. Filled' = Filled
    BY <1>1 DEF Filled
  <2> QED BY <1>1, <1>3, <1>7, <2>3, <2>4 DEF IInv, Buffered
<1>12. NeverShort'
  <2>1. Undisturbed("sender")' => Undisturbed("sender")
    BY <1>1, <1>3 DEF Undisturbed, FileOpen
  <2>2. Chunk("sender")' = Chunk("sender") /\ Piece("sender")' = Piece("sender")
        /\ Root("sender")' = Root("sender")
    BY DEF Chunk, Piece, Root
  <2> QED BY <1>1, <1>2, <1>3, <2>1, <2>2 DEF IInv, NeverShort
<1>13. Types'
  <2>1. q \in Seq(0..(MaxPos - 1)) /\ taken \in 0..Len(q)
    <3>1. Len(q) \in Nat /\ q \in [1..Len(q) -> 0..(e - 1)]
      BY <1>9, LenProperties
    <3>2. 0..(e - 1) \subseteq 0..(MaxPos - 1)
      BY <1>2, <1>4
    <3>3. q \in [1..Len(q) -> 0..(MaxPos - 1)]
      BY <3>1, <3>2
    <3>4. q \in Seq(0..(MaxPos - 1))
      BY <3>1, <3>3, SeqDef
    <3>5. taken \in 0..Len(s)
      BY <1>5 DEF IInv, Types
    <3> QED BY <1>2, <1>9, <3>4, <3>5
  <2> QED BY <1>1, <1>3, <1>7, <2>1 DEF IInv, Types
<1> QED BY <1>3, <1>10, <1>11, <1>12, <1>13 DEF IInv

\* The kernel gives the receiver n bytes.
LEMMA ReceivedKeeps ==
  ASSUME IInv, NEW op \in pending, NEW n \in 1..MaxPiece, Received(op, n)
  PROVE  IInv'
<1>1. /\ op.frame[1] = "receiver" /\ n <= op.len /\ Answer(op, n) /\ taken + n <= Len(stream)
      /\ buffer' = [c \in DOMAIN buffer |->
                      IF c - op.from \in 0..(n - 1) THEN stream[taken + 1 + c - op.from]
                        ELSE buffer[c]]
      /\ taken' = taken + n
      /\ UNCHANGED <<frame, stack, open, pos, cut, atOnce, stream, faults>>
  BY DEF Received, Answer, tasks, history
<1>2. /\ "sender" \in Who /\ "receiver" \in Who /\ "sender" # "receiver"
      /\ n \in Nat /\ n > 0 /\ Failed <= n /\ MaxPos \in Nat
  BY TransfersAssumption, Bounds DEF Who, Failed
<1>3. /\ Control' /\ Answered' /\ Placed' /\ Asked' /\ Shallow'
      /\ op.from \in Nat /\ op.len \in Nat /\ op.from + op.len = pos["receiver"]
      /\ pos["receiver"] <= MaxPos
      /\ Reach["receiver"] = op.from /\ Reach'["receiver"] = op.from + n
      /\ Reach'["sender"] = Reach["sender"] /\ SameAnswers("sender")
      /\ pending' \subseteq pending /\ cq' \in Seq([frame : Frame, res : Int])
  <2>1. PICK w \in Who : w = "receiver"
    BY <1>2
  <2>2. n \in Int /\ Failed <= n /\ n <= op.len /\ op.frame[1] = w
    BY <1>1, <1>2, <2>1
  <2>3. Answer(op, n)
    BY <1>1
  <2>4. /\ Control' /\ Answered' /\ Placed' /\ Asked' /\ Shallow'
        /\ op.from \in Nat /\ op.len \in Nat /\ op.from + op.len = pos[w] /\ pos[w] <= MaxPos
        /\ Reach[w] = op.from /\ Reach'[w] = op.from + (IF n > 0 THEN n ELSE 0)
        /\ \A v \in Who : v # w => Reach'[v] = Reach[v] /\ SameAnswers(v)
        /\ pending' \subseteq pending /\ cq' \in Seq([frame : Frame, res : Int])
    BY <2>2, <2>3, AnswerKeeps
  <2> QED BY <1>2, <2>1, <2>4
<1>4. PICK r \in Nat, e \in Nat, m \in Nat :
        r = op.from /\ m = n /\ m > 0 /\ e = r + m /\ e <= MaxPos
  <2>1. PICK r \in Nat, l \in Nat, p \in Nat : r = op.from /\ l = op.len /\ p = pos["receiver"]
    BY <1>2, <1>3 DEF IInv, Types
  <2>2. PICK m \in Nat : m = n
    BY <1>2
  <2>3. r + l = p /\ p <= MaxPos /\ m <= l /\ m > 0 /\ MaxPos \in Nat
    BY <1>1, <1>2, <1>3, <2>1, <2>2
  <2>4. PICK e \in Nat : e = r + m
    OBVIOUS
  <2>5. e <= MaxPos
    BY <2>3, <2>4
  <2> QED BY <2>1, <2>2, <2>3, <2>4, <2>5
<1>5. PICK F, C, k : F = Filled /\ C = cut["receiver"] /\ k = taken
  OBVIOUS
<1>6. PICK s, b, d : s = stream /\ b = buffer /\ d = buffer'
  OBVIOUS
<1>7. /\ F \cap C = {} /\ F \cup C = 0..(r - 1) /\ Cardinality(F) = k /\ F \subseteq 0..(MaxPos - 1)
      /\ \A c \in F : b[c] = s[Cardinality({x \in F : x <= c})]
      /\ F = {c \in 0..(MaxPos - 1) : b[c] # Empty}
  <2>1. DOMAIN buffer = 0..(MaxPos - 1)
    BY DEF IInv, Types
  <2>2. Filled = {c \in 0..(MaxPos - 1) : buffer[c] # Empty}
    BY <2>1 DEF Filled
  <2> QED BY <1>3, <1>4, <1>5, <1>6, <2>2 DEF IInv, Buffered
<1>8. /\ k \in Nat /\ Len(s) \in Nat /\ k + m <= Len(s)
      /\ s \in Seq(0..(MaxPos - 1)) /\ \A i \in 1..Len(s) : s[i] \in 0..(MaxPos - 1)
  <2>1. s \in Seq(0..(MaxPos - 1)) /\ Len(s) \in Nat /\ k \in 0..Len(s)
    BY <1>5, <1>6, LenProperties DEF IInv, Types
  <2>2. s \in [1..Len(s) -> 0..(MaxPos - 1)]
    BY <2>1, LenProperties
  <2> QED BY <1>1, <1>4, <1>5, <1>6, <2>1, <2>2
<1>9. /\ d \in [0..(MaxPos - 1) -> Empty..(MaxPos - 1)]
      /\ \A c \in 0..(MaxPos - 1) : c \notin r..(e - 1) => d[c] = b[c]
      /\ \A c \in r..(e - 1) : d[c] = s[k + (c - r + 1)] /\ d[c] # Empty
  <2>1. b \in [0..(MaxPos - 1) -> Empty..(MaxPos - 1)]
    BY <1>6 DEF IInv, Types
  <2>2. d = [c \in 0..(MaxPos - 1) |-> IF c - r \in 0..(m - 1) THEN s[k + 1 + c - r] ELSE b[c]]
    BY <1>1, <1>4, <1>5, <1>6, <2>1
  <2>3. ASSUME NEW c \in 0..(MaxPos - 1), c \notin r..(e - 1) PROVE d[c] = b[c]
    <3>1. c - r \notin 0..(m - 1)
      BY <1>2, <1>4, <2>3
    <3> QED BY <2>2, <3>1
  <2>4. ASSUME NEW c \in r..(e - 1)
        PROVE  c \in 0..(MaxPos - 1) /\ d[c] = s[k + (c - r + 1)] /\ d[c] \in 0..(MaxPos - 1)
    <3>1. c \in 0..(MaxPos - 1) /\ c - r \in 0..(m - 1)
      BY <1>2, <1>4
    <3>2. PICK i \in Int : i = k + 1 + c - r
      BY <1>8
    <3>3. i \in 1..Len(s) /\ i = k + (c - r + 1)
      <4>1. PICK l \in Nat, h \in Nat : l = Len(s) /\ h = k /\ h + m <= l
        BY <1>8
      <4>2. c \in Int /\ r <= c /\ c < r + m
        BY <1>4
      <4>3. i = h + 1 + c - r
        BY <3>2, <4>1
      <4>4. i \in 1..l /\ i = h + (c - r + 1)
        BY <4>1, <4>2, <4>3
      <4> QED BY <4>1, <4>4
    <3>4. d[c] = s[i]
      BY <2>2, <3>1, <3>2
    <3> QED BY <1>8, <3>1, <3>3, <3>4
  <2>5. \A c \in 0..(MaxPos - 1) : d[c] \in Empty..(MaxPos - 1)
    BY <1>2, <2>1, <2>3, <2>4 DEF Empty
  <2>6. \A c \in r..(e - 1) : d[c] # Empty
    BY <1>2, <2>4 DEF Empty
  <2> QED BY <2>2, <2>3, <2>4, <2>5, <2>6
<1>10. PICK G : G = F \cup r..(e - 1)
  OBVIOUS
<1>11. {c \in 0..(MaxPos - 1) : d[c] # Empty} = G
  <2>1. ASSUME NEW c \in 0..(MaxPos - 1) PROVE d[c] # Empty <=> c \in G
    BY <1>7, <1>9, <1>10
  <2>2. G \subseteq 0..(MaxPos - 1)
    BY <1>2, <1>4, <1>7, <1>10
  <2> QED BY <2>1, <2>2
<1>12. Filled' = G
  <2>1. DOMAIN buffer' = 0..(MaxPos - 1)
    BY <1>6, <1>9
  <2> QED BY <1>6, <1>11, <2>1 DEF Filled
<1>13. F \subseteq 0..(r - 1)
  BY <1>7
<1>14. /\ Cardinality(G) = k + m
       /\ \A c \in F : {x \in G : x <= c} = {x \in F : x <= c}
       /\ \A c \in r..(e - 1) : Cardinality({x \in G : x <= c}) = k + (c - r + 1)
  <2>1. /\ Cardinality(G) = Cardinality(F) + (e - r)
        /\ \A c \in F : {x \in G : x <= c} = {x \in F : x <= c}
        /\ \A c \in r..(e - 1) : Cardinality({x \in G : x <= c}) = Cardinality(F) + (c - r + 1)
    <3>1. Ranked(G, F, r, e)
      BY <1>4, <1>10, <1>13, RanksAfter
    <3> QED BY <3>1 DEF Ranked
  <2> QED BY <1>4, <1>7, <2>1
<1>15. \A c \in G : d[c] = s[Cardinality({x \in G : x <= c})]
  <2>1. ASSUME NEW c \in F PROVE d[c] = s[Cardinality({x \in G : x <= c})]
    <3>1. c \in 0..(MaxPos - 1) /\ c \notin r..(e - 1)
      BY <1>7, <1>13
    <3> QED BY <1>7, <1>9, <1>14, <3>1
  <2>2. ASSUME NEW c \in r..(e - 1) PROVE d[c] = s[Cardinality({x \in G : x <= c})]
    BY <1>9, <1>14
  <2> QED BY <1>10, <2>1, <2>2
<1>16. G \cap C = {} /\ G \cup C = 0..(e - 1)
  BY <1>4, <1>7, <1>10
<1>17. Buffered'
  <2>1. taken' = k + m /\ stream' = s /\ cut'["receiver"] = C /\ Reach'["receiver"] = e
    BY <1>1, <1>3, <1>4, <1>5, <1>6
  <2> QED BY <1>6, <1>12, <1>14, <1>15, <1>16, <2>1 DEF Buffered
<1>18. Streamed'
  BY <1>1, <1>3 DEF IInv, Streamed
<1>19. NeverShort'
  <2>1. Undisturbed("sender")' => Undisturbed("sender")
    BY <1>1, <1>3 DEF Undisturbed, FileOpen
  <2> QED BY <1>1, <1>3, <2>1, NeverShortSame DEF IInv
<1>20. Types'
  <2>1. taken' \in 0..Len(stream')
    BY <1>1, <1>4, <1>5, <1>6, <1>8
  <2>2. buffer' \in [0..(MaxPos - 1) -> Empty..(MaxPos - 1)]
    BY <1>6, <1>9
  <2> QED BY <1>1, <1>3, <2>1, <2>2 DEF IInv, Types
<1> QED BY <1>3, <1>17, <1>18, <1>19, <1>20 DEF IInv

\* The kernel answers without having transferred anything.
LEMMA NothingTransferred ==
  ASSUME IInv, NEW op \in pending, NEW w \in Who, op.frame[1] = w, NEW n \in {0, Failed},
         Answer(op, n), UNCHANGED <<stream, taken, buffer>>, faults' \in 0..MaxFaults,
           faults' <= faults,
         w = "sender" => ~Undisturbed("sender")'
  PROVE  IInv'
<1>1. UNCHANGED <<frame, stack, open, pos, cut, atOnce>> /\ UNCHANGED <<stream, taken, buffer>>
  BY DEF Answer, tasks, history
<1>2. n \in Int /\ Failed <= n /\ n <= 0 /\ op.len \in Nat /\ n <= op.len
  <2>1. op.len \in Nat
    BY DEF IInv, Types
  <2> QED BY <2>1 DEF Failed
<1>3. /\ Control' /\ Answered' /\ Placed' /\ Asked' /\ Shallow'
      /\ op.from \in Nat /\ Reach[w] = op.from
      /\ Reach'[w] = op.from + (IF n > 0 THEN n ELSE 0)
      /\ \A v \in Who : v # w => Reach'[v] = Reach[v] /\ SameAnswers(v)
      /\ pending' \subseteq pending /\ cq' \in Seq([frame : Frame, res : Int])
  BY <1>2, AnswerKeeps
<1>4. Reach'[w] = Reach[w]
  BY <1>2, <1>3
<1>5. Streamed' /\ Buffered'
  BY <1>1, <1>3, <1>4, Carried DEF IInv
<1>6. NeverShort'
  <2>1. CASE w = "sender"
    BY <2>1 DEF NeverShort
  <2>2. CASE w # "sender"
    <3>1. "sender" \in Who
      BY TransfersAssumption DEF Who
    <3>2. Undisturbed("sender")' => Undisturbed("sender")
      <4>1. faults \in Int /\ faults <= MaxFaults /\ MaxFaults \in Nat /\ faults' \in Int
        BY Bounds DEF IInv, Types
      <4>2. \A v \in Who : FileOpen(v)' => FileOpen(v)
        BY <1>1, <1>3 DEF FileOpen
      <4> QED BY <4>1, <4>2 DEF Undisturbed
    <3> QED BY <1>1, <1>3, <2>2, <3>1, <3>2, NeverShortSame DEF IInv
  <2> QED BY <2>1, <2>2
<1>7. Types'
  BY <1>1, <1>3 DEF IInv, Types
<1> QED BY <1>3, <1>5, <1>6, <1>7 DEF IInv

\* The sender's end of the connection is closed and everything was received.
LEMMA EndOfStreamKeeps ==
  ASSUME IInv, NEW op \in pending, EndOfStream(op)
  PROVE  IInv'
<1>1. /\ op.frame[1] = "receiver" /\ Answer(op, 0) /\ UNCHANGED <<stream, taken, buffer>>
      /\ faults' = faults
  BY DEF EndOfStream
<1>2. PICK w \in Who : w = "receiver" /\ w # "sender"
  BY TransfersAssumption DEF Who
<1>3. faults' \in 0..MaxFaults /\ faults' <= faults
  BY <1>1, Bounds DEF IInv, Types
<1> QED BY <1>1, <1>2, <1>3, NothingTransferred

\* An operation fails: for the sender that is a fault, or the receiver is gone.
LEMMA OpFailsKeeps ==
  ASSUME IInv, NEW op \in pending, OpFails(op)
  PROVE  IInv'
<1>1. /\ Answer(op, Failed) /\ UNCHANGED <<stream, taken, buffer>>
      /\ \/ op.frame[1] = "sender" /\ ~FileOpen("receiver") /\ faults' = faults
         \/ faults > 0 /\ faults' = faults - 1
  BY DEF OpFails
<1>2. PICK w \in Who : w = op.frame[1]
  BY FrameAddresses DEF IInv, Types
<1>3. faults \in 0..MaxFaults /\ MaxFaults \in Nat
  BY Bounds DEF IInv, Types
<1>4. faults' \in 0..MaxFaults /\ faults' <= faults
  BY <1>1, <1>3
<1>5. ASSUME w = "sender" PROVE ~Undisturbed("sender")'
  <2>1. CASE ~FileOpen("receiver")
    <3>1. open' = open /\ pending' \subseteq pending
      BY <1>1 DEF Answer
    <3>2. ~FileOpen("receiver")'
      BY <2>1, <3>1 DEF FileOpen
    <3>3. "receiver" \in Who /\ "receiver" # "sender"
      BY TransfersAssumption DEF Who
    <3> QED BY <3>2, <3>3 DEF Undisturbed
  <2>2. CASE faults > 0 /\ faults' = faults - 1
    BY <1>3, <2>2 DEF Undisturbed
  <2> QED BY <1>1, <2>1, <2>2
<1> QED BY <1>1, <1>2, <1>4, <1>5, NothingTransferred

-------------------------------------------------------------------------------
(* The invariant *)

\* It holds when nothing has started yet.
LEMMA InitIInv == Init => IInv
<1> SUFFICES ASSUME Init PROVE IInv
  OBVIOUS
<1>1. "sender" \in Who /\ "receiver" \in Who /\ Who = Detached /\ Thread = {"main", "loop"}
  BY TransfersAssumption DEF Who
<1>2. /\ frame = [f \in Frame |-> IF f = Root(f[1]) THEN NewFrame("initial", None, Client)
           ELSE Gone]
      /\ stack = [t \in Thread |-> << >>] /\ open = [w \in Who |-> TRUE]
      /\ pending = {} /\ cq = << >> /\ stream = << >> /\ taken = 0
      /\ buffer = [c \in 0..(MaxPos - 1) |-> Empty]
      /\ pos = [w \in Who |-> 0] /\ cut = [w \in Who |-> {}]
      /\ atOnce = [t \in Thread |-> 0] /\ faults = MaxFaults
  BY DEF Init
<1>3. /\ MaxPos \in Nat /\ MaxFaults \in Nat /\ Pieces \in Nat /\ 0 * MaxPiece = 0
      /\ MaxPiece \in Nat
  BY Bounds
<1>4. Len(cq) = 0 /\ Len(stream) = 0 /\ 1..0 = {} /\ \A i \in 1..0 : FALSE
  BY <1>2, EmptySeq
<1>5. PICK F : F = NewFrame("initial", None, Client)
  OBVIOUS
<1>6. /\ F.state = "initial" /\ F.child = None /\ F.value = NoValue /\ F.body = Client
      /\ \A f \in Frame : f[2] = 1 => F \in FrameAt(f)
  <2>1. Client \in ClientBody /\ NoValue \in Int
    BY <1>3 DEF Client, ClientBody, NoValue
  <2>2. F.state = "initial" /\ F.child = None /\ F.value = NoValue /\ F.body = Client
    BY <1>5 DEF NewFrame
  <2>3. ASSUME NEW f \in Frame, f[2] = 1 PROVE F \in FrameAt(f)
    BY <1>5, <2>1, <2>3 DEF NewFrame, FrameAt, BodyAt
  <2> QED BY <2>2, <2>3
<1>7. \A f \in Frame : /\ f[2] = 1 => frame[f] = F
                       /\ f[2] # 1 => frame[f] = Gone
  BY <1>2, <1>5, FrameAddresses
<1>8. \A f \in Frame : frame[f].state \in {"initial", "gone"}
                         /\ (frame[f].state = "gone" <=> f[2] # 1)
  BY <1>6, <1>7, GoneState
<1>9. TaskTypes
  <2>1. frame = [f \in Frame |-> frame[f]]
    BY <1>2
  <2>2. \A f \in Frame : frame[f] \in {Gone} \cup FrameAt(f)
    BY <1>6, <1>7
  <2>3. stack \in [Thread -> Seq(Calls)]
    BY <1>2, EmptySeq
  <2> QED BY <2>1, <2>2, <2>3 DEF TaskTypes
<1>10. Nested
  <2>1. ASSUME NEW f \in Frame PROVE Joined(f)
    <3>1. CASE f[2] = 1
      BY <1>6, <1>7, <3>1 DEF Joined
    <3>2. CASE f[2] # 1
      <4>1. f[2] \in 1..3 /\ Caller(f) \in Frame /\ f # None
        BY <3>2, FrameAddresses
      <4>2. frame[f].state = "gone"
        BY <1>8, <3>2
      <4>3. frame[Caller(f)].state # "gone" => frame[Caller(f)].child = None
        BY <1>6, <1>7, <1>8, <4>1
      <4> QED BY <3>2, <4>1, <4>2, <4>3 DEF Joined
    <3> QED BY <3>1, <3>2
  <2> QED BY <2>1 DEF Nested
<1>11. Executed
  <2>1. \A t \in Thread : stack[t] = << >> /\ Len(stack[t]) = 0
    BY <1>2, EmptySeq
  <2>2. \A t \in Thread, f \in Frame : ~Executes(t, f)
    BY <2>1 DEF Executes
  <2>3. \A t \in Thread : \A i \in 1..(Len(stack[t]) - 1) : stack[t][i].in # "body"
    BY <2>1
  <2>4. \A f \in Frame : frame[f].state # "running"
    BY <1>8
  <2> QED BY <2>2, <2>3, <2>4 DEF Executed
<1>12. Answered
  <2>1. Waiting = {}
    BY <1>8 DEF Waiting
  <2>2. {op.frame : op \in pending} \cup {cq[i].frame : i \in 1..Len(cq)} = {}
    BY <1>2, <1>4
  <2> QED BY <1>2, <1>4, <2>1, <2>2 DEF Answered
<1>13. Placed
  <2>1. ASSUME NEW w \in Who PROVE PlacedAt(w)
    <3>1. frame[Root(w)] = F /\ frame[Piece(w)].state = "gone" /\ frame[Chunk(w)].state = "gone"
      BY <1>7, <1>8, FrameAddresses
    <3>2. pos[w] = 0 /\ F.body.pieces = 0
      BY <1>2, <1>6 DEF Client
    <3> QED BY <1>3, <1>6, <3>1, <3>2 DEF PlacedAt
  <2> QED BY <2>1 DEF Placed
<1>14. Asked
  BY <1>2, <1>4 DEF Asked
<1>15. Shallow
  <2>1. ASSUME NEW t \in Thread PROVE ShallowAt(t)
    <3>1. stack[t] = << >> /\ Len(stack[t]) = 0 /\ atOnce[t] = 0
      BY <1>2, EmptySeq
    <3> QED BY <3>1 DEF ShallowAt, High
  <2> QED BY <2>1 DEF Shallow
<1>16. \A w \in Who : Reach[w] = 0
  <2>1. \A w \in Who : frame[Piece(w)].state = "gone" /\ pos[w] = 0
    BY <1>2, <1>8, FrameAddresses
  <2> QED BY <2>1, ReachCases DEF ReachRight
<1>17. Streamed
  <2>1. ToSet(stream) = {} /\ cut["sender"] = {} /\ 0..(0 - 1) = {}
    BY <1>1, <1>2 DEF ToSet
  <2> QED BY <1>1, <1>4, <1>16, <2>1 DEF Streamed
<1>18. Buffered
  <2>1. Filled = {} /\ cut["receiver"] = {} /\ 0..(0 - 1) = {}
    BY <1>1, <1>2 DEF Filled
  <2>2. Cardinality({}) = 0
    BY FS_EmptySet
  <2> QED BY <1>1, <1>2, <1>16, <2>1, <2>2 DEF Buffered
<1>19. NeverShort
  <2>1. /\ frame[Piece("sender")].state = "gone" /\ frame[Chunk("sender")].state = "gone"
        /\ open["sender"] /\ cut["sender"] = {}
    <3>1. PICK w \in Who : w = "sender"
      BY <1>1
    <3>2. frame[Piece(w)].state = "gone" /\ frame[Chunk(w)].state = "gone"
      BY <1>8, FrameAddresses
    <3> QED BY <1>2, <3>1, <3>2
  <2> QED BY <1>4, <2>1 DEF NeverShort
<1>20. Types
  <2>1. cq \in Seq([frame : Frame, res : Int]) /\ stream \in Seq(0..(MaxPos - 1))
          /\ taken \in 0..Len(stream)
    BY <1>2, <1>4, EmptySeq
  <2>2. buffer \in [0..(MaxPos - 1) -> Empty..(MaxPos - 1)]
    BY <1>2, <1>3 DEF Empty
  <2> QED BY <1>2, <1>3, <2>1, <2>2 DEF Types
<1> QED BY <1>9, <1>10, <1>11, <1>12, <1>13, <1>14, <1>15, <1>17, <1>18, <1>19, <1>20
        DEF IInv, Control

\* A thread's steps.
LEMMA ThreadRunsKeeps ==
  ASSUME IInv, NEW t \in Thread, ThreadRuns(t)
  PROVE  IInv'
<1>1. CASE Returns(t)
  BY <1>1, ReturnsKeeps
<1>2. CASE Coroutine(t, Top(t).frame)
  <2>1. Executes(t, Top(t).frame)
    BY <1>2 DEF Coroutine, ClientCalls, ClientResumes, ClientEnds, BytesCalls, BytesResumes,
                BytesReturns, CallRefused, CallSubmitted, CallReturns, At, Awaited
  <2>2. Top(t).frame \in Frame
    <3>1. stack[t] \in Seq(Calls) /\ stack[t] # << >>
      BY <2>1 DEF IInv, Control, TaskTypes, Executes
    <3>2. Top(t) \in Calls
      BY <3>1, EmptySeq, ElementOfSeq, LenProperties DEF Top
    <3> QED BY <3>2 DEF Calls
  <2>3. PICK f \in Frame : f = Top(t).frame
    BY <2>2
  <2>4. Coroutine(t, f)
    BY <1>2, <2>3
  <2> QED BY <2>4, ClientCallsKeeps, ClientResumesKeeps, ClientEndsKeeps, BytesCallsKeeps,
             BytesResumesKeeps, BytesReturnsKeeps, CallRefusedKeeps, CallSubmittedKeeps,
             CallReturnsKeeps
          DEF Coroutine
<1> QED BY <1>1, <1>2 DEF ThreadRuns

\* The kernel's answers.
LEMMA KernelKeeps ==
  ASSUME IInv, NEW w \in Who, KernelAnswers(w)
  PROVE  IInv'
<1>1. PICK op \in pending :
        \/ \E n \in 1..MaxPiece : Sent(op, n) \/ Received(op, n)
        \/ EndOfStream(op) \/ OpFails(op)
  BY DEF KernelAnswers
<1>2. CASE EndOfStream(op)
  BY <1>2, EndOfStreamKeeps
<1>3. CASE OpFails(op)
  BY <1>3, OpFailsKeeps
<1>4. ASSUME NEW n \in 1..MaxPiece, Sent(op, n) \/ Received(op, n) PROVE IInv'
  BY <1>4, SentKeeps, ReceivedKeeps
<1> QED BY <1>1, <1>2, <1>3, <1>4

\* Nothing changes.
LEMMA Stutters ==
  ASSUME IInv, UNCHANGED vars
  PROVE  IInv'
<1>1. /\ UNCHANGED <<frame, stack, open, pending, cq, stream, taken, buffer, pos, cut, atOnce, faults>>
  BY DEF vars, tasks, transport, history
<1>2. Control' /\ Types' /\ Answered' /\ Placed' /\ Asked' /\ Shallow'
  <2>1. TaskTypes' /\ Nested' /\ Types'
    BY <1>1 DEF IInv, Control, TaskTypes, Nested, Joined, Types
  <2>2. \A t \in Thread, f \in Frame : Executes(t, f)' <=> Executes(t, f)
    BY <1>1 DEF Executes, Top
  <2>3. Executed'
    BY <1>1, <2>2 DEF IInv, Control, Executed
  <2>4. Answered' /\ Placed' /\ Asked'
    BY <1>1 DEF IInv, Answered, Waiting, Placed, PlacedAt, Asked
  <2>5. ASSUME NEW t \in Thread PROVE ShallowAt(t)'
    <3>1. ShallowAt(t) /\ Top(t)' = Top(t)
      BY <1>1 DEF IInv, Shallow, Top
    <3> QED BY <1>1, <3>1 DEF ShallowAt, High
  <2> QED BY <2>1, <2>3, <2>4, <2>5 DEF Control, Shallow
<1>3. \A w \in Who : SameAnswers(w)
  BY <1>1 DEF SameAnswers
<1>4. Streamed' /\ Buffered'
  <2>1. ASSUME NEW w \in Who PROVE Reach'[w] = Reach[w]
    BY <1>1, <1>2, <1>3, ReachSame DEF IInv, SameAnswers
  <2> QED BY <1>1, <2>1, Carried DEF IInv
<1>5. NeverShort'
  <2>1. "sender" \in Who
    BY TransfersAssumption DEF Who
  <2>2. Undisturbed("sender")' => Undisturbed("sender")
    BY <1>1 DEF Undisturbed, FileOpen
  <2> QED BY <1>1, <1>3, <2>1, <2>2, NeverShortSame DEF IInv
<1> QED BY <1>2, <1>4, <1>5 DEF IInv

\* All steps together.
LEMMA StepKeeps == IInv /\ [Next]_vars => IInv'
<1> SUFFICES ASSUME IInv, [Next]_vars PROVE IInv'
  OBVIOUS
<1>1. ASSUME NEW t \in Thread, ThreadRuns(t) PROVE IInv'
  BY <1>1, ThreadRunsKeeps
<1>2. ASSUME NEW who \in Who, Start(who) \/ KernelAnswers(who) \/ CloseCopy(who) PROVE IInv'
  BY <1>2, StartKeeps, KernelKeeps, CloseCopyKeeps
<1>3. CASE HandleCqe
  BY <1>3, HandleCqeKeeps
<1>4. CASE UNCHANGED vars
  BY <1>4, Stutters
<1> QED BY <1>1, <1>2, <1>3, <1>4 DEF Next

-------------------------------------------------------------------------------
(* Theorems *)

\* The frames, calls, operations, answers and transfers of the clients fit together in
\* every state: each coroutine that runs is executed by one call, each that waits for
\* the kernel has one operation or one answer, for the chunk it asked for, and what was
\* transferred is what the clients' coroutines say.
THEOREM Invariance == Spec => []IInv
<1>1. Init => IInv
  BY InitIInv
<1>2. IInv /\ [Next]_vars => IInv'
  BY StepKeeps
<1> QED BY <1>1, <1>2, PTL DEF Spec

\* How far a client has got is not further than it was asked to.
LEMMA ReachBounds ==
  ASSUME IInv, NEW w \in Who
  PROVE  /\ Reach[w] \in Nat /\ Reach[w] <= pos[w] /\ pos[w] \in 0..MaxPos
         /\ frame[Root(w)].child = None => Reach[w] = pos[w]
<1>1. /\ pos[w] \in Nat /\ pos[w] <= MaxPos /\ MaxPos \in Nat
      /\ frame[Piece(w)].state # "gone" =>
           /\ frame[Piece(w)].body \in BytesBody /\ frame[Root(w)].child = Piece(w)
      /\ frame[Chunk(w)].state # "gone" => frame[Chunk(w)].body \in CallBody
  BY BodyTypes, Bounds DEF IInv
<1>2. GotRight /\ ReachRight
  BY GotCases, ReachCases DEF IInv
<1>3. CASE frame[Piece(w)].state \in {"gone", "final"}
  BY <1>1, <1>2, <1>3 DEF ReachRight
<1>4. CASE frame[Piece(w)].state \notin {"gone", "final"}
  <2>1. PICK b : b = frame[Piece(w)].body
    OBVIOUS
  <2>2. b.from \in Nat /\ b.len \in Nat /\ b.offset \in Nat
    BY <1>1, <1>4, <2>1, Bounds DEF BytesBody
  <2>3. b.from + b.len = pos[w] /\ b.offset <= b.len
    BY <1>4, <2>1 DEF IInv, Placed, PlacedAt
  <2>4. frame[Piece(w)].child # None => Got[w] \in Int /\ Got[w] <= b.len - b.offset
    <3> SUFFICES ASSUME frame[Piece(w)].child # None
                 PROVE  Got[w] \in Int /\ Got[w] <= b.len - b.offset
      OBVIOUS
    <3>1. frame[Chunk(w)].state # "gone"
      <4>1. /\ Piece(w) \in Frame /\ Chunk(w) \in Frame /\ Chunk(w)[2] > 1
                 /\ Caller(Chunk(w)) = Piece(w)
            /\ CalleeOf(Piece(w)) = Chunk(w)
        BY FrameAddresses
      <4>2. frame[Piece(w)] \in FrameAt(Piece(w))
        BY <1>4, <4>1, GoneState DEF IInv, Control, TaskTypes
      <4>3. frame[Piece(w)].child = Chunk(w)
        BY <4>1, <4>2, FrameFields
      <4> QED BY <1>4, <4>1, <4>3 DEF IInv, Control, Nested, Joined
    <3>2. PICK c : c = frame[Chunk(w)].body
      OBVIOUS
    <3>3. c.len \in Nat /\ c.len = b.len - b.offset /\ frame[Chunk(w)].value \in NoValue..c.len
      <4>1. c.len \in Nat
        BY <1>1, <3>1, <3>2 DEF CallBody
      <4> QED BY <2>1, <3>1, <3>2, <4>1 DEF IInv, Placed, PlacedAt
    <3>4. CASE frame[Chunk(w)].value # NoValue
      BY <1>2, <3>3, <3>4 DEF GotRight, NoValue
    <3>5. CASE frame[Chunk(w)].value = NoValue /\ \A i \in 1..Len(cq) : cq[i].frame # Chunk(w)
      BY <1>2, <3>3, <3>5 DEF GotRight
    <3>6. CASE frame[Chunk(w)].value = NoValue /\ \E i \in 1..Len(cq) : cq[i].frame = Chunk(w)
      <4>1. PICK i \in 1..Len(cq) : cq[i].frame = Chunk(w)
        BY <3>6
      <4>2. cq[i].res \in Failed..c.len
        BY <3>2, <4>1 DEF IInv, Asked
      <4>3. Got[w] = cq[i].res
        BY <1>2, <3>6, <4>1 DEF GotRight
      <4> QED BY <3>3, <4>2, <4>3 DEF Failed
    <3> QED BY <3>4, <3>5, <3>6
  <2>5. PICK g : g = IF frame[Piece(w)].child # None /\ Got[w] > 0 THEN Got[w] ELSE 0
    OBVIOUS
  <2>6. g \in Nat /\ g <= b.len - b.offset
    BY <2>2, <2>3, <2>4, <2>5
  <2>7. Reach[w] = b.from + b.offset + g
    BY <1>2, <1>4, <2>1, <2>5 DEF ReachRight
  <2>8. frame[Root(w)].child # None
    BY <1>1, <1>4, FrameAddresses
  <2>9. PICK x, y, z : x = b.from /\ y = b.offset /\ z = b.len
    OBVIOUS
  <2>10. x \in Nat /\ y \in Nat /\ z \in Nat /\ g \in Nat /\ g <= z - y /\ x + z = pos[w]
         /\ Reach[w] = x + y + g
    BY <2>2, <2>3, <2>6, <2>7, <2>9
  <2>11. Reach[w] \in Nat /\ Reach[w] <= pos[w]
    BY <1>1, <2>10
  <2> QED BY <1>1, <2>8, <2>11
<1> QED BY <1>3, <1>4

\* What the kernel is asked for, and answers, lies in the piece it is for.
LEMMA InRange ==
  ASSUME IInv, NEW f \in Waiting
  PROVE  frame[f].body.from \in 0..MaxPos /\ frame[f].body.len \in 1..MaxPiece
<1>1. f \in Frame /\ frame[f].state = "suspended" /\ frame[f].child = None
  BY DEF Waiting
<1>2. f[2] = 3
  BY <1>1 DEF IInv, Control, Nested, Joined
<1>3. PICK w \in Who : w = f[1] /\ f = Chunk(w)
  BY <1>1, <1>2, FrameAddresses
<1>4. PICK b, c : b = frame[Piece(w)].body /\ c = frame[Chunk(w)].body
  OBVIOUS
<1>5. /\ b \in BytesBody /\ c \in CallBody /\ pos[w] \in Nat /\ pos[w] <= MaxPos
      /\ frame[Piece(w)].state # "gone" /\ frame[Chunk(w)].state # "gone"
  BY <1>1, <1>3, <1>4, BodyTypes DEF IInv
<1>6. /\ b.from \in Nat /\ b.len \in Nat /\ b.len <= MaxPiece /\ b.offset \in Nat
      /\ c.from \in Nat /\ c.len \in Nat /\ c.len # 0
  BY <1>5, Bounds DEF BytesBody, CallBody
<1>7. /\ b.from + b.len = pos[w] /\ c.from = b.from + b.offset /\ c.len = b.len - b.offset
  BY <1>4, <1>5 DEF IInv, Placed, PlacedAt
<1>8. PICK x, y, z, u, v : x = b.from /\ y = b.offset /\ z = b.len /\ u = c.from /\ v = c.len
  OBVIOUS
<1>9. /\ x \in Nat /\ y \in Nat /\ z \in Nat /\ u \in Nat /\ v \in Nat /\ v # 0 /\ z <= MaxPiece
      /\ x + z = pos[w] /\ u = x + y /\ v = z - y
  BY <1>6, <1>7, <1>8
<1>10. u \in 0..MaxPos /\ v \in 1..MaxPiece
  BY <1>5, <1>9, Bounds
<1> QED BY <1>3, <1>4, <1>8, <1>10

\* In every state all variables are of their type; in particular no loop of send_bytes or
\* recv_bytes gets past the end of its piece, and nobody is asked for bytes outside it.
THEOREM TypeCorrect == Spec => []TypeOK
<1>1. IInv => TypeOK
  <2> SUFFICES ASSUME IInv PROVE TypeOK
    OBVIOUS
  <2>1. /\ \A f \in Frame : frame[f] \in {Gone} \cup FrameAt(f)
        /\ stack \in [Thread -> Seq(Calls)]
    BY DEF IInv, Control, TaskTypes
  <2>2. \A f \in Frame : frame[f].state \in {"gone", "initial", "running", "suspended", "final"}
    BY <2>1, FrameFields, GoneState
  <2>3. ASSUME NEW f \in Frame, frame[f] # Gone, frame[f].body.level = "bytes"
        PROVE  frame[f].body.offset \in 0..frame[f].body.len
    <3>1. frame[f] \in FrameAt(f) /\ frame[f].state # "gone" /\ frame[f].body \in BodyAt(f)
      BY <2>1, <2>3, FrameFields
    <3>2. f[2] = 2
      BY <2>3, <3>1, FrameAddresses DEF BodyAt, ClientBody, CallBody
    <3>3. PICK w \in Who : f = Piece(w)
      BY <3>2, FrameAddresses
    <3>4. frame[f].body.offset <= frame[f].body.len
      BY <3>1, <3>3 DEF IInv, Placed, PlacedAt
    <3>5. frame[f].body.offset \in Nat /\ frame[f].body.len \in Nat
      <4>1. frame[f].body \in BytesBody
        BY <3>1, <3>2 DEF BodyAt
      <4> QED BY <4>1, Bounds DEF BytesBody
    <3> QED BY <3>4, <3>5
  <2>4. ASSUME NEW t \in Thread
        PROVE  ToSet(stack[t]) \subseteq [frame : Frame, in : {"body", "await", "final"}]
    <3>1. stack[t] \in Seq(Calls)
      BY <2>1
    <3>2. \A i \in DOMAIN stack[t] : stack[t][i] \in Calls
      BY <3>1, LenProperties
    <3> QED BY <3>2 DEF ToSet, Calls
  <2>5. pending \subseteq [frame : Frame, from : 0..MaxPos, len : 1..MaxPiece]
    <3>1. ASSUME NEW op \in pending PROVE op \in [frame : Frame, from : 0..MaxPos, len : 1..MaxPiece]
      <4>1. op \in [frame : Frame, from : Nat, len : Nat]
        BY DEF IInv, Types
      <4>2. op.frame \in Waiting
        BY DEF IInv, Answered
      <4>3. op.from \in 0..MaxPos /\ op.len \in 1..MaxPiece
        BY <4>2, InRange DEF IInv, Asked
      <4> QED BY <4>1, <4>3
    <3> QED BY <3>1
  <2>6. cq \in Seq([frame : Frame, res : Failed..MaxPiece])
    <3>1. cq \in Seq([frame : Frame, res : Int]) /\ Len(cq) \in Nat
      BY LenProperties DEF IInv, Types
    <3>2. cq \in [1..Len(cq) -> [frame : Frame, res : Int]]
      BY <3>1, LenProperties
    <3>3. ASSUME NEW i \in 1..Len(cq) PROVE cq[i] \in [frame : Frame, res : Failed..MaxPiece]
      <4>1. cq[i] \in [frame : Frame, res : Int]
        BY <3>2
      <4>2. cq[i].frame \in Waiting
        BY DEF IInv, Answered
      <4>3. PICK l : l = frame[cq[i].frame].body.len
        OBVIOUS
      <4>4. l \in 1..MaxPiece /\ cq[i].res \in Failed..l
        BY <4>2, <4>3, InRange DEF IInv, Asked
      <4>5. cq[i].res \in Failed..MaxPiece
        BY <4>4, Bounds DEF Failed
      <4> QED BY <4>1, <4>5
    <3>4. PICK S : S = [frame : Frame, res : Failed..MaxPiece]
      OBVIOUS
    <3>5. cq \in [1..Len(cq) -> S]
      BY <3>2, <3>3, <3>4
    <3>6. cq \in Seq(S)
      BY <3>1, <3>5, SeqDef
    <3> QED BY <3>4, <3>6
  <2>7. pos \in [Who -> 0..MaxPos]
    BY ReachBounds DEF IInv, Types
  <2>8. cut \in [Who -> SUBSET (0..(MaxPos - 1))]
    <3>1. Who = {"sender", "receiver"} /\ "sender" \in Who /\ "receiver" \in Who
      BY TransfersAssumption DEF Who
    <3>2. ASSUME NEW w \in Who PROVE cut[w] \subseteq 0..(Reach[w] - 1)
      BY <3>1 DEF IInv, Streamed, Buffered
    <3>3. ASSUME NEW w \in Who PROVE cut[w] \subseteq 0..(MaxPos - 1)
      <4>1. Reach[w] \in Nat /\ Reach[w] <= MaxPos /\ MaxPos \in Nat
        BY ReachBounds, Bounds
      <4>2. 0..(Reach[w] - 1) \subseteq 0..(MaxPos - 1)
        BY <4>1
      <4> QED BY <3>2, <4>2
    <3> QED BY <3>3 DEF IInv, Types
  <2> QED BY <2>2, <2>3, <2>4, <2>5, <2>6, <2>7, <2>8 DEF TypeOK, IInv, Types
<1> QED BY <1>1, Invariance, PTL

\* No coroutine of the clients is ever executed by two calls, and none executes whose frame
\* is suspended, finished or destroyed, on whichever thread an answer is handled.
THEOREM OneActivationHolds == Spec => []OneActivation
<1>1. IInv => OneActivation
  <2> SUFFICES ASSUME IInv PROVE OneActivation
    OBVIOUS
  <2>1. /\ \A f \in Frame : frame[f].state = "running" <=> \E t \in Thread : Executes(t, f)
        /\ \A f \in Frame : \A t, u \in Thread : Executes(t, f) /\ Executes(u, f) => t = u
    BY DEF IInv, Control, Executed
  <2>2. ASSUME NEW t \in Active PROVE t \in Thread /\ Top(t).frame \in Frame
               /\ Executes(t, Top(t).frame)
    <3>1. t \in Thread /\ stack[t] # << >> /\ Top(t).in = "body" /\ stack[t] \in Seq(Calls)
      BY DEF Active, IInv, Control, TaskTypes
    <3>2. Top(t) \in Calls
      BY <3>1, EmptySeq, ElementOfSeq, LenProperties DEF Top
    <3>3. Top(t).frame \in Frame /\ Top(t) = Calling(Top(t).frame, "body")
      BY <3>1, <3>2 DEF Calls, Calling
    <3> QED BY <3>1, <3>3 DEF Executes
  <2>3. \A t \in Thread, f \in Frame : Executes(t, f) => t \in Active /\ Top(t).frame = f
    BY DEF Executes, Active, Calling
  <2>4. {f \in Frame : frame[f].state = "running"} = {Top(t).frame : t \in Active}
    <3>1. ASSUME NEW f \in Frame, frame[f].state = "running"
          PROVE f \in {Top(t).frame : t \in Active}
      <4>1. PICK t \in Thread : Executes(t, f)
        BY <2>1, <3>1
      <4> QED BY <2>3, <4>1
    <3>2. ASSUME NEW t \in Active PROVE Top(t).frame \in Frame
                 /\ frame[Top(t).frame].state = "running"
      BY <2>1, <2>2
    <3> QED BY <3>1, <3>2
  <2>5. ASSUME NEW t \in Active, NEW u \in Active, Top(t).frame = Top(u).frame PROVE t = u
    BY <2>1, <2>2, <2>5
  <2> QED BY <2>4, <2>5 DEF OneActivation
<1> QED BY <1>1, Invariance, PTL

\* A coroutine of the clients waits in a co_await as long as the task it awaits is not
\* finished, goes on only when it is, and every task that exists is one that is awaited.
THEOREM AwaitsPairedHolds == Spec => []AwaitsPaired
<1>1. IInv => AwaitsPaired
  <2> SUFFICES ASSUME IInv PROVE AwaitsPaired
    OBVIOUS
  <2>1. \A f \in Frame : frame[f] \in {Gone} \cup FrameAt(f) /\ Joined(f)
    BY DEF IInv, Control, TaskTypes, Nested
  <2>2. \A f \in Frame : frame[f].state = "gone" <=> frame[f] = Gone
    BY <2>1, FrameFields, GoneState
  <2>3. ASSUME NEW f \in Frame, frame[f] # Gone, frame[f].child # None
        PROVE  /\ frame[frame[f].child] # Gone /\ frame[frame[f].child].continuation = f
               /\ (frame[frame[f].child].state = "final") <=> (frame[f].state = "running")
    <3>1. frame[f] \in FrameAt(f) /\ frame[f].state # "gone"
      BY <2>1, <2>2, <2>3
    <3>2. f[2] < 3 /\ frame[f].child = CalleeOf(f)
      BY <2>3, <3>1, FrameFields
    <3>3. PICK g \in Frame : g = CalleeOf(f) /\ Caller(g) = f /\ g[2] > 1
      BY <3>2, FrameAddresses
    <3>4. frame[g].state # "gone"
      BY <2>1, <3>1, <3>2, <3>3 DEF Joined
    <3>5. frame[g].continuation = f
      BY <2>1, <2>2, <3>3, <3>4, FrameFields
    <3>6. frame[f].state = "running" <=> frame[g].state = "final"
      BY <2>1, <2>3, <3>1, <3>3 DEF Joined
    <3> QED BY <2>2, <3>2, <3>3, <3>4, <3>5, <3>6
  <2>4. ASSUME NEW g \in Frame, frame[g] # Gone, frame[g].continuation # None
        PROVE  frame[frame[g].continuation] # Gone /\ frame[frame[g].continuation].child = g
    <3>1. frame[g] \in FrameAt(g) /\ frame[g].state # "gone"
      BY <2>1, <2>2, <2>4
    <3>2. g[2] > 1 /\ frame[g].continuation = Caller(g)
      BY <2>4, <3>1, FrameFields, FrameAddresses
    <3>3. PICK f \in Frame : f = Caller(g)
      BY <3>2, FrameAddresses
    <3>4. frame[f].state # "gone" /\ frame[f].child = g
      BY <2>1, <3>1, <3>2, <3>3 DEF Joined
    <3> QED BY <2>2, <3>2, <3>3, <3>4
  <2> QED BY <2>3, <2>4 DEF AwaitsPaired
<1> QED BY <1>1, Invariance, PTL

\* However long a transfer is and however the answers cut it up, a thread nests at most
\* five calls for each await that was answered at once.
THEOREM StackIsBounded == Spec => []StackBounded
<1>1. IInv => StackBounded
  <2> SUFFICES ASSUME IInv, NEW t \in Thread PROVE Len(stack[t]) <= 5 * (1 + atOnce[t])
    BY DEF StackBounded
  <2>1. Len(stack[t]) <= 5 + 5 * atOnce[t]
    BY DEF IInv, Shallow, ShallowAt, High
  <2>2. atOnce[t] \in Nat
    BY DEF IInv, Types
  <2> QED BY <2>1, <2>2
<1> QED BY <1>1, Invariance, PTL

\* What the kernel gets from the sender is increasing, leaves out only what a piece that
\* has ended had given up, and nothing at all if nothing has gone wrong.
THEOREM AllSentOrGivenUp == Spec => []SentOrGivenUp
<1>1. IInv => SentOrGivenUp
  <2> SUFFICES ASSUME IInv PROVE SentOrGivenUp
    OBVIOUS
  <2>1. "sender" \in Who
    BY TransfersAssumption DEF Who
  <2>2. \A i \in 1..(Len(stream) - 1) : stream[i] < stream[i + 1]
    <3>1. Len(stream) \in Nat
      BY LenProperties DEF IInv, Types
    <3>2. \A i \in 1..(Len(stream) - 1) : i \in 1..Len(stream) /\ i + 1 \in 1..Len(stream)
                                            /\ i < i + 1
      BY <3>1
    <3> QED BY <3>2 DEF IInv, Streamed
  <2>3. ~InPiece("sender") => Reach["sender"] = pos["sender"]
    BY <2>1, ReachBounds DEF InPiece
  <2>4. /\ ToSet(stream) \cap cut["sender"] = {}
        /\ ToSet(stream) \cup cut["sender"] = 0..(Reach["sender"] - 1)
    BY DEF IInv, Streamed
  <2>5. Undisturbed("sender") => cut["sender"] = {}
    BY DEF IInv, NeverShort
  <2> QED BY <2>2, <2>3, <2>4, <2>5 DEF SentOrGivenUp
<1> QED BY <1>1, Invariance, PTL

\* The receiver finds in its buffer what has left the stream, in order and each byte once,
\* in the cells of the pieces that asked for it, from their beginnings on.
THEOREM AllReceivedInOrder == Spec => []ReceivedInOrder
<1>1. IInv => ReceivedInOrder
  <2> SUFFICES ASSUME IInv PROVE ReceivedInOrder
    OBVIOUS
  <2>1. "receiver" \in Who
    BY TransfersAssumption DEF Who
  <2>2. ~InPiece("receiver") => Reach["receiver"] = pos["receiver"]
    BY <2>1, ReachBounds DEF InPiece
  <2> QED BY <2>2 DEF IInv, Buffered, ReceivedInOrder
<1> QED BY <1>1, Invariance, PTL

================================================================================
