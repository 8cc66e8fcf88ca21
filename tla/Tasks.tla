--------------------------------- MODULE Tasks ---------------------------------
(******************************************************************************)
(* sfap::task (include/sfap/utils/task.hpp): coroutine frames, and the stack  *)
(* of calls of each thread that executes them.                                *)
(*                                                                            *)
(* task resumes by calling: awaiting a task calls resume() on its frame, the  *)
(* end of a task calls resume() on its continuation, and none of these calls  *)
(* returns before the coroutine it has entered suspends or ends.  A thread's  *)
(* stack therefore holds calls of frames that are suspended, finished or even *)
(* destroyed, and another thread may resume a frame whose suspending call has *)
(* not returned yet.  This module has the frames and these calls; who awaits  *)
(* what is for the modules that extend it.                                    *)
(******************************************************************************)
EXTENDS Integers, Sequences

CONSTANTS
  Thread,
  Detached,     \* the tasks that are started on their own
  MaxDepth      \* tasks that await one another, at most

VARIABLES
  frame,        \* the coroutine frames by address
  stack         \* of each thread: the calls it is in, the outermost first

(* A coroutine awaits one task at a time, so an address is the detached task a *)
(* frame works for and its depth below it; it is used again and again, even    *)
(* while calls that have not returned yet still mention an earlier frame.      *)
Frame     == Detached \X (1..MaxDepth)
None      == << >>
Root(d)   == <<d, 1>>
CalleeOf(f) == <<f[1], f[2] + 1>>
NoValue == -2
Gone    == [state |-> "gone"]    \* no frame is at this address

(* A frame is "initial", "running", "suspended" or "final".  `continuation` is  *)
(* the promise's, `child` the temporary task of the co_await it is in, `value`  *)
(* what it returned or what its awaiter was given, `body` its local variables.  *)
NewFrame(state, continuation, body) ==
  [state |-> state, continuation |-> continuation, child |-> None, value |-> NoValue,
   body |-> body]

\* A call is in a coroutine's own code, in the await_suspend() of a co_await of it,
\* or in the await_suspend() of its final suspension point.
Calling(f, in)   == [frame |-> f, in |-> in]
Top(t)           == stack[t][Len(stack[t])]
Executes(t, f)   == stack[t] # << >> /\ Top(t) = Calling(f, "body")
Leaving(calls, in) == [calls EXCEPT ![Len(calls)].in = in]

-------------------------------------------------------------------------------
\* task::start_detached() on a thread that is in no other coroutine.
StartDetached(t, f) ==
  /\ stack[t] = << >> /\ frame[f].state = "initial"
  /\ frame' = [frame EXCEPT ![f].state = "running"]
  /\ stack' = [stack EXCEPT ![t] = << Calling(f, "body") >>]

\* Mutant: the awaited task is not told who awaits it.
CoAwaitUnlinked(t, f, locals, body) ==
  /\ Executes(t, f) /\ f[2] < MaxDepth
  /\ frame' = [frame EXCEPT ![f] = [@ EXCEPT !.state = "suspended", !.child = CalleeOf(f), !.body = locals],
                            ![CalleeOf(f)] = NewFrame("running", None, body)]
  /\ stack' = [stack EXCEPT ![t] = Leaving(@, "await") \o << Calling(CalleeOf(f), "body") >>]

\* co_await of a call of a coroutine: its frame is made, suspended at once, and
\* resumed by await_suspend() with f as its continuation.
CoAwait(t, f, locals, body) ==
  /\ Executes(t, f) /\ f[2] < MaxDepth
  /\ frame' = [frame EXCEPT ![f] = [@ EXCEPT !.state = "suspended", !.child = CalleeOf(f), !.body = locals],
                            ![CalleeOf(f)] = NewFrame("running", f, body)]
  /\ stack' = [stack EXCEPT ![t] = Leaving(@, "await") \o << Calling(CalleeOf(f), "body") >>]

\* Mutant: the frame is destroyed when it ends, as with std::suspend_never.
FinalSuspendNever(t, f) ==
  LET c == frame[f].continuation IN
  /\ Executes(t, f)
  /\ IF c = None
     THEN /\ frame' = [frame EXCEPT ![f] = Gone]
          /\ stack' = [stack EXCEPT ![t] = Leaving(@, "final")]
     ELSE /\ frame' = [frame EXCEPT ![f] = Gone, ![c].state = "running"]
          /\ stack' = [stack EXCEPT ![t] = Leaving(@, "final") \o << Calling(c, "body") >>]

\* co_return and the final suspension point: the continuation, if there is one,
\* is resumed from there.
FinalSuspend(t, f) ==
  LET c == frame[f].continuation IN
  /\ Executes(t, f)
  /\ IF c = None
     THEN /\ frame' = [frame EXCEPT ![f].state = "final"]
          /\ stack' = [stack EXCEPT ![t] = Leaving(@, "final")]
     ELSE /\ frame' = [frame EXCEPT ![f].state = "final", ![c].state = "running"]
          /\ stack' = [stack EXCEPT ![t] = Leaving(@, "final") \o << Calling(c, "body") >>]

\* await_resume() and the end of the co_await expression, which destroys the
\* temporary task and its frame: f goes on with these locals.
AwaitResume(t, f, locals) ==
  /\ Executes(t, f) /\ frame[f].child # None
  /\ frame' = [frame EXCEPT ![f] = [@ EXCEPT !.child = None, !.body = locals],
                            ![frame[f].child] = Gone]
  /\ UNCHANGED stack

\* co_await of something that will resume f later.
Suspend(t, f) ==
  /\ Executes(t, f)
  /\ frame' = [frame EXCEPT ![f].state = "suspended"]
  /\ stack' = [stack EXCEPT ![t] = Leaving(@, "await")]

\* co_await of something that has an answer already and calls resume() itself.
ResumeInside(t, f, value) ==
  /\ Executes(t, f)
  /\ frame' = [frame EXCEPT ![f].value = value]
  /\ stack' = [stack EXCEPT ![t] = Leaving(@, "await") \o << Calling(f, "body") >>]

\* resume() by a thread that is in no coroutine.
Resume(t, f, value) ==
  /\ stack[t] = << >>
  /\ frame' = [frame EXCEPT ![f].state = "running", ![f].value = value]
  /\ stack' = [stack EXCEPT ![t] = << Calling(f, "body") >>]

\* The innermost call returns.  What is left of an await_suspend() after its call
\* of resume() or its submission touches neither the frame nor the awaiter.
Unwind(t) ==
  /\ stack[t] # << >> /\ Top(t).in # "body"
  /\ stack' = [stack EXCEPT ![t] = SubSeq(@, 1, Len(@) - 1)]
  /\ UNCHANGED frame

-------------------------------------------------------------------------------
\* The threads that are in a coroutine's own code.
Active == {t \in Thread : stack[t] # << >> /\ Top(t).in = "body"}

\* A coroutine's code is executed by exactly one call while its frame is running and
\* by none otherwise: no frame is resumed twice, before it has suspended, after it
\* has finished or after it was destroyed, however the calls are nested and
\* whichever threads make them.
OneActivation ==
  /\ {f \in Frame : frame[f].state = "running"} = {Top(t).frame : t \in Active}
  /\ \A t, u \in Active : Top(t).frame = Top(u).frame => t = u

\* A coroutine waits in a co_await exactly as long as the task it awaits: that task
\* is there and will resume it, and a coroutine that goes on after a co_await finds
\* the task finished.  Every frame but the outermost is such a task's, so none leaks.
AwaitsPaired ==
  /\ \A f \in Frame : frame[f] # Gone /\ frame[f].child # None =>
       LET g == frame[f].child IN
       /\ frame[g] # Gone /\ frame[g].continuation = f
       /\ (frame[g].state = "final") <=> (frame[f].state = "running")
  /\ \A g \in Frame : frame[g] # Gone /\ frame[g].continuation # None =>
       LET f == frame[g].continuation IN frame[f] # Gone /\ frame[f].child = g

================================================================================
