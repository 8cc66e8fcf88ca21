------------------------------ MODULE AsyncCalls -------------------------------
(******************************************************************************)
(* What a coroutine may rely on when it awaits an operation of the proactor,  *)
(* with no ring, no table and no event loop: a call is asked of the kernel,   *)
(* answered once, and only then returns, once, with what the answer means; or *)
(* it is declined at once, with an error or with no byte transferred.         *)
(******************************************************************************)
EXTENDS Integers

CONSTANTS
  Client,
  Kind,        \* operations
  Result       \* what the kernel may answer: a negative number is an error

VARIABLES
  phase,       \* of each client: "ready", "asked", "answered" or "returning"
  kind,        \* the operation it is in
  value        \* the kernel's answer, or what the call returns

vars == <<phase, kind, value>>

Idle    == "none"
Nothing == -2
Error   == -1

\* What an answer means to the caller: the time a sleep has waited for is up
\* however the kernel puts it.
Means(k, result) == IF k = "sleep" THEN 0 ELSE IF result < 0 THEN Error ELSE result

Init ==
  /\ phase = [c \in Client |-> "ready"]
  /\ kind = [c \in Client |-> Idle] /\ value = [c \in Client |-> Nothing]

Step(c, before, after, k, v) ==
  /\ phase[c] = before
  /\ phase' = [phase EXCEPT ![c] = after]
  /\ kind' = [kind EXCEPT ![c] = k] /\ value' = [value EXCEPT ![c] = v]

Ask(c)     == \E k \in Kind : Step(c, "ready", "asked", k, Nothing)
Decline(c) == \E k \in Kind, v \in {Error, 0} :
                (v = 0 => k \in {"send", "recv"}) /\ Step(c, "ready", "returning", k, v)
Answer(c)  == \E result \in Result : Step(c, "asked", "answered", kind[c], result)
Resume(c)  == Step(c, "answered", "returning", kind[c], Means(kind[c], value[c]))
Return(c)  == Step(c, "returning", "ready", Idle, Nothing)

Next == \E c \in Client : Ask(c) \/ Decline(c) \/ Answer(c) \/ Resume(c) \/ Return(c)

Spec == Init /\ [][Next]_vars

================================================================================
