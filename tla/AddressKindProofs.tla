--------------------------- MODULE AddressKindProofs ---------------------------
(******************************************************************************)
(* resolve and is_fqdn compute, for every answer and every text, what their   *)
(* descriptions without a loop say.                                           *)
(*                                                                            *)
(* Each proof follows the loop: its turns are a function of their number      *)
(* (LoopRuns), an invariant holds after each (UpTo), and what it says after   *)
(* the last is the result.                                                    *)
(******************************************************************************)
EXTENDS AddressKind, NumberLemmas, SequenceTheorems

-------------------------------------------------------------------------------
(* resolve *)

\* An IP address is one of the two families.
Families(S) == \A a \in S : a.family \in {"v4", "v6"}

\* What the loop may hold.
FoundStates(S) == [v4 : S \cup {NoAddress}, v6 : S \cup {NoAddress}, done : BOOLEAN]

\* What a turn of the loop does when it stores an address.
Store4(b, a, d) == [b EXCEPT !.v4 = a, !.done = d]
Store6(b, a, d) == [b EXCEPT !.v6 = a, !.done = d]

\* Storing an address of one family leaves the other.
LEMMA FoundSet ==
  ASSUME NEW S, NEW b \in FoundStates(S), NEW a \in S, NEW d \in BOOLEAN
  PROVE  /\ LET c == Store4(b, a, d) IN
            c \in FoundStates(S) /\ c.v4 = a /\ c.v6 = b.v6 /\ c.done = d
         /\ LET c == Store6(b, a, d) IN
            c \in FoundStates(S) /\ c.v4 = b.v4 /\ c.v6 = a /\ c.done = d
BY DEF FoundStates, Store4, Store6

\* A turn of the loop stores an address of the answer, or nothing.
LEMMA FoundStepMade ==
  ASSUME NEW S, NEW list \in Seq(S), NEW mode, NEW b \in FoundStates(S), NEW i \in 1..Len(list)
  PROVE  FoundStep(list, mode, b, i) \in FoundStates(S)
<1>1. list[i] \in S
  OBVIOUS
<1> DEFINE first4 == ~b.done /\ list[i].family = "v4" /\ b.v4 = NoAddress
           first6 == ~b.done /\ list[i].family = "v6" /\ b.v6 = NoAddress
           done4  == Prefers(mode) = "v4" \/ b.v6 # NoAddress
           done6  == Prefers(mode) = "v6" \/ b.v4 # NoAddress
<1>2. first4 => FoundStep(list, mode, b, i) = Store4(b, list[i], done4)
  BY DEF FoundStep, Store4
<1>3. ~first4 /\ first6 => FoundStep(list, mode, b, i) = Store6(b, list[i], done6)
  BY DEF FoundStep, Store6
<1>4. ~first4 /\ ~first6 => FoundStep(list, mode, b, i) = b
  BY DEF FoundStep
<1>5. done4 \in BOOLEAN /\ done6 \in BOOLEAN
  OBVIOUS
<1> HIDE DEF done4, done6, first4, first6
<1>6. Store4(b, list[i], done4) \in FoundStates(S)
  BY <1>1, <1>5, FoundSet
<1>7. Store6(b, list[i], done6) \in FoundStates(S)
  BY <1>1, <1>5, FoundSet
<1> QED
  BY <1>2, <1>3, <1>4, <1>6, <1>7

\* The loop of resolve: its states, turn by turn, and its result.
FoundLoop(f, list, mode) ==
  /\ f[0] = FoundStart
  /\ \A i \in 1..Len(list) : f[i] = FoundStep(list, mode, f[i - 1], i)
  /\ Found(list, mode) = f[Len(list)]

LEMMA FoundRuns ==
  ASSUME NEW S, NEW list \in Seq(S), NEW mode
  PROVE  \E f : FoundLoop(f, list, mode)
<1> DEFINE N == Len(list)
           State == FoundStates(S)
           F == [x \in State \X (1..N) |-> FoundStep(list, mode, x[1], x[2])]
           Loop(f) == f = [i \in 0..N |-> IF i = 0 THEN FoundStart ELSE FoundStep(list, mode, f[i - 1], i)]
           after == CHOOSE f : Loop(f)
<1>1. N \in Nat /\ FoundStart \in State
  BY DEF FoundStart, FoundStates
<1>2. F \in [State \X (1..N) -> State]
  BY FoundStepMade
<1>3. Found(list, mode) = after[N]
  BY DEF Found
<1>4. \E g : Loop(g)
  <2> HIDE DEF F, State
  <2>1. PICK g \in [0..N -> State] : Turns(g, FoundStart, F, N)
    BY <1>1, <1>2, LoopRuns
  <2>2. \A i \in 1..N : g[i] = F[<<g[i - 1], i>>] /\ g[i - 1] \in State
    BY <1>1, <2>1 DEF Turns
  <2>3. \A i \in 1..N : g[i] = FoundStep(list, mode, g[i - 1], i)
    BY <2>2 DEF F
  <2>4. g[0] = FoundStart /\ g = [i \in 0..N |-> g[i]]
    BY <2>1 DEF Turns
  <2>5. ASSUME NEW i \in 0..N PROVE g[i] = IF i = 0 THEN FoundStart ELSE FoundStep(list, mode, g[i - 1], i)
    <3>1. CASE i = 0
      BY <2>4, <3>1
    <3>2. CASE i # 0
      <4>1. i \in 1..N
        BY <1>1, <3>2
      <4> QED
        BY <2>3, <3>2, <4>1
    <3> QED
      BY <3>1, <3>2
  <2>6. Loop(g)
    BY <2>4, <2>5
  <2> HIDE DEF Loop
  <2> QED
    BY <2>6
<1> HIDE DEF Loop
<1>5. Loop(after)
  BY <1>4
<1> HIDE DEF after
<1>6. /\ after[0] = FoundStart
      /\ \A i \in 1..N : after[i] = FoundStep(list, mode, after[i - 1], i)
  <2>1. after = [i \in 0..N |-> IF i = 0 THEN FoundStart ELSE FoundStep(list, mode, after[i - 1], i)]
    BY <1>5 DEF Loop
  <2> HIDE DEF N
  <2> QED
    BY <1>1, <2>1
<1>7. FoundLoop(after, list, mode)
  BY <1>3, <1>6 DEF FoundLoop
<1> QED
  BY <1>7

\* After i addresses: what is held of a family is the first of it, and nothing is held
\* only while there was none, unless the loop has ended.
Holds(list, a, family, done, i) ==
  IF a = NoAddress THEN done \/ \A j \in 1..i : list[j].family # family
  ELSE \E j \in 1..i : /\ a = list[j] /\ a.family = family
                       /\ \A k \in 1..(j - 1) : list[k].family # family

\* The loop ends only once an address of the preferred family is held.
FoundSoFar(S, list, mode, b, i) ==
  /\ b \in FoundStates(S)
  /\ Holds(list, b.v4, "v4", b.done, i) /\ Holds(list, b.v6, "v6", b.done, i)
  /\ b.done => IF Prefers(mode) = "v4" THEN b.v4 # NoAddress ELSE b.v6 # NoAddress

\* What is held stays right when an address of another family comes, or when one was held.
LEMMA HoldsOn ==
  ASSUME NEW list, NEW a, NEW family, NEW done \in BOOLEAN, NEW now \in BOOLEAN, NEW i \in Nat \ {0},
         Holds(list, a, family, done, i - 1), done => now,
         a = NoAddress => now \/ list[i].family # family
  PROVE  Holds(list, a, family, now, i)
<1>1. CASE a = NoAddress
  <2>1. done \/ \A j \in 1..(i - 1) : list[j].family # family
    BY <1>1 DEF Holds
  <2>2. now \/ \A j \in 1..i : list[j].family # family
    <3>1. 1..i = (1..(i - 1)) \cup {i}
      OBVIOUS
    <3> QED
      BY <1>1, <2>1, <3>1
  <2> QED
    BY <1>1, <2>2 DEF Holds
<1>2. CASE a # NoAddress
  <2>1. PICK j \in 1..(i - 1) : /\ a = list[j] /\ a.family = family
                                /\ \A k \in 1..(j - 1) : list[k].family # family
    BY <1>2 DEF Holds
  <2>2. j \in 1..i
    OBVIOUS
  <2> QED
    BY <1>2, <2>1, <2>2 DEF Holds
<1> QED
  BY <1>1, <1>2

\* The first of its family is taken.
LEMMA HoldsNew ==
  ASSUME NEW list, NEW a, NEW family, NEW done, NEW now \in BOOLEAN, NEW i \in Nat \ {0},
         a = NoAddress, ~done, Holds(list, a, family, done, i - 1), list[i].family = family, list[i] # NoAddress
  PROVE  Holds(list, list[i], family, now, i)
<1>1. \A j \in 1..(i - 1) : list[j].family # family
  BY DEF Holds
<1>2. i \in 1..i
  OBVIOUS
<1> QED
  BY <1>1, <1>2 DEF Holds

\* A turn keeps the invariant.
LEMMA FoundInduction ==
  ASSUME NEW S, Families(S), NEW list \in Seq(S), NEW mode, NEW b, NEW i \in 1..Len(list),
         FoundSoFar(S, list, mode, b, i - 1)
  PROVE  FoundSoFar(S, list, mode, FoundStep(list, mode, b, i), i)
<1> DEFINE c == FoundStep(list, mode, b, i)
<1>1. b \in FoundStates(S)
  BY DEF FoundSoFar
<1>2. c \in FoundStates(S)
  BY <1>1, FoundStepMade
<1>3. list[i] \in S /\ i \in Nat \ {0}
  OBVIOUS
<1>4. list[i].family \in {"v4", "v6"}
  BY <1>3 DEF Families
<1>5. NoAddress.family = "none"
  BY DEF NoAddress
<1>6. list[i] # NoAddress
  BY <1>4, <1>5
<1>7. /\ b.v4 \in S \cup {NoAddress} /\ b.v6 \in S \cup {NoAddress} /\ b.done \in BOOLEAN
  BY <1>1 DEF FoundStates
<1>8. Holds(list, b.v4, "v4", b.done, i - 1) /\ Holds(list, b.v6, "v6", b.done, i - 1)
  BY DEF FoundSoFar
<1>9. b.done => IF Prefers(mode) = "v4" THEN b.v4 # NoAddress ELSE b.v6 # NoAddress
  BY DEF FoundSoFar
<1>10. Prefers(mode) \in {"v4", "v6"}
  BY DEF Prefers
<1>11. c.done \in BOOLEAN
  BY <1>2 DEF FoundStates
<1>12. CASE ~b.done /\ list[i].family = "v4" /\ b.v4 = NoAddress
  <2> DEFINE done == Prefers(mode) = "v4" \/ b.v6 # NoAddress
  <2>1. c = Store4(b, list[i], done)
    BY <1>12 DEF FoundStep, Store4
  <2>2. c.v4 = list[i] /\ c.v6 = b.v6 /\ c.done = done
    <3>1. done \in BOOLEAN
      OBVIOUS
    <3> HIDE DEF done, c
    <3> QED
      BY <1>1, <1>3, <2>1, <3>1, FoundSet
  <2> HIDE DEF c
  <2>3. Holds(list, c.v4, "v4", c.done, i)
    <3>1. b.v4 = NoAddress /\ ~b.done /\ list[i].family = "v4"
      BY <1>12
    <3>2. Holds(list, b.v4, "v4", b.done, i - 1)
      BY <1>8
    <3>3. Holds(list, list[i], "v4", c.done, i)
      BY <1>3, <1>6, <1>11, <3>1, <3>2, HoldsNew
    <3> QED
      BY <2>2, <3>3
  <2>4. Holds(list, c.v6, "v6", c.done, i)
    BY <1>3, <1>7, <1>8, <1>11, <1>12, <2>2, HoldsOn
  <2>5. c.done => IF Prefers(mode) = "v4" THEN c.v4 # NoAddress ELSE c.v6 # NoAddress
    BY <1>6, <2>2
  <2> QED
    BY <1>2, <2>3, <2>4, <2>5 DEF FoundSoFar, c
<1>13. CASE ~b.done /\ list[i].family = "v6" /\ b.v6 = NoAddress
  <2> DEFINE done == Prefers(mode) = "v6" \/ b.v4 # NoAddress
  <2>1. c = Store6(b, list[i], done)
    BY <1>13 DEF FoundStep, Store6
  <2>2. c.v6 = list[i] /\ c.v4 = b.v4 /\ c.done = done
    <3>1. done \in BOOLEAN
      OBVIOUS
    <3> HIDE DEF done, c
    <3> QED
      BY <1>1, <1>3, <2>1, <3>1, FoundSet
  <2> HIDE DEF c
  <2>3. Holds(list, c.v6, "v6", c.done, i)
    <3>1. b.v6 = NoAddress /\ ~b.done /\ list[i].family = "v6"
      BY <1>13
    <3>2. Holds(list, b.v6, "v6", b.done, i - 1)
      BY <1>8
    <3>3. Holds(list, list[i], "v6", c.done, i)
      BY <1>3, <1>6, <1>11, <3>1, <3>2, HoldsNew
    <3> QED
      BY <2>2, <3>3
  <2>4. Holds(list, c.v4, "v4", c.done, i)
    BY <1>3, <1>7, <1>8, <1>11, <1>13, <2>2, HoldsOn
  <2>5. c.done => IF Prefers(mode) = "v4" THEN c.v4 # NoAddress ELSE c.v6 # NoAddress
    BY <1>6, <1>10, <2>2
  <2> QED
    BY <1>2, <2>3, <2>4, <2>5 DEF FoundSoFar, c
<1>14. CASE /\ ~(~b.done /\ list[i].family = "v4" /\ b.v4 = NoAddress)
            /\ ~(~b.done /\ list[i].family = "v6" /\ b.v6 = NoAddress)
  <2>1. c = b
    BY <1>14 DEF FoundStep
  <2> HIDE DEF c
  <2>2. Holds(list, b.v4, "v4", b.done, i)
    BY <1>3, <1>7, <1>8, <1>14, HoldsOn
  <2>3. Holds(list, b.v6, "v6", b.done, i)
    BY <1>3, <1>7, <1>8, <1>14, HoldsOn
  <2> QED
    BY <1>1, <1>9, <2>1, <2>2, <2>3 DEF FoundSoFar, c
<1> QED
  BY <1>12, <1>13, <1>14

\* The invariant after the last turn.
LEMMA FoundAll ==
  ASSUME NEW S, Families(S), NEW list \in Seq(S), NEW mode
  PROVE  FoundSoFar(S, list, mode, Found(list, mode), Len(list))
<1>1. PICK f : FoundLoop(f, list, mode)
  BY FoundRuns
<1> DEFINE N == Len(list)
           T == {i \in 0..N : FoundSoFar(S, list, mode, f[i], i)}
<1>2. N \in Nat
  OBVIOUS
<1>3. 0 \in T
  <2>1. f[0] = [v4 |-> NoAddress, v6 |-> NoAddress, done |-> FALSE]
    BY <1>1 DEF FoundLoop, FoundStart
  <2>2. FoundSoFar(S, list, mode, f[0], 0)
    BY <2>1 DEF FoundSoFar, FoundStates, Holds
  <2> QED
    BY <1>2, <2>2
<1>4. ASSUME NEW i \in 0..(N - 1), i \in T PROVE i + 1 \in T
  <2>1. FoundSoFar(S, list, mode, f[i], i) /\ i + 1 \in 1..N /\ (i + 1) - 1 = i
    BY <1>2, <1>4
  <2>2. f[i + 1] = FoundStep(list, mode, f[i], i + 1)
    BY <1>1, <2>1 DEF FoundLoop
  <2>3. FoundSoFar(S, list, mode, FoundStep(list, mode, f[i], i + 1), i + 1)
    BY <2>1, FoundInduction
  <2>4. i + 1 \in 0..N
    BY <1>2, <2>1
  <2> HIDE DEF N
  <2> QED
    BY <2>2, <2>3, <2>4
<1> HIDE DEF T, N
<1>5. N \in 0..N
  BY <1>2
<1>6. N \in T
  BY <1>2, <1>3, <1>4, <1>5, UpTo
<1> QED
  BY <1>1, <1>6 DEF FoundLoop, T, N

\* What is held is the first of its family.
LEMMA HeldIsFirst ==
  ASSUME NEW list, NEW a, NEW family, NEW done, Len(list) \in Nat, Holds(list, a, family, done, Len(list))
  PROVE  /\ a # NoAddress => a \in FirstOf(list, family)
         /\ a = NoAddress /\ ~done => FirstOf(list, family) = {}
BY DEF Holds, FirstOf

\* resolve takes the first address of the preferred family, wherever it stands in the
\* answer, and otherwise the first of the other family, if that may serve.
LEMMA ResolveTakes ==
  ASSUME NEW S, Families(S), NEW list \in Seq(S), NEW mode \in Modes
  PROVE  Resolve(list, mode) \in Taken(list, mode) /\ Resolve(list, mode) \in S \cup {NoAddress}
<1> DEFINE b == Found(list, mode)
           P == Prefers(mode)
           Q == Other(P)
<1>1. FoundSoFar(S, list, mode, b, Len(list)) /\ Len(list) \in Nat
  BY FoundAll
<1> HIDE DEF b
<1>2. b \in FoundStates(S) /\ P \in {"v4", "v6"}
  BY <1>1 DEF FoundSoFar, Prefers
<1>3. /\ b[P] \in S \cup {NoAddress} /\ b[Q] \in S \cup {NoAddress}
      /\ Holds(list, b[P], P, b.done, Len(list)) /\ Holds(list, b[Q], Q, b.done, Len(list))
      /\ b.done => b[P] # NoAddress
  <2>1. /\ b.v4 \in S \cup {NoAddress} /\ b.v6 \in S \cup {NoAddress}
        /\ Holds(list, b.v4, "v4", b.done, Len(list)) /\ Holds(list, b.v6, "v6", b.done, Len(list))
        /\ b.done => IF P = "v4" THEN b.v4 # NoAddress ELSE b.v6 # NoAddress
    BY <1>1, <1>2 DEF FoundSoFar, FoundStates
  <2>2. CASE P = "v4"
    <3>1. Q = "v6"
      BY <2>2 DEF Other
    <3> QED
      BY <2>1, <2>2, <3>1
  <2>3. CASE P = "v6"
    <3>1. Q = "v4"
      BY <2>3 DEF Other
    <3> QED
      BY <2>1, <2>3, <3>1
  <2> QED
    BY <1>2, <2>2, <2>3
<1>4. mode \in {"REQUIRE_IPV4", "REQUIRE_IPV6"} <=> mode \notin {"PREFER_IPV4", "PREFER_IPV6"}
  BY DEF Modes
<1>5. Resolve(list, mode) = IF b[P] # NoAddress \/ mode \in {"REQUIRE_IPV4", "REQUIRE_IPV6"} THEN b[P] ELSE b[Q]
  BY DEF Resolve, b
<1> HIDE DEF P, Q
<1> QED
  BY <1>1, <1>3, <1>4, <1>5, HeldIsFirst DEF Taken, Preferred, P, Q

-------------------------------------------------------------------------------
(* is_fqdn *)

LabelStates == [ok : BOOLEAN, labels : Nat, start : Nat, len : Nat]

\* The two kinds of turns of the loop.
EndLabel(s, b, i) == [ok |-> b.ok /\ CheckLabel(s, b.start + 1, b.len), labels |-> b.labels + 1, start |-> i, len |-> 0]
OneMore(b) == [b EXCEPT !.len = @ + 1]

\* A turn at a dot ends a label, and any other makes it longer.
LEMMA LabelStepMade ==
  ASSUME NEW s, NEW b \in LabelStates, NEW i \in Nat
  PROVE  /\ LabelStep(s, b, i) \in LabelStates
         /\ s[i] = "." => LET c == LabelStep(s, b, i) IN
              /\ c.ok <=> b.ok /\ CheckLabel(s, b.start + 1, b.len)
              /\ c.labels = b.labels + 1 /\ c.start = i /\ c.len = 0
         /\ s[i] # "." => LET c == LabelStep(s, b, i) IN
              (c.ok <=> b.ok) /\ c.labels = b.labels /\ c.start = b.start /\ c.len = b.len + 1
<1>1. CASE s[i] = "."
  <2> DEFINE c == EndLabel(s, b, i)
  <2>1. LabelStep(s, b, i) = c
    BY <1>1 DEF LabelStep, EndLabel
  <2>2. c \in LabelStates
    <3>1. (b.ok /\ CheckLabel(s, b.start + 1, b.len)) \in BOOLEAN
      OBVIOUS
    <3> DEFINE ok == b.ok /\ CheckLabel(s, b.start + 1, b.len)
    <3>2. b.labels + 1 \in Nat
      BY DEF LabelStates
    <3> HIDE DEF ok
    <3>3. [ok |-> ok, labels |-> b.labels + 1, start |-> i, len |-> 0] \in LabelStates
      BY <3>1, <3>2 DEF LabelStates, ok
    <3> QED
      BY <3>3 DEF EndLabel, ok
  <2>3. /\ c.ok <=> b.ok /\ CheckLabel(s, b.start + 1, b.len)
        /\ c.labels = b.labels + 1 /\ c.start = i /\ c.len = 0
    BY DEF EndLabel
  <2> HIDE DEF c
  <2> QED
    BY <1>1, <2>1, <2>2, <2>3
<1>2. CASE s[i] # "."
  <2> DEFINE c == OneMore(b)
  <2>1. LabelStep(s, b, i) = c
    BY <1>2 DEF LabelStep, OneMore
  <2>2. c \in LabelStates
    BY DEF OneMore, LabelStates
  <2>3. c.ok = b.ok /\ c.labels = b.labels /\ c.start = b.start /\ c.len = b.len + 1
    BY DEF OneMore, LabelStates
  <2> HIDE DEF c
  <2> QED
    BY <1>2, <2>1, <2>2, <2>3
<1> QED
  BY <1>1, <1>2

\* The loop of is_fqdn: its states, turn by turn, and its result.
LabelLoop(f, s) ==
  /\ f[0] = LabelStart
  /\ \A i \in 1..Len(s) : f[i] = LabelStep(s, f[i - 1], i)
  /\ Labels(s) = f[Len(s)]

LEMMA LabelRuns ==
  ASSUME NEW s, Len(s) \in Nat
  PROVE  \E f : LabelLoop(f, s)
<1> DEFINE N == Len(s)
           State == LabelStates
           F == [x \in State \X (1..N) |-> LabelStep(s, x[1], x[2])]
           Loop(f) == f = [i \in 0..N |-> IF i = 0 THEN LabelStart ELSE LabelStep(s, f[i - 1], i)]
           after == CHOOSE f : Loop(f)
<1>1. N \in Nat /\ LabelStart \in State
  BY DEF LabelStart, LabelStates
<1>2. F \in [State \X (1..N) -> State]
  BY <1>1, LabelStepMade
<1>3. Labels(s) = after[N]
  BY DEF Labels
<1>4. \E g : Loop(g)
  <2> HIDE DEF F, State
  <2>1. PICK g \in [0..N -> State] : Turns(g, LabelStart, F, N)
    BY <1>1, <1>2, LoopRuns
  <2>2. \A i \in 1..N : g[i] = F[<<g[i - 1], i>>] /\ g[i - 1] \in State
    BY <1>1, <2>1 DEF Turns
  <2>3. \A i \in 1..N : g[i] = LabelStep(s, g[i - 1], i)
    BY <2>2 DEF F
  <2>4. g[0] = LabelStart /\ g = [i \in 0..N |-> g[i]]
    BY <2>1 DEF Turns
  <2>5. ASSUME NEW i \in 0..N PROVE g[i] = IF i = 0 THEN LabelStart ELSE LabelStep(s, g[i - 1], i)
    <3>1. CASE i = 0
      BY <2>4, <3>1
    <3>2. CASE i # 0
      <4>1. i \in 1..N
        BY <1>1, <3>2
      <4> QED
        BY <2>3, <3>2, <4>1
    <3> QED
      BY <3>1, <3>2
  <2>6. Loop(g)
    BY <2>4, <2>5
  <2> HIDE DEF Loop
  <2> QED
    BY <2>6
<1> HIDE DEF Loop
<1>5. Loop(after)
  BY <1>4
<1> HIDE DEF after
<1>6. /\ after[0] = LabelStart
      /\ \A i \in 1..N : after[i] = LabelStep(s, after[i - 1], i)
  <2>1. after = [i \in 0..N |-> IF i = 0 THEN LabelStart ELSE LabelStep(s, after[i - 1], i)]
    BY <1>5 DEF Loop
  <2> HIDE DEF N
  <2> QED
    BY <1>1, <2>1
<1>7. LabelLoop(after, s)
  BY <1>3, <1>6 DEF LabelLoop
<1> QED
  BY <1>7

\* The places where labels begin and end.
Cuts(s) == {0, Len(s) + 1} \cup {i \in 1..Len(s) : s[i] = "."}

\* Two neighbouring ones.
IsSpan(s, a, e) == a \in Cuts(s) /\ e \in Cuts(s) /\ a < e /\ ~\E c \in Cuts(s) : a < c /\ c < e

LEMMA Spans ==
  ASSUME NEW s
  PROVE  /\ \A span \in LabelSpans(s) : span = <<span[1], span[2]>> /\ IsSpan(s, span[1], span[2])
         /\ \A a, e : IsSpan(s, a, e) => <<a, e>> \in LabelSpans(s)
BY DEF LabelSpans, IsSpan, Cuts

\* The check of the label between two cuts.
CheckSpan(s, a, e) == CheckLabel(s, a + 1, e - a - 1)

\* Every label that ends before i or at it is right.
CheckedTo(s, i) == \A a, e : IsSpan(s, a, e) /\ e <= i => CheckSpan(s, a, e)

\* a is the last cut up to i.
LastCut(s, a, i) == a \in 0..i /\ (a = 0 \/ s[a] = ".") /\ \A j \in (a + 1)..i : s[j] # "."

\* After i characters: the label at hand starts after the last dot, and those before it
\* are checked.
LabelsSoFar(s, b, i) ==
  /\ b \in LabelStates /\ LastCut(s, b.start, i) /\ b.len = i - b.start
  /\ b.labels = 0 <=> b.start = 0
  /\ b.ok <=> CheckedTo(s, i)

\* The label that ends at a cut starts after the last cut before it.
LEMMA SpanEnds ==
  ASSUME NEW s, Len(s) \in Nat, NEW i \in 1..(Len(s) + 1), NEW a, LastCut(s, a, i - 1)
  PROVE  /\ i \in Cuts(s) => IsSpan(s, a, i)
         /\ \A x : IsSpan(s, x, i) => x = a
<1>1. a \in 0..(i - 1) /\ a \in Cuts(s)
  BY DEF LastCut, Cuts
<1>2. ASSUME NEW c \in Cuts(s), a < c PROVE c >= i /\ c \in Int
  <2>1. c \in 0..(Len(s) + 1)
    BY DEF Cuts
  <2>2. CASE c = Len(s) + 1
    BY <2>2
  <2>3. CASE c \in 1..Len(s) /\ s[c] = "."
    <3>1. c \notin (a + 1)..(i - 1)
      BY <2>3 DEF LastCut
    <3> QED
      BY <1>1, <1>2, <2>1, <3>1
  <2> QED
    BY <1>1, <1>2, <2>1, <2>2, <2>3 DEF Cuts
<1>3. ASSUME i \in Cuts(s) PROVE IsSpan(s, a, i)
  BY <1>1, <1>2, <1>3 DEF IsSpan
<1>4. ASSUME NEW x, IsSpan(s, x, i) PROVE x = a
  <2>1. x \in Cuts(s) /\ x < i /\ ~(x < a /\ a < i)
    BY <1>1, <1>4 DEF IsSpan
  <2>2. x \in Int
    BY <2>1 DEF Cuts
  <2>3. ~(a < x)
    BY <1>2, <2>1, <2>2
  <2> QED
    BY <1>1, <2>1, <2>2, <2>3
<1> QED
  BY <1>3, <1>4

\* A turn keeps the invariant.
LEMMA LabelInduction ==
  ASSUME NEW s, Len(s) \in Nat, NEW b, NEW i \in 1..Len(s), LabelsSoFar(s, b, i - 1)
  PROVE  LabelsSoFar(s, LabelStep(s, b, i), i)
<1> DEFINE c == LabelStep(s, b, i)
<1>1. /\ b \in LabelStates /\ LastCut(s, b.start, i - 1) /\ b.len = (i - 1) - b.start
      /\ b.labels = 0 <=> b.start = 0
      /\ b.ok <=> CheckedTo(s, i - 1)
  BY DEF LabelsSoFar
<1>2. i \in Nat \ {0} /\ i \in 1..(Len(s) + 1) /\ i # Len(s) + 1
  OBVIOUS
<1>3. c \in LabelStates
  BY <1>1, <1>2, LabelStepMade
<1>4. b.labels \in Nat /\ b.start \in Nat /\ b.len \in Nat /\ b.start \in 0..(i - 1)
  BY <1>1 DEF LabelStates, LastCut
<1>5. CASE s[i] = "."
  <2>1. /\ c.ok <=> b.ok /\ CheckLabel(s, b.start + 1, b.len)
        /\ c.labels = b.labels + 1 /\ c.start = i /\ c.len = 0
    BY <1>1, <1>2, <1>5, LabelStepMade
  <2> HIDE DEF c
  <2>2. i \in Cuts(s)
    BY <1>5 DEF Cuts
  <2>3. IsSpan(s, b.start, i) /\ \A x : IsSpan(s, x, i) => x = b.start
    BY <1>1, <1>2, <2>2, SpanEnds
  <2>4. i - b.start - 1 = b.len
    BY <1>1, <1>2, <1>4
  <2>5. CheckSpan(s, b.start, i) <=> CheckLabel(s, b.start + 1, b.len)
    BY <2>4 DEF CheckSpan
  <2>6. CheckedTo(s, i) <=> CheckedTo(s, i - 1) /\ CheckSpan(s, b.start, i)
    <3>1. ASSUME CheckedTo(s, i) PROVE CheckedTo(s, i - 1) /\ CheckSpan(s, b.start, i)
      <4>1. ASSUME NEW a, NEW e, IsSpan(s, a, e), e <= i - 1 PROVE CheckSpan(s, a, e)
        <5>1. e \in Int
          BY <4>1 DEF IsSpan, Cuts
        <5>2. e <= i
          BY <1>2, <4>1, <5>1
        <5> QED
          BY <3>1, <4>1, <5>2 DEF CheckedTo
      <4>2. CheckSpan(s, b.start, i)
        BY <1>2, <2>3, <3>1 DEF CheckedTo
      <4> QED
        BY <4>1, <4>2 DEF CheckedTo
    <3>2. ASSUME CheckedTo(s, i - 1), CheckSpan(s, b.start, i) PROVE CheckedTo(s, i)
      <4>1. ASSUME NEW a, NEW e, IsSpan(s, a, e), e <= i PROVE CheckSpan(s, a, e)
        <5>1. e \in Int
          BY <4>1 DEF IsSpan, Cuts
        <5>2. e = i \/ e <= i - 1
          BY <1>2, <4>1, <5>1
        <5>3. CASE e = i
          BY <2>3, <3>2, <4>1, <5>3
        <5>4. CASE e <= i - 1
          BY <3>2, <4>1, <5>4 DEF CheckedTo
        <5> QED
          BY <5>2, <5>3, <5>4
      <4> QED
        BY <4>1 DEF CheckedTo
    <3> QED
      BY <3>1, <3>2
  <2>7. c.ok <=> CheckedTo(s, i)
    BY <1>1, <2>1, <2>5, <2>6
  <2>8. LastCut(s, c.start, i)
    BY <1>2, <1>5, <2>1 DEF LastCut
  <2>9. c.len = i - c.start /\ (c.labels = 0 <=> c.start = 0)
    BY <1>2, <1>4, <2>1
  <2> QED
    BY <1>3, <2>7, <2>8, <2>9 DEF LabelsSoFar, c
<1>6. CASE s[i] # "."
  <2>1. (c.ok <=> b.ok) /\ c.labels = b.labels /\ c.start = b.start /\ c.len = b.len + 1
    <3>1. b \in LabelStates /\ i \in Nat
      BY <1>1, <1>2
    <3> QED
      BY <1>6, <3>1, LabelStepMade, Zenon
  <2> HIDE DEF c
  <2>2. i \notin Cuts(s)
    BY <1>2, <1>6 DEF Cuts
  <2>3. CheckedTo(s, i) <=> CheckedTo(s, i - 1)
    <3>1. ASSUME NEW a, NEW e, IsSpan(s, a, e) PROVE e <= i <=> e <= i - 1
      <4>1. e \in Int /\ e # i
        BY <2>2, <3>1 DEF IsSpan, Cuts
      <4> QED
        BY <1>2, <4>1
    <3> QED
      BY <3>1 DEF CheckedTo
  <2>4. LastCut(s, c.start, i)
    <3>1. c.start \in 0..i /\ (c.start = 0 \/ s[c.start] = ".")
      BY <1>1, <1>2, <2>1 DEF LastCut
    <3>2. ASSUME NEW j \in (c.start + 1)..i PROVE s[j] # "."
      <4>1. j = i \/ j \in (b.start + 1)..(i - 1)
        BY <1>2, <1>4, <2>1
      <4> QED
        BY <1>1, <1>6, <4>1 DEF LastCut
    <3> QED
      BY <3>1, <3>2 DEF LastCut
  <2>5. c.len = i - c.start /\ (c.labels = 0 <=> c.start = 0)
    BY <1>1, <1>2, <1>4, <2>1
  <2> QED
    BY <1>1, <1>3, <2>1, <2>3, <2>4, <2>5 DEF LabelsSoFar, c
<1> QED
  BY <1>5, <1>6

\* The invariant after the last turn.
LEMMA LabelsAll ==
  ASSUME NEW s, Len(s) \in Nat
  PROVE  LabelsSoFar(s, Labels(s), Len(s))
<1>1. PICK f : LabelLoop(f, s)
  BY LabelRuns
<1> DEFINE N == Len(s)
           T == {i \in 0..N : LabelsSoFar(s, f[i], i)}
<1>2. N \in Nat
  OBVIOUS
<1>3. 0 \in T
  <2>1. f[0] = [ok |-> TRUE, labels |-> 0, start |-> 0, len |-> 0]
    BY <1>1 DEF LabelLoop, LabelStart
  <2>2. CheckedTo(s, 0)
    <3>1. ASSUME NEW a, NEW e, IsSpan(s, a, e) PROVE ~(e <= 0)
      BY <3>1 DEF IsSpan, Cuts
    <3> QED
      BY <3>1 DEF CheckedTo
  <2>3. LabelsSoFar(s, f[0], 0)
    BY <2>1, <2>2 DEF LabelsSoFar, LabelStates, LastCut
  <2> QED
    BY <1>2, <2>3
<1>4. ASSUME NEW i \in 0..(N - 1), i \in T PROVE i + 1 \in T
  <2>1. LabelsSoFar(s, f[i], i) /\ i + 1 \in 1..N /\ (i + 1) - 1 = i
    BY <1>2, <1>4
  <2>2. f[i + 1] = LabelStep(s, f[i], i + 1)
    BY <1>1, <2>1 DEF LabelLoop
  <2>3. LabelsSoFar(s, LabelStep(s, f[i], i + 1), i + 1)
    BY <2>1, LabelInduction
  <2>4. i + 1 \in 0..N
    BY <1>2, <2>1
  <2> HIDE DEF N
  <2> QED
    BY <2>2, <2>3, <2>4
<1> HIDE DEF T, N
<1>5. N \in 0..N
  BY <1>2
<1>6. N \in T
  BY <1>2, <1>3, <1>4, <1>5, UpTo
<1> QED
  BY <1>1, <1>6 DEF LabelLoop, T, N

\* A part of a text.
PartOf(p, s, a, e) == Len(p) = e - a - 1 /\ \A k \in 1..(e - a - 1) : p[k] = s[a + k]

LEMMA LabelIs ==
  ASSUME NEW C, NEW s \in Seq(C), NEW a \in 0..Len(s), NEW e \in (a + 1)..(Len(s) + 1)
  PROVE  PartOf(Label(s, <<a, e>>), s, a, e)
<1>1. Label(s, <<a, e>>) = SubSeq(s, a + 1, e - 1)
  BY DEF Label
<1>2. \A k \in (a + 1)..(e - 1) : s[k] \in C
  OBVIOUS
<1>3. a + 1 \in Int /\ e - 1 \in Int
  OBVIOUS
<1> DEFINE p == SubSeq(s, a + 1, e - 1)
<1>4. /\ Len(p) = IF a + 1 <= e - 1 THEN (e - 1) - (a + 1) + 1 ELSE 0
      /\ \A k \in 1..((e - 1) - (a + 1) + 1) : p[k] = s[(a + 1) + k - 1]
  BY <1>2, <1>3, SubSeqProperties
<1> HIDE DEF p
<1>5. Len(p) = e - a - 1
  BY <1>4
<1>6. ASSUME NEW k \in 1..(e - a - 1) PROVE p[k] = s[a + k]
  <2>1. k \in 1..((e - 1) - (a + 1) + 1) /\ (a + 1) + k - 1 = a + k
    OBVIOUS
  <2> QED
    BY <1>4, <2>1
<1> QED
  BY <1>1, <1>5, <1>6 DEF PartOf, p

\* ToSet of a sequence whose length is known.
LEMMA CharsIn ==
  ASSUME NEW C, NEW p \in Seq(C), NEW S
  PROVE  ToSet(p) \subseteq S <=> \A k \in 1..Len(p) : p[k] \in S
BY DEF ToSet

LEMMA LabelIsText ==
  ASSUME NEW C, NEW s \in Seq(C), NEW a \in 0..Len(s), NEW e \in (a + 1)..(Len(s) + 1)
  PROVE  Label(s, <<a, e>>) \in Seq(C)
<1>1. Label(s, <<a, e>>) = SubSeq(s, a + 1, e - 1)
  BY DEF Label
<1>2. \A k \in (a + 1)..(e - 1) : s[k] \in C
  OBVIOUS
<1>3. a + 1 \in Int /\ e - 1 \in Int
  OBVIOUS
<1> QED
  BY <1>1, <1>2, <1>3, SubSeqProperties

\* check_label accepts 1 to 63 letters, digits and inner hyphens.
LEMMA LabelChecked ==
  ASSUME NEW C, NEW s \in Seq(C), NEW a \in 0..Len(s), NEW e \in (a + 1)..(Len(s) + 1)
  PROVE  CheckSpan(s, a, e) <=> GoodLabel(Label(s, <<a, e>>))
<1> DEFINE p == Label(s, <<a, e>>)
           n == e - a - 1
<1>1. p \in Seq(C) /\ PartOf(p, s, a, e)
  BY LabelIs, LabelIsText
<1>2. n \in Nat /\ a \in Nat
  OBVIOUS
<1> HIDE DEF p
<1>3. Len(p) = n /\ \A k \in 1..n : p[k] = s[a + k]
  BY <1>1 DEF PartOf
<1>4. CheckSpan(s, a, e) <=> CheckLabel(s, a + 1, n)
  BY DEF CheckSpan
<1> HIDE DEF n
<1>5. n \in 1..MaxLabel => p[1] = s[a + 1] /\ p[n] = s[a + 1 + n - 1]
  BY <1>2, <1>3, AddressKindAssumption
<1>6. (\A i \in (a + 1)..(a + 1 + n - 1) : s[i] \in AlnumHyph) <=> \A k \in 1..n : p[k] \in AlnumHyph
  <2>1. ASSUME \A k \in 1..n : p[k] \in AlnumHyph, NEW i \in (a + 1)..(a + 1 + n - 1) PROVE s[i] \in AlnumHyph
    <3>1. i - a \in 1..n /\ a + (i - a) = i
      BY <1>2
    <3> QED
      BY <1>3, <2>1, <3>1
  <2>2. ASSUME \A i \in (a + 1)..(a + 1 + n - 1) : s[i] \in AlnumHyph, NEW k \in 1..n PROVE p[k] \in AlnumHyph
    <3>1. a + k \in (a + 1)..(a + 1 + n - 1)
      BY <1>2
    <3> QED
      BY <1>3, <2>2, <3>1
  <2> QED
    BY <2>1, <2>2
<1>7. ToSet(p) \subseteq AlnumHyph <=> \A k \in 1..n : p[k] \in AlnumHyph
  BY <1>1, <1>3, CharsIn
<1>8. GoodLabel(p) <=> n \in 1..MaxLabel /\ (\A k \in 1..n : p[k] \in AlnumHyph) /\ "-" \notin {p[1], p[n]}
  BY <1>3, <1>7 DEF GoodLabel
<1>9. CheckLabel(s, a + 1, n) <=> n \in 1..MaxLabel /\ (\A k \in 1..n : p[k] \in AlnumHyph) /\ p[1] # "-" /\ p[n] # "-"
  BY <1>5, <1>6 DEF CheckLabel
<1> QED
  BY <1>4, <1>8, <1>9 DEF p

\* The check of the last label of a name agrees with the rule, for a right label.
LEMMA TopChecked ==
  ASSUME NEW C, NEW p \in Seq(C), GoodLabel(p)
  PROVE  TopLevel(p) <=> GoodTop(p)
<1>1. /\ MaxLabel \in Nat /\ Len(Puny) \in Nat /\ Puny \in Seq(AlnumHyph)
      /\ "-" \in ToSet(Puny) /\ "-" \notin Letter
  BY AddressKindAssumption
<1>2. Len(p) \in 1..MaxLabel /\ \A k \in 1..Len(p) : p[k] \in AlnumHyph
  BY CharsIn DEF GoodLabel
<1>3. CASE IsPrefix(Puny, p)
  <2>1. Len(Puny) <= Len(p) /\ SubSeq(Puny, 1, Len(Puny)) = SubSeq(p, 1, Len(Puny))
    BY <1>3 DEF IsPrefix
  <2>2. SubSeq(Puny, 1, Len(Puny)) = Puny /\ SubSeq(p, 1, Len(p)) = p
    BY <1>1, SubSeqFull
  <2>3. p = Puny <=> Len(p) = Len(Puny)
    BY <2>1, <2>2
  <2>4. PICK k \in 1..Len(Puny) : Puny[k] = "-"
    BY <1>1 DEF ToSet
  <2>5. p[k] = "-" /\ k \in 1..Len(p)
    <3>1. /\ \A i \in 1..Len(Puny) : p[i] \in C
          /\ 1 \in Int /\ Len(Puny) \in Int
      BY <1>1, <1>2, <2>1
    <3>2. \A i \in 1..(Len(Puny) - 1 + 1) : SubSeq(p, 1, Len(Puny))[i] = p[1 + i - 1]
      BY <3>1, SubSeqProperties
    <3>3. k \in 1..(Len(Puny) - 1 + 1) /\ 1 + k - 1 = k
      BY <1>1
    <3>4. SubSeq(p, 1, Len(Puny))[k] = p[k]
      BY <3>2, <3>3
    <3>5. k \in 1..Len(p)
      BY <1>1, <1>2, <2>1
    <3> QED
      BY <2>1, <2>2, <2>4, <3>4, <3>5
  <2>6. ~(ToSet(p) \subseteq Letter)
    BY <1>1, <2>5, CharsIn
  <2>7. GoodTop(p) <=> Len(p) # Len(Puny)
    BY <1>3, <2>3, <2>6 DEF GoodTop
  <2>8. Len(p) # Len(Puny) <=> Len(p) \in (Len(Puny) + 1)..MaxLabel
    BY <1>1, <1>2, <2>1
  <2>9. \A i \in (Len(Puny) + 1)..Len(p) : p[i] \in AlnumHyph
    BY <1>1, <1>2
  <2> QED
    BY <1>3, <2>7, <2>8, <2>9 DEF TopLevel
<1>4. CASE ~IsPrefix(Puny, p)
  <2>1. TopLevel(p) <=> Len(p) \in 2..MaxLabel /\ \A i \in 1..Len(p) : p[i] \in Letter
    BY <1>4 DEF TopLevel
  <2>2. GoodTop(p) <=> Len(p) >= 2 /\ \A i \in 1..Len(p) : p[i] \in Letter
    BY <1>4, CharsIn DEF GoodTop
  <2>3. Len(p) \in 2..MaxLabel <=> Len(p) >= 2
    BY <1>1, <1>2
  <2> QED
    BY <2>1, <2>2, <2>3
<1> QED
  BY <1>3, <1>4

\* A span of a text lies within it.
LEMMA SpanWithin ==
  ASSUME NEW s, Len(s) \in Nat, NEW a, NEW e, IsSpan(s, a, e)
  PROVE  a \in 0..Len(s) /\ e \in (a + 1)..(Len(s) + 1)
BY DEF IsSpan, Cuts

\* The checked labels up to a position are the good ones.
LEMMA CheckedAreGood ==
  ASSUME NEW C, NEW s \in Seq(C), NEW i \in Int
  PROVE  CheckedTo(s, i) <=> \A l \in LabelSpans(s) : l[2] <= i => GoodLabel(Label(s, l))
<1>1. ASSUME NEW a, NEW e, IsSpan(s, a, e) PROVE CheckSpan(s, a, e) <=> GoodLabel(Label(s, <<a, e>>))
  <2>1. a \in 0..Len(s) /\ e \in (a + 1)..(Len(s) + 1)
    BY <1>1, SpanWithin
  <2> QED
    BY <2>1, LabelChecked
<1>2. ASSUME CheckedTo(s, i), NEW l \in LabelSpans(s), l[2] <= i PROVE GoodLabel(Label(s, l))
  <2>1. l = <<l[1], l[2]>> /\ IsSpan(s, l[1], l[2])
    BY Spans
  <2>2. CheckSpan(s, l[1], l[2])
    BY <1>2, <2>1 DEF CheckedTo
  <2>3. GoodLabel(Label(s, <<l[1], l[2]>>))
    BY <1>1, <2>1, <2>2
  <2> QED
    BY <2>1, <2>3
<1>3. ASSUME \A l \in LabelSpans(s) : l[2] <= i => GoodLabel(Label(s, l)),
             NEW a, NEW e, IsSpan(s, a, e), e <= i
      PROVE  CheckSpan(s, a, e)
  <2>1. <<a, e>> \in LabelSpans(s) /\ <<a, e>>[2] = e
    BY <1>3, Spans
  <2>2. GoodLabel(Label(s, <<a, e>>))
    BY <1>3, <2>1
  <2> QED
    BY <1>1, <1>3, <2>2
<1> QED
  BY <1>2, <1>3 DEF CheckedTo

\* Without its final dot, a text has the same labels.
LEMMA FrontSpans ==
  ASSUME NEW C, NEW s \in Seq(C), s # << >>, Last(s) = "."
  PROVE  LabelSpans(Front(s)) = {l \in LabelSpans(s) : l[2] <= Len(s)}
<1> DEFINE N == Len(s)
           t == Front(s)
<1>1. N \in Nat /\ N >= 1 /\ s[N] = "."
  BY DEF Last
<1>2. /\ t \in Seq(C) /\ Len(t) = N - 1
      /\ \A k \in 1..(N - 1) : t[k] = s[k]
  <2>1. t = SubSeq(s, 1, N - 1)
    BY DEF Front
  <2>2. (\A k \in 1..(N - 1) : s[k] \in C) /\ 1 \in Int /\ N - 1 \in Int
    BY <1>1
  <2>3. /\ SubSeq(s, 1, N - 1) \in Seq(C)
        /\ Len(SubSeq(s, 1, N - 1)) = IF 1 <= N - 1 THEN (N - 1) - 1 + 1 ELSE 0
        /\ \A k \in 1..((N - 1) - 1 + 1) : SubSeq(s, 1, N - 1)[k] = s[1 + k - 1]
    BY <2>2, SubSeqProperties
  <2> HIDE DEF t, N
  <2>4. ASSUME NEW k \in 1..(N - 1) PROVE t[k] = s[k]
    <3>1. k \in 1..((N - 1) - 1 + 1) /\ 1 + k - 1 = k
      BY <1>1
    <3> QED
      BY <2>1, <2>3, <3>1
  <2>5. Len(t) = N - 1
    BY <1>1, <2>1, <2>3
  <2> QED
    BY <2>1, <2>3, <2>4, <2>5
<1> HIDE DEF t
<1>3. Cuts(t) = Cuts(s) \ {N + 1}
  <2>1. ASSUME NEW c \in Cuts(t) PROVE c \in Cuts(s) /\ c # N + 1
    <3>1. c = 0 \/ c = N \/ (c \in 1..(N - 1) /\ t[c] = ".")
      BY <1>1, <1>2 DEF Cuts
    <3>2. c = 0 \/ (c \in 1..N /\ s[c] = ".")
      BY <1>1, <1>2, <3>1
    <3> QED
      BY <1>1, <3>2 DEF Cuts
  <2>2. ASSUME NEW c \in Cuts(s), c # N + 1 PROVE c \in Cuts(t)
    <3>1. c = 0 \/ (c \in 1..N /\ s[c] = ".")
      BY <2>2 DEF Cuts
    <3>2. c = 0 \/ c = N \/ (c \in 1..(N - 1) /\ t[c] = ".")
      BY <1>1, <1>2, <3>1
    <3> QED
      BY <1>1, <1>2, <3>2 DEF Cuts
  <2> QED
    BY <2>1, <2>2
<1>4. \A c \in Cuts(s) : c \in 0..(N + 1)
  BY <1>1 DEF Cuts
<1>5. ASSUME NEW a, NEW e PROVE IsSpan(t, a, e) <=> IsSpan(s, a, e) /\ e <= N
  <2>1. ASSUME IsSpan(t, a, e) PROVE IsSpan(s, a, e) /\ e <= N
    <3>1. a \in Cuts(s) /\ e \in Cuts(s) /\ e # N + 1 /\ a < e /\ ~\E c \in Cuts(t) : a < c /\ c < e
      BY <1>3, <2>1 DEF IsSpan
    <3>2. e \in 0..N
      BY <1>1, <1>4, <3>1
    <3>3. ASSUME NEW c \in Cuts(s), a < c, c < e PROVE FALSE
      <4>1. c # N + 1
        BY <1>1, <1>4, <3>2, <3>3
      <4> QED
        BY <1>3, <3>1, <3>3, <4>1
    <3> QED
      BY <3>1, <3>2, <3>3 DEF IsSpan
  <2>2. ASSUME IsSpan(s, a, e), e <= N PROVE IsSpan(t, a, e)
    <3>1. a \in Cuts(s) /\ e \in Cuts(s) /\ a < e /\ ~\E c \in Cuts(s) : a < c /\ c < e
      BY <2>2 DEF IsSpan
    <3>2. a # N + 1 /\ e # N + 1
      BY <1>1, <1>4, <2>2, <3>1
    <3> QED
      BY <1>3, <3>1, <3>2 DEF IsSpan
  <2> QED
    BY <2>1, <2>2
<1>6. ASSUME NEW l \in LabelSpans(t) PROVE l \in LabelSpans(s) /\ l[2] <= N
  <2>1. l = <<l[1], l[2]>> /\ IsSpan(s, l[1], l[2]) /\ l[2] <= N
    BY <1>5, Spans
  <2>2. <<l[1], l[2]>> \in LabelSpans(s)
    BY <2>1, Spans
  <2> QED
    BY <2>1, <2>2
<1>7. ASSUME NEW l \in LabelSpans(s), l[2] <= N PROVE l \in LabelSpans(t)
  <2>1. l = <<l[1], l[2]>> /\ IsSpan(t, l[1], l[2])
    BY <1>5, <1>7, Spans
  <2>2. <<l[1], l[2]>> \in LabelSpans(t)
    BY <2>1, Spans
  <2> QED
    BY <2>1, <2>2
<1> HIDE DEF N
<1>8. LabelSpans(t) = {l \in LabelSpans(s) : l[2] <= N}
  BY <1>6, <1>7
<1> QED
  BY <1>8 DEF t, N

\* is_fqdn accepts exactly the host names: labels of 1 to 63 letters, digits and
\* inner hyphens, the last one alphabetic or punycode unless a dot follows it, and 253
\* characters without that dot.
LEMMA FqdnIsHostName ==
  ASSUME NEW C, NEW s \in Seq(C)
  PROVE  IsFqdn(s) <=> HostName(s)
<1> DEFINE N == Len(s)
           scan == Labels(s)
<1>1. N \in Nat /\ MaxName \in Nat /\ MaxLabel \in Nat
  BY AddressKindAssumption
<1>2. CASE s = << >>
  BY <1>2 DEF IsFqdn, HostName
<1>3. ASSUME s # << >> PROVE IsFqdn(s) <=> HostName(s)
  <2>1. N >= 1 /\ s[N] = Last(s)
    BY <1>3 DEF Last
  <2>2. LabelsSoFar(s, scan, N)
    BY <1>1, LabelsAll
  <2> HIDE DEF scan
  <2>3. /\ scan \in LabelStates /\ LastCut(s, scan.start, N) /\ scan.len = N - scan.start
        /\ scan.labels = 0 <=> scan.start = 0
        /\ scan.ok <=> CheckedTo(s, N)
    BY <2>2 DEF LabelsSoFar
  <2>4. scan.labels \in Nat /\ scan.start \in 0..N
    BY <2>3 DEF LabelStates, LastCut
  <2>5. CASE Last(s) = "."
    <3>1. scan.start = N
      <4>1. ~(N \in (scan.start + 1)..N)
        BY <2>1, <2>3, <2>5 DEF LastCut
      <4> QED
        BY <1>1, <2>4, <4>1
    <3>2. scan.labels >= 1
      BY <2>1, <2>3, <2>4, <3>1
    <3>3. IsFqdn(s) <=> N <= MaxName + 1 /\ CheckedTo(s, N)
      BY <1>3, <2>3, <2>5, <3>2 DEF IsFqdn, scan
    <3>4. CheckedTo(s, N) <=> \A l \in LabelSpans(s) : l[2] <= N => GoodLabel(Label(s, l))
      BY <1>1, CheckedAreGood
    <3>5. LabelSpans(Front(s)) = {l \in LabelSpans(s) : l[2] <= N}
      BY <1>3, <2>5, FrontSpans
    <3>6. CheckedTo(s, N) <=> \A l \in LabelSpans(Front(s)) : GoodLabel(Label(s, l))
      BY <3>4, <3>5
    <3>7. CheckedTo(s, N) => N # 1
      <4>1. ASSUME N = 1 PROVE ~CheckedTo(s, N)
        <5>1. IsSpan(s, 0, 1)
          BY <2>1, <2>5, <4>1 DEF IsSpan, Cuts
        <5>2. ~CheckSpan(s, 0, 1)
          BY <1>1 DEF CheckSpan, CheckLabel
        <5> QED
          BY <4>1, <5>1, <5>2 DEF CheckedTo
      <4> QED
        BY <4>1
    <3>8. HostName(s) <=> N - 1 \in 1..MaxName /\ \A l \in LabelSpans(Front(s)) : GoodLabel(Label(s, l))
      BY <1>3, <2>5 DEF HostName
    <3>9. N - 1 \in 1..MaxName <=> N <= MaxName + 1 /\ N # 1
      <4> HIDE DEF N
      <4> QED
        BY <1>1, <2>1
    <3> QED
      BY <3>3, <3>4, <3>6, <3>7, <3>8, <3>9
  <2>6. CASE Last(s) # "."
    <3> DEFINE a == scan.start
               e == N + 1
               p == Label(s, <<a, e>>)
    <3>1. e \in Cuts(s) /\ e - 1 = N /\ e \in 1..(N + 1)
      BY <1>1 DEF Cuts
    <3>2. IsSpan(s, a, e) /\ \A x : IsSpan(s, x, e) => x = a
      <4>1. LastCut(s, a, e - 1)
        BY <2>3, <3>1
      <4> HIDE DEF a, e
      <4> QED
        BY <1>1, <3>1, <4>1, SpanEnds
    <3>3. a \in 0..N /\ e \in (a + 1)..(N + 1)
      BY <1>1, <2>4
    <3>4. CheckLabel(s, a + 1, scan.len) <=> GoodLabel(p)
      <4>1. e - a - 1 = scan.len
        BY <1>1, <2>3, <2>4
      <4>2. CheckSpan(s, a, e) <=> GoodLabel(p)
        BY <3>3, LabelChecked
      <4> QED
        BY <4>1, <4>2 DEF CheckSpan
    <3>5. SubSeq(s, a + 1, a + scan.len) = p
      <4>1. a + scan.len = e - 1
        BY <1>1, <2>3, <2>4
      <4>2. p = SubSeq(s, a + 1, e - 1)
        BY DEF Label
      <4> QED
        BY <4>1, <4>2
    <3>6. p \in Seq(C)
      BY <3>3, LabelIsText
    <3>7. IsFqdn(s) <=> N <= MaxName /\ CheckedTo(s, N) /\ GoodLabel(p) /\ TopLevel(p)
      BY <1>3, <2>3, <2>6, <3>4, <3>5 DEF IsFqdn, scan
    <3>8. GoodLabel(p) /\ TopLevel(p) <=> GoodLabel(p) /\ GoodTop(p)
      BY <3>6, TopChecked
    <3>9. CheckedTo(s, N) <=> \A l \in LabelSpans(s) : l[2] <= N => GoodLabel(Label(s, l))
      BY <1>1, CheckedAreGood
    <3>10. HostName(s) <=> N <= MaxName /\ \A l \in LabelSpans(s) :
             GoodLabel(Label(s, l)) /\ (l[2] = e => GoodTop(Label(s, l)))
      BY <1>3, <2>6 DEF HostName
    <3>11. <<a, e>> \in LabelSpans(s) /\ <<a, e>>[2] = e
      BY <3>2, Spans
    <3>12. ASSUME NEW l \in LabelSpans(s) PROVE l[2] <= N \/ l = <<a, e>>
      <4>1. l = <<l[1], l[2]>> /\ IsSpan(s, l[1], l[2])
        BY Spans
      <4>2. l[2] \in Int /\ l[2] <= e
        BY <1>1, <4>1, SpanWithin
      <4>3. CASE l[2] = e
        BY <3>2, <4>1, <4>3
      <4> QED
        BY <1>1, <4>2, <4>3
    <3>13. ~(e <= N)
      BY <1>1
    <3> HIDE DEF p, a, e, N
    <3>14. ASSUME NEW l \in LabelSpans(s), l[2] <= N PROVE l[2] # e
      BY <3>13, <3>14
    <3>15. (\A l \in LabelSpans(s) : GoodLabel(Label(s, l)) /\ (l[2] = e => GoodTop(Label(s, l))))
             <=> CheckedTo(s, N) /\ GoodLabel(p) /\ GoodTop(p)
      <4>1. ASSUME \A l \in LabelSpans(s) : GoodLabel(Label(s, l)) /\ (l[2] = e => GoodTop(Label(s, l)))
            PROVE  CheckedTo(s, N) /\ GoodLabel(p) /\ GoodTop(p)
        BY <3>9, <3>11, <4>1 DEF p
      <4>2. ASSUME CheckedTo(s, N), GoodLabel(p), GoodTop(p), NEW l \in LabelSpans(s)
            PROVE  GoodLabel(Label(s, l)) /\ (l[2] = e => GoodTop(Label(s, l)))
        <5>1. CASE l[2] <= N
          BY <3>9, <3>14, <4>2, <5>1
        <5>2. CASE l = <<a, e>>
          BY <4>2, <5>2 DEF p
        <5> QED
          BY <3>12, <5>1, <5>2
      <4> QED
        BY <4>1, <4>2
    <3> QED
      BY <3>7, <3>8, <3>10, <3>15
  <2> QED
    BY <2>5, <2>6
<1> QED
  BY <1>2, <1>3

================================================================================
