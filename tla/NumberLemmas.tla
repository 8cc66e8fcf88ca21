------------------------------ MODULE NumberLemmas -----------------------------
(******************************************************************************)
(* Facts about numbers that the proofs of several components rest on: about % *)
(* for unsigned counters that wrap, and storage indexed by them (w is the     *)
(* number of values of the word, c the capacity); and about least elements    *)
(* and induction, for searches and for loops over a sequence.                 *)
(******************************************************************************)
EXTENDS Integers, WellFoundedInduction, TLAPS

\* Quotient and remainder, as the provers know them.
LEMMA DivMod ==
  ASSUME NEW a \in Int, NEW c \in Nat \ {0}
  PROVE  /\ a \div c \in Int /\ (a % c) \in 0..(c - 1)
         /\ a = c * (a \div c) + (a % c)
BY SMT

\* A multiple of c that lies strictly between -c and c is zero.
LEMMA SmallMultiple ==
  ASSUME NEW c \in Nat \ {0}, NEW q \in Int, NEW r \in Int,
         c * q + r = 0, r < c, -c < r
  PROVE  q = 0 /\ r = 0
<1>1. q >= 1 => c * q >= c
  BY SMT
<1>2. q <= -1 => c * q <= -c
  BY SMT
<1> QED
  BY <1>1, <1>2, SMT

\* Congruent numbers less than c apart are equal.
LEMMA ModInjective ==
  ASSUME NEW c \in Nat \ {0}, NEW a \in Int, NEW b \in Int,
         (a % c) = (b % c), a - b < c, b - a < c
  PROVE  a = b
<1> DEFINE d == (a \div c) - (b \div c)
<1>1. /\ a = c * (a \div c) + (a % c) /\ a \div c \in Int /\ (a % c) \in Int
      /\ b = c * (b \div c) + (b % c) /\ b \div c \in Int
  BY DivMod
<1>2. c * d = c * (a \div c) - c * (b \div c)
  BY <1>1, SMT
<1>3. c * d + (b - a) = 0 /\ d \in Int
  BY <1>1, <1>2, SMT
<1>4. b - a \in Int /\ b - a < c /\ -c < b - a
  BY SMT
<1> HIDE DEF d
<1>5. b - a = 0
  BY <1>3, <1>4, SmallMultiple
<1> QED
  BY <1>5, SMT

\* A remainder is its own residue, whatever multiple of c is added to it.
LEMMA ModOfSum ==
  ASSUME NEW c \in Nat \ {0}, NEW q \in Int, NEW r \in 0..(c - 1)
  PROVE  (c * q + r) % c = r
<1> DEFINE a == c * q + r
           d == q - (a \div c)
<1>1. a \in Int
  BY SMT
<1>2. a = c * (a \div c) + (a % c) /\ a \div c \in Int /\ (a % c) \in 0..(c - 1)
  BY <1>1, DivMod
<1>3. c * d = c * q - c * (a \div c)
  BY <1>2, SMT
<1>4. c * d + (r - (a % c)) = 0 /\ d \in Int
  BY <1>2, <1>3, SMT
<1>5. r - (a % c) \in Int /\ r - (a % c) < c /\ -c < r - (a % c)
  BY <1>2, SMT
<1> HIDE DEF d
<1>6. r - (a % c) = 0
  BY <1>4, <1>5, SmallMultiple
<1> QED
  BY <1>2, <1>6, SMT

\* Congruence: numbers a multiple of c apart have the same remainder.
LEMMA ModShift ==
  ASSUME NEW c \in Nat \ {0}, NEW a \in Int, NEW q \in Int
  PROVE  (a + c * q) % c = (a % c)
<1>1. a = c * (a \div c) + (a % c) /\ a \div c \in Int /\ (a % c) \in 0..(c - 1)
  BY DivMod
<1>2. a + c * q = c * ((a \div c) + q) + (a % c)
  <2>1. c * ((a \div c) + q) = c * (a \div c) + c * q
    BY <1>1, SMT
  <2> QED
    BY <1>1, <2>1, SMT
<1>3. (a \div c) + q \in Int
  BY <1>1, SMT
<1> QED
  BY <1>1, <1>2, <1>3, ModOfSum

\* Adding to a counter that wrapped gives the wrapped sum.
LEMMA ModAdd ==
  ASSUME NEW w \in Nat \ {0}, NEW a \in Int, NEW n \in Int
  PROVE  ((a % w) + n) % w = (a + n) % w
<1>1. a = w * (a \div w) + (a % w) /\ a \div w \in Int /\ (a % w) \in Int
  BY DivMod
<1>2. a + n = ((a % w) + n) + w * (a \div w)
  BY <1>1, SMT
<1>3. (a % w) + n \in Int
  BY <1>1, SMT
<1> QED
  BY <1>1, <1>2, <1>3, ModShift

\* The difference of two counters that wrapped is their distance, if that fits.
LEMMA ModDistance ==
  ASSUME NEW w \in Nat \ {0}, NEW a \in Int, NEW b \in Int, 0 <= a - b, a - b < w
  PROVE  ((a % w) - (b % w)) % w = a - b
<1>1. /\ a = w * (a \div w) + (a % w) /\ a \div w \in Int /\ (a % w) \in Int
      /\ b = w * (b \div w) + (b % w) /\ b \div w \in Int /\ (b % w) \in Int
  BY DivMod
<1> DEFINE q == (b \div w) - (a \div w)
<1>2. w * q = w * (b \div w) - w * (a \div w)
  BY <1>1, SMT
<1>3. (a % w) - (b % w) = w * q + (a - b) /\ q \in Int
  BY <1>1, <1>2, SMT
<1>4. a - b \in 0..(w - 1)
  BY SMT
<1> QED
  BY <1>3, <1>4, ModOfSum

\* The storage index of a counter that wrapped is that of the counter.
LEMMA ModOfWord ==
  ASSUME NEW w \in Nat \ {0}, NEW c \in Nat \ {0}, (w % c) = 0, NEW a \in Int
  PROVE  ((a % w) % c) = (a % c)
<1>1. a = w * (a \div w) + (a % w) /\ a \div w \in Int /\ (a % w) \in Int
  BY DivMod
<1>2. w = c * (w \div c) /\ w \div c \in Int
  BY DivMod, SMT
<1> DEFINE q == (w \div c) * (a \div w)
<1>3. q \in Int
  BY <1>1, <1>2, SMT
<1>4. w * (a \div w) = c * q
  BY <1>1, <1>2, SMT
<1> HIDE DEF q
<1>5. a = (a % w) + c * q
  BY <1>1, <1>3, <1>4, SMT
<1>6. (((a % w) + c * q) % c) = ((a % w) % c)
  BY <1>1, <1>3, ModShift
<1> QED
  BY <1>5, <1>6

\* One turn of the ring: below c nothing wraps, below 2 * c it wraps once.
LEMMA ModOneTurn ==
  ASSUME NEW c \in Nat \ {0}, NEW a \in Int
  PROVE  /\ a \in 0..(c - 1) => (a % c) = a
         /\ a \in c..(c + c - 1) => (a % c) = a - c
<1>1. ASSUME a \in 0..(c - 1) PROVE (a % c) = a
  <2>1. (c * 0 + a) % c = a
    BY <1>1, ModOfSum
  <2> QED
    BY <2>1, SMT
<1>2. ASSUME a \in c..(c + c - 1) PROVE (a % c) = a - c
  <2>1. a - c \in 0..(c - 1)
    BY <1>2, SMT
  <2>2. (c * 1 + (a - c)) % c = a - c
    BY <2>1, ModOfSum
  <2>3. c * 1 + (a - c) = a
    BY SMT
  <2> QED
    BY <2>2, <2>3
<1> QED
  BY <1>1, <1>2

-------------------------------------------------------------------------------
(* Least elements and induction.  The sets and functions here are values, not  *)
(* operators, so that the provers can apply the lemmas.                        *)

\* A set of numbers that has an element has a least one.
LEMMA Least ==
  ASSUME NEW S \in SUBSET Nat, NEW n \in S
  PROVE  \E m \in S : \A k \in S : m <= k
<1> DEFINE R == OpToRel(<, Nat)
<1>1. IsWellFoundedOn(R, Nat)
  BY NatLessThanWellFounded
<1>2. \A x, y \in Nat : y < x => <<y, x>> \in R
  BY DEF OpToRel
<1> HIDE DEF R
<1>3. PICK x \in S : \A y \in S : ~(<<y, x>> \in R)
  BY <1>1, WFMin
<1>4. ASSUME NEW y \in S PROVE x <= y
  <2>1. ~(<<y, x>> \in R) /\ y \in Nat /\ x \in Nat
    BY <1>3
  <2>2. ~(y < x)
    BY <1>2, <2>1
  <2> QED
    BY <2>1, <2>2
<1> QED
  BY <1>4

\* A set of numbers that has 0, and the successor of each of its elements below N, has
\* all numbers up to N.
LEMMA UpTo ==
  ASSUME NEW N \in Nat, NEW S, 0 \in S, \A i \in 0..(N - 1) : i \in S => i + 1 \in S
  PROVE  \A i \in 0..N : i \in S
<1> SUFFICES ASSUME NEW j \in 0..N, j \notin S PROVE FALSE
  OBVIOUS
<1> DEFINE T == {i \in 0..N : i \notin S}
<1>1. T \in SUBSET Nat /\ j \in T
  OBVIOUS
<1>2. PICK m \in T : \A k \in T : m <= k
  BY <1>1, Least
<1>3. m \in 1..N /\ m \notin S
  BY <1>2
<1>4. m - 1 \in 0..(N - 1) /\ (m - 1) + 1 = m
  BY <1>3
<1>5. m - 1 \in S
  BY <1>2, <1>4
<1> QED
  BY <1>3, <1>4, <1>5

\* The states a loop goes through, when each is a function of the one before and the
\* number of the step.
Turns(f, start, F, n) == f[0] = start /\ \A i \in 1..n : f[i] = F[<<f[i - 1], i>>]

\* A loop of N steps goes through states.
LEMMA LoopRuns ==
  ASSUME NEW State, NEW N \in Nat, NEW start \in State, NEW F \in [State \X (1..N) -> State]
  PROVE  \E f \in [0..N -> State] : Turns(f, start, F, N)
<1> DEFINE S == {n \in 0..N : \E f \in [0..n -> State] : Turns(f, start, F, n)}
<1>1. 0 \in S
  <2> DEFINE f == [i \in 0..0 |-> start]
  <2>1. f \in [0..0 -> State] /\ Turns(f, start, F, 0)
    BY DEF Turns
  <2> QED
    BY <2>1
<1>2. ASSUME NEW n \in 0..(N - 1), n \in S PROVE n + 1 \in S
  <2>1. PICK f \in [0..n -> State] : Turns(f, start, F, n)
    BY <1>2
  <2> DEFINE g == [i \in 0..(n + 1) |-> IF i = n + 1 THEN F[<<f[n], n + 1>>] ELSE f[i]]
  <2>2. f[n] \in State /\ n + 1 \in 1..N
    OBVIOUS
  <2>3. F[<<f[n], n + 1>>] \in State
    BY <2>2
  <2>4. g \in [0..(n + 1) -> State]
    BY <2>3
  <2>5. Turns(g, start, F, n + 1)
    <3>1. g[0] = start
      BY <2>1 DEF Turns
    <3>2. ASSUME NEW i \in 1..(n + 1) PROVE g[i] = F[<<g[i - 1], i>>]
      <4>1. CASE i = n + 1
        <5>1. g[i] = F[<<f[n], n + 1>>] /\ g[i - 1] = f[n]
          BY <4>1
        <5> QED
          BY <4>1, <5>1
      <4>2. CASE i \in 1..n
        <5>1. g[i] = f[i] /\ g[i - 1] = f[i - 1]
          BY <4>2
        <5> QED
          BY <2>1, <4>2, <5>1 DEF Turns
      <4> QED
        BY <4>1, <4>2
    <3> QED
      BY <3>1, <3>2 DEF Turns
  <2> QED
    BY <2>4, <2>5
<1> HIDE DEF S
<1>3. N \in S
  BY <1>1, <1>2, UpTo
<1> QED
  BY <1>3 DEF S

================================================================================
