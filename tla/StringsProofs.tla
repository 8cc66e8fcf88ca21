----------------------------- MODULE StringsProofs ------------------------------
(******************************************************************************)
(* Invariants of Strings, for every number of objects and blocks, every       *)
(* literal, and sizes up to half a word.                                      *)
(*                                                                            *)
(* Every operation that keeps an object alive is one of two: it moves the     *)
(* members of an object to another, or it changes the bytes and the count of  *)
(* one object that has memory.  Whether a String stays terminated is decided  *)
(* by the second; that it decides nothing for other objects follows from the  *)
(* first.                                                                     *)
(******************************************************************************)
EXTENDS Strings, NumberLemmas, SequenceTheorems

\* What a place of memory may hold, where memory is, and the members of an object.
Cell    == Byte \cup {Junk}
Memory  == Block \cup {Static, Array}
Members == [data : Block \cup {Null, Array}, capacity_ : Nat, owner_ : BOOLEAN, size_ : Nat]

\* Every variable has its type.
Types ==
  /\ live \subseteq Object /\ obj \in [Object -> Members]
  /\ mem \in [Memory -> Seq(Cell)] /\ mem[Static] = Literal /\ Len(mem[Array]) = Room

\* The members of an object describe memory that exists, and is its own; an object
\* without memory counts nothing.
Fits ==
  \A o \in Object :
    /\ Valid(o) =>
         /\ o \in live /\ (obj[o].owner_ <=> obj[o].data \in Block)
         /\ Len(mem[obj[o].data]) = obj[o].capacity_ /\ obj[o].capacity_ > 0
         /\ obj[o].capacity_ <= (IF obj[o].data \in Block THEN MaxCapacity ELSE Room)
    /\ ~Valid(o) => obj[o].capacity_ = 0
    /\ obj[o].size_ <= obj[o].capacity_

\* No two objects have the same memory.
Unshared ==
  \A o, p \in Object : o # p /\ Valid(o) /\ Valid(p) => obj[o].data # obj[p].data

\* An allocation has an object.
Held == \A k \in Block : mem[k] # << >> => \E o \in Object : obj[o].data = k

\* A String with memory has allocated it, counts its last byte, and that is a NUL.
Ended ==
  \A s \in String : Valid(s) =>
    obj[s].data \in Block /\ obj[s].size_ > 0 /\ mem[obj[s].data][obj[s].size_] = NUL

\* The inductive invariant.
IInv == Types /\ Fits /\ Unshared /\ Held /\ Ended

-------------------------------------------------------------------------------
(* Bytes *)

\* A function on 1..n is a sequence.
LEMMA FunctionIsSeq ==
  ASSUME NEW S, NEW n \in Nat, NEW f \in [1..n -> S]
  PROVE  f \in Seq(S) /\ Len(f) = n
  BY SeqDef

\* Storing bytes changes one allocation, in the places they are stored to.
LEMMA StoredBytes ==
  ASSUME NEW m \in [Memory -> Seq(Cell)], NEW data \in Memory, NEW i \in Nat, NEW s \in Seq(Cell)
  PROVE  /\ Stored(m, data, i, s) \in [Memory -> Seq(Cell)]
         /\ \A k \in Memory : Len(Stored(m, data, i, s)[k]) = Len(m[k])
         /\ \A k \in Memory : k # data => Stored(m, data, i, s)[k] = m[k]
         /\ \A j \in 1..Len(s) : i + j <= Len(m[data]) => Stored(m, data, i, s)[data][i + j] = s[j]
         /\ \A j \in 1..Len(m[data]) :
              j <= i \/ j > i + Len(s) => Stored(m, data, i, s)[data][j] = m[data][j]
<1> DEFINE b == [j \in 1..Len(m[data]) |-> IF j - i \in 1..Len(s) THEN s[j - i] ELSE m[data][j]]
<1>1. Stored(m, data, i, s) = [m EXCEPT ![data] = b]
  BY DEF Stored
<1>2. Len(m[data]) \in Nat /\ Len(s) \in Nat
  BY LenProperties
<1>3. ASSUME NEW j \in 1..Len(m[data])
      PROVE  b[j] \in Cell
  <2>1. m[data][j] \in Cell
    BY ElementOfSeq
  <2>2. CASE j - i \in 1..Len(s)
    <3>1. s[j - i] \in Cell
      BY <2>2, ElementOfSeq
    <3> QED BY <2>2, <3>1
  <2>3. CASE j - i \notin 1..Len(s)
    BY <2>1, <2>3
  <2> QED BY <2>2, <2>3
<1>4. b \in Seq(Cell) /\ Len(b) = Len(m[data])
  <2>1. b \in [1..Len(m[data]) -> Cell]
    BY <1>3
  <2> QED BY <1>2, <2>1, FunctionIsSeq
<1>5. ASSUME NEW j \in 1..Len(s), i + j <= Len(m[data])
      PROVE  b[i + j] = s[j]
  <2>1. i + j \in 1..Len(m[data]) /\ (i + j) - i = j
    BY <1>2, <1>5
  <2> QED BY <2>1
<1>6. ASSUME NEW j \in 1..Len(m[data]), j <= i \/ j > i + Len(s)
      PROVE  b[j] = m[data][j]
  <2>1. j - i \notin 1..Len(s)
    BY <1>2, <1>6
  <2> QED BY <2>1
<1> HIDE DEF b
<1> QED BY <1>1, <1>4, <1>5, <1>6

\* A String's size() and capacity() leave room for the NUL.
LEMMA SizeFits ==
  ASSUME IInv, NEW o \in Object, Valid(o)
  PROVE  /\ obj[o].data \in Memory \ {Static} /\ obj[o].capacity_ \in Nat /\ obj[o].size_ \in Nat
         /\ Len(mem[obj[o].data]) = obj[o].capacity_
         /\ obj[o].capacity_ > 0 /\ obj[o].capacity_ <= MaxLength /\ obj[o].capacity_ < WordSize
         /\ o \in String => size(o) = obj[o].size_ - 1 /\ capacity(o) = obj[o].capacity_ - 1
         /\ o \notin String => size(o) = obj[o].size_ /\ capacity(o) = obj[o].capacity_
         /\ size(o) \in Nat /\ capacity(o) \in Nat /\ size(o) <= capacity(o)
         /\ size(o) <= Len(mem[obj[o].data])
<1>1. obj[o] \in Members /\ obj[o].data \in Memory \ {Static}
  <2>1. obj[o] \in Members /\ obj[o].data # Null
    BY DEF IInv, Types, Valid
  <2>2. Static \notin Block \cup {Null, Array}
    BY StringsAssumption DEF Static, Null, Array
  <2> QED BY <2>1, <2>2 DEF Members, Memory
<1>2. /\ Len(mem[obj[o].data]) = obj[o].capacity_ /\ obj[o].capacity_ > 0
      /\ obj[o].capacity_ <= (IF obj[o].data \in Block THEN MaxCapacity ELSE Room)
      /\ obj[o].size_ <= obj[o].capacity_
  BY DEF IInv, Fits
<1>3. obj[o].capacity_ \in Nat /\ obj[o].size_ \in Nat
  BY <1>1 DEF Members
<1>4. /\ Room \in Nat /\ MaxCapacity \in Nat /\ WordSize \in Nat
      /\ MaxCapacity < WordSize /\ Room < WordSize
  BY StringsAssumption
<1>5. obj[o].capacity_ <= MaxLength /\ obj[o].capacity_ < WordSize
  BY <1>2, <1>3, <1>4 DEF MaxLength
<1>6. CASE o \in String
  <2>1. obj[o].size_ > 0
    BY <1>6 DEF IInv, Ended
  <2>2. obj[o].size_ - 1 \in 0..(WordSize - 1) /\ WordSize \in Nat \ {0}
    BY <1>2, <1>3, <1>4, <1>5, <2>1
  <2>3. (obj[o].size_ - 1) % WordSize = obj[o].size_ - 1
    BY <2>2, ModOneTurn
  <2> QED BY <1>1, <1>2, <1>3, <1>5, <1>6, <2>1, <2>3 DEF size, capacity
<1>7. CASE o \notin String
  BY <1>1, <1>2, <1>3, <1>5, <1>7 DEF size, capacity
<1> QED BY <1>6, <1>7

\* A client copies from bytes that exist.
LEMMA SourceExists ==
  ASSUME IInv, NEW v \in Sources
  PROVE  /\ \E n \in {MaxCapacity, Room, Len(Literal)} : v.len <= n
         /\ v.data \in Memory /\ v.from \in Nat /\ v.len \in Nat
         /\ v.from + v.len <= Len(mem[v.data])
         /\ v.len \in 0..Len(mem[v.data])
<1>1. CASE /\ v.data = Static
           /\ \E i, n \in 0..Len(Literal) : v = View(Static, i, n) /\ i + n <= Len(Literal)
  <2>1. Len(Literal) \in Nat
    BY StringsAssumption, LenProperties
  <2> QED BY <1>1, <2>1 DEF IInv, Types, Memory, View
<1>2. CASE \E o \in live : Valid(o) /\ \E i, n \in 0..size(o) :
             v = View(obj[o].data, i, n) /\ i + n <= size(o)
  <2>1. PICK o \in live : Valid(o) /\ \E i, n \in 0..size(o) :
             v = View(obj[o].data, i, n) /\ i + n <= size(o)
    BY <1>2
  <2>2. obj[o] \in Members /\ o \in Object /\ obj[o].data \in Memory
    BY <2>1 DEF IInv, Types, Memory, Members, Valid
  <2>3. size(o) \in Nat /\ size(o) <= Len(mem[obj[o].data])
    BY <2>1, <2>2, SizeFits
  <2>4. PICK i, n \in 0..size(o) : v = View(obj[o].data, i, n) /\ i + n <= size(o)
    BY <2>1
  <2>5. size(o) <= MaxCapacity \/ size(o) <= Room
    <3>1. Len(mem[obj[o].data]) = obj[o].capacity_ /\ obj[o].capacity_ <= MaxLength
      BY <2>1, <2>2, SizeFits
    <3>2. MaxLength \in {Room, MaxCapacity} /\ Room \in Nat /\ MaxCapacity \in Nat
      BY StringsAssumption DEF MaxLength
    <3>3. size(o) <= MaxLength
      BY <2>3, <3>1, <3>2
    <3> QED BY <3>2, <3>3
  <2>6. MaxCapacity \in Nat /\ Room \in Nat
    BY StringsAssumption
  <2>7. v.data = obj[o].data /\ v.from = i /\ v.len = n
    BY <2>4 DEF View
  <2> QED BY <2>2, <2>3, <2>4, <2>5, <2>6, <2>7
<1> QED BY <1>1, <1>2 DEF Sources, Parts, View

-------------------------------------------------------------------------------
(* Operations *)

\* The bytes and the count of one object change, and nothing else.
LEMMA Rewritten ==
  ASSUME IInv, NEW o \in Object, Valid(o), NEW n \in Nat, n <= obj[o].capacity_,
         live' = live, obj' = [obj EXCEPT ![o].size_ = n], mem' \in [Memory -> Seq(Cell)],
         \A k \in Memory : Len(mem'[k]) = Len(mem[k]),
         \A k \in Memory : k # obj[o].data => mem'[k] = mem[k],
         o \in String => n > 0 /\ mem'[obj[o].data][n] = NUL
  PROVE  IInv'
<1>1. obj[o].data \in Memory \ {Static} /\ obj[o] \in Members
  BY SizeFits DEF IInv, Types
<1>2. /\ obj' \in [Object -> Members]
      /\ obj'[o].size_ = n /\ obj'[o].data = obj[o].data /\ (obj'[o].owner_ <=> obj[o].owner_)
      /\ obj'[o].capacity_ = obj[o].capacity_
      /\ \A p \in Object : p # o => obj'[p] = obj[p]
  BY <1>1 DEF IInv, Types, Members
<1>3. \A p \in Object : /\ obj'[p].data = obj[p].data /\ (obj'[p].owner_ <=> obj[p].owner_)
                       /\ obj'[p].capacity_ = obj[p].capacity_
                       /\ p # o => obj'[p].size_ = obj[p].size_
  BY <1>2 DEF Valid
<1>4. \A p \in Object : Valid(p) => obj[p].data \in Memory
  BY SizeFits
<1>5. Types'
  BY <1>1, <1>2 DEF IInv, Types, Memory
<1>6. Fits'
  <2> SUFFICES ASSUME NEW p \in Object
               PROVE  /\ Valid(p)' =>
                           /\ p \in live' /\ (obj'[p].owner_ <=> obj'[p].data \in Block)
                           /\ Len(mem'[obj'[p].data]) = obj'[p].capacity_ /\ obj'[p].capacity_ > 0
                           /\ obj'[p].capacity_ <=
                                (IF obj'[p].data \in Block THEN MaxCapacity ELSE Room)
                      /\ ~Valid(p)' => obj'[p].capacity_ = 0
                      /\ obj'[p].size_ <= obj'[p].capacity_
    BY DEF Fits
  <2>1. CASE Valid(p)
    <3>1. Len(mem'[obj[p].data]) = Len(mem[obj[p].data])
      BY <1>4, <2>1
    <3> QED BY <1>2, <1>3, <2>1, <3>1 DEF IInv, Fits, Valid
  <2>2. CASE ~Valid(p)
    BY <1>3, <2>2 DEF IInv, Fits, Valid
  <2> QED BY <2>1, <2>2
<1>7. Unshared'
  BY <1>3 DEF IInv, Unshared, Valid
<1>8. Held'
  <2> SUFFICES ASSUME NEW k \in Block, mem'[k] # << >>
               PROVE  \E p \in Object : obj'[p].data = k
    BY DEF Held
  <2>1. CASE k = obj[o].data
    BY <1>3, <2>1
  <2>2. CASE k # obj[o].data
    BY <1>3, <2>2 DEF IInv, Held, Memory
  <2> QED BY <2>1, <2>2
<1>9. Ended'
  <2> SUFFICES ASSUME NEW s \in String, Valid(s)
               PROVE  /\ obj[s].data \in Block /\ obj'[s].size_ > 0
                      /\ mem'[obj[s].data][obj'[s].size_] = NUL
    BY <1>3 DEF Ended, Object, Valid
  <2>1. CASE s = o
    BY <1>2, <2>1 DEF IInv, Ended
  <2>2. CASE s # o
    <3>1. s \in Object /\ obj[s].data # obj[o].data /\ obj[s].data \in Memory
      BY <1>4, <2>2 DEF Object, IInv, Unshared
    <3> QED BY <1>2, <2>2, <3>1 DEF IInv, Ended
  <2> QED BY <2>1, <2>2
<1> QED BY <1>5, <1>6, <1>7, <1>8, <1>9 DEF IInv

\* An object begins to exist over an allocation of its own, or over the array.
LEMMA MadeOver ==
  ASSUME IInv, NEW o \in Object, o \notin live, live' = live \cup {o},
         NEW k \in Memory \ {Static}, NEW b \in Seq(Cell), NEW n \in Nat,
         NEW owner \in BOOLEAN, owner <=> k \in Block,
         \A p \in Object : obj[p].data # k,
         k = Array => Len(b) = Room,
         Len(b) > 0, Len(b) <= (IF k \in Block THEN MaxCapacity ELSE Room), n <= Len(b),
         o \in String => k \in Block /\ n > 0 /\ b[n] = NUL,
         obj' = [obj EXCEPT ![o] = [data |-> k, capacity_ |-> Len(b), owner_ |-> owner, size_ |-> n]],
         mem' = [mem EXCEPT ![k] = b]
  PROVE  IInv'
<1>1. k # Null /\ k \in Block \cup {Null, Array} /\ Null \notin Memory
  BY StringsAssumption DEF Memory, Null, Static, Array
<1>2. /\ obj'[o].data = k /\ obj'[o].capacity_ = Len(b) /\ (obj'[o].owner_ <=> k \in Block)
      /\ obj'[o].size_ = n /\ \A p \in Object : p # o => obj'[p] = obj[p]
  BY DEF IInv, Types
<1>3. mem'[k] = b /\ \A j \in Memory : j # k => mem'[j] = mem[j]
  BY DEF IInv, Types
<1>4. \A p \in Object : Valid(p) => obj[p].data \in Memory
  BY SizeFits
<1>5. Types'
  <2>1. [data |-> k, capacity_ |-> Len(b), owner_ |-> owner, size_ |-> n] \in Members
    BY <1>1, LenProperties DEF Members
  <2> QED BY <1>3, <2>1 DEF IInv, Types, Memory
<1>6. Fits'
  <2> SUFFICES ASSUME NEW p \in Object
               PROVE  /\ Valid(p)' =>
                           /\ p \in live' /\ (obj'[p].owner_ <=> obj'[p].data \in Block)
                           /\ Len(mem'[obj'[p].data]) = obj'[p].capacity_ /\ obj'[p].capacity_ > 0
                           /\ obj'[p].capacity_ <=
                                (IF obj'[p].data \in Block THEN MaxCapacity ELSE Room)
                      /\ ~Valid(p)' => obj'[p].capacity_ = 0
                      /\ obj'[p].size_ <= obj'[p].capacity_
    BY DEF Fits
  <2>1. CASE p = o
    BY <1>1, <1>2, <1>3, <2>1 DEF Valid
  <2>2. CASE p # o
    BY <1>2, <1>3, <1>4, <2>2 DEF IInv, Fits, Valid
  <2> QED BY <2>1, <2>2
<1>7. Unshared'
  BY <1>2 DEF IInv, Unshared, Valid
<1>8. Held'
  <2> SUFFICES ASSUME NEW j \in Block, mem'[j] # << >>
               PROVE  \E p \in Object : obj'[p].data = j
    BY DEF Held
  <2>1. CASE j = k
    BY <1>2, <2>1
  <2>2. CASE j # k
    <3>1. PICK p \in Object : obj[p].data = j
      BY <1>3, <2>2 DEF IInv, Held, Memory
    <3>2. p # o
      <4>1. ~Valid(o)
        BY DEF IInv, Fits
      <4>2. j # Null
        BY StringsAssumption
      <4> QED BY <3>1, <4>1, <4>2 DEF Valid
    <3> QED BY <1>2, <3>1, <3>2
  <2> QED BY <2>1, <2>2
<1>9. Ended'
  <2> SUFFICES ASSUME NEW s \in String, Valid(s)'
               PROVE  /\ obj'[s].data \in Block /\ obj'[s].size_ > 0
                      /\ mem'[obj'[s].data][obj'[s].size_] = NUL
    BY DEF Ended
  <2>1. CASE s = o
    BY <1>2, <1>3, <2>1
  <2>2. CASE s # o
    <3>1. s \in Object /\ Valid(s) /\ obj'[s] = obj[s]
      BY <1>2, <2>2 DEF Object, Valid
    <3> QED BY <1>3, <1>4, <3>1 DEF IInv, Ended
  <2> QED BY <2>1, <2>2
<1> QED BY <1>5, <1>6, <1>7, <1>8, <1>9 DEF IInv

\* The members of s, and its memory, pass to d; what d had is released.
LEMMA Moved ==
  ASSUME IInv, NEW d \in Object, NEW s \in live, d # s, SameClass(d, s),
         live' = live \cup {d}, mem' = Released(d),
         obj' \in [Object -> Members], obj'[d] = obj[s], obj'[s] = NullBuffer,
         \A p \in Object \ {d, s} : obj'[p] = obj[p]
  PROVE  IInv'
<1>1. s \in Object /\ Null \notin Memory /\ Static \notin Block /\ Array \notin Block
  BY StringsAssumption DEF IInv, Types, Memory, Null, Static, Array
<1>2. \A p \in Object : Valid(p) => obj[p].data \in Memory \ {Static}
  BY SizeFits
<1>3. /\ mem' \in [Memory -> Seq(Cell)] /\ mem'[Static] = Literal /\ Len(mem'[Array]) = Room
      /\ \A k \in Memory : k # obj[d].data => mem'[k] = mem[k]
      /\ \A k \in Block : k = obj[d].data => mem'[k] = << >>
  <2>1. CASE Valid(d)
    <3>1. << >> \in Seq(Cell) /\ Unwritten \in Seq(Cell) /\ Len(Unwritten) = Room
      BY EmptySeq, StringsAssumption, FunctionIsSeq DEF Unwritten, Cell
    <3>2. obj[d].data \in Block <=> obj[d].owner_
      BY <2>1 DEF IInv, Fits
    <3>3. PICK b \in {<< >>, Unwritten} : b = IF obj[d].owner_ THEN << >> ELSE Unwritten
      OBVIOUS
    <3>4. mem' = [mem EXCEPT ![obj[d].data] = b]
      BY <2>1, <3>3 DEF Released
    <3>5. obj[d].data = Array => b = Unwritten
      BY <1>1, <3>2, <3>3
    <3>6. /\ mem' \in [Memory -> Seq(Cell)] /\ mem'[obj[d].data] = b
          /\ \A k \in Memory : k # obj[d].data => mem'[k] = mem[k]
      BY <1>2, <2>1, <3>1, <3>3, <3>4 DEF IInv, Types
    <3>7. Static \in Memory /\ Array \in Memory /\ obj[d].data # Static
      BY <1>2, <2>1 DEF Memory
    <3>8. Len(mem'[Array]) = Room
      BY <3>1, <3>5, <3>6, <3>7 DEF IInv, Types
    <3> QED BY <3>2, <3>3, <3>6, <3>7, <3>8 DEF IInv, Types
  <2>2. CASE ~Valid(d)
    BY <1>1, <2>2 DEF Released, Valid, IInv, Types, Memory
  <2> QED BY <2>1, <2>2
<1>4. Types'
  BY <1>1, <1>3 DEF IInv, Types
<1>5. \A p \in Object : p # d /\ Valid(p) => mem'[obj[p].data] = mem[obj[p].data]
  <2> SUFFICES ASSUME NEW p \in Object, p # d, Valid(p)
               PROVE  mem'[obj[p].data] = mem[obj[p].data]
    OBVIOUS
  <2>1. obj[p].data # obj[d].data
    BY DEF IInv, Unshared, Valid
  <2> QED BY <1>2, <1>3, <2>1
<1>6. Fits'
  <2> SUFFICES ASSUME NEW p \in Object
               PROVE  /\ Valid(p)' =>
                           /\ p \in live' /\ (obj'[p].owner_ <=> obj'[p].data \in Block)
                           /\ Len(mem'[obj'[p].data]) = obj'[p].capacity_ /\ obj'[p].capacity_ > 0
                           /\ obj'[p].capacity_ <=
                                (IF obj'[p].data \in Block THEN MaxCapacity ELSE Room)
                      /\ ~Valid(p)' => obj'[p].capacity_ = 0
                      /\ obj'[p].size_ <= obj'[p].capacity_
    BY DEF Fits
  <2>1. CASE p = d
    BY <1>1, <1>5, <2>1 DEF IInv, Fits, Valid
  <2>2. CASE p = s
    BY <2>2 DEF NullBuffer, Valid
  <2>3. CASE p \notin {d, s}
    BY <1>5, <2>3 DEF IInv, Fits, Valid
  <2> QED BY <2>1, <2>2, <2>3
<1>7. Unshared'
  BY <1>1 DEF IInv, Unshared, Valid, NullBuffer
<1>8. Held'
  <2> SUFFICES ASSUME NEW k \in Block, mem'[k] # << >>
               PROVE  \E p \in Object : obj'[p].data = k
    BY DEF Held
  <2>1. k # obj[d].data /\ mem[k] # << >>
    BY <1>3 DEF Memory
  <2>2. PICK p \in Object : obj[p].data = k
    BY <2>1 DEF IInv, Held
  <2> QED BY <1>1, <2>1, <2>2
<1>9. Ended'
  <2> SUFFICES ASSUME NEW p \in String, Valid(p)'
               PROVE  /\ obj'[p].data \in Block /\ obj'[p].size_ > 0
                      /\ mem'[obj'[p].data][obj'[p].size_] = NUL
    BY DEF Ended
  <2>1. p # s
    BY DEF Valid, NullBuffer
  <2>2. CASE p = d
    <3>1. s \in String /\ Valid(s)
      BY <2>2 DEF SameClass, Valid
    <3> QED BY <1>1, <1>5, <2>2, <3>1 DEF IInv, Ended
  <2>3. CASE p # d
    <3>1. p \in Object /\ Valid(p) /\ obj'[p] = obj[p]
      BY <2>1, <2>3 DEF Object, Valid
    <3> QED BY <1>5, <2>3, <3>1 DEF IInv, Ended
  <2> QED BY <2>2, <2>3
<1> QED BY <1>4, <1>6, <1>7, <1>8, <1>9 DEF IInv

\* The destructor of an object.
LEMMA Destroyed ==
  ASSUME IInv, NEW d \in Object, Destroy(d)
  PROVE  IInv'
<1>1. Null \notin Memory /\ Static \notin Block /\ Array \notin Block
  BY StringsAssumption DEF Memory, Null, Static, Array
<1>2. /\ live' = live \ {d} /\ obj'[d] = NullBuffer
      /\ \A p \in Object : p # d => obj'[p] = obj[p]
  BY DEF IInv, Types, Destroy
<1>3. NullBuffer \in Members
  BY DEF NullBuffer, Members
<1>4. \A p \in Object : Valid(p) => obj[p].data \in Memory \ {Static}
  BY SizeFits
<1>5. /\ mem' \in [Memory -> Seq(Cell)] /\ mem'[Static] = Literal /\ Len(mem'[Array]) = Room
      /\ \A k \in Memory : k # obj[d].data => mem'[k] = mem[k]
      /\ \A k \in Block : k = obj[d].data => mem'[k] = << >>
  <2>1. CASE Valid(d)
    <3>1. << >> \in Seq(Cell) /\ Unwritten \in Seq(Cell) /\ Len(Unwritten) = Room
      BY EmptySeq, StringsAssumption, FunctionIsSeq DEF Unwritten, Cell
    <3>2. obj[d].data \in Block <=> obj[d].owner_
      BY <2>1 DEF IInv, Fits
    <3>3. PICK b \in {<< >>, Unwritten} : b = IF obj[d].owner_ THEN << >> ELSE Unwritten
      OBVIOUS
    <3>4. mem' = [mem EXCEPT ![obj[d].data] = b]
      BY <2>1, <3>3 DEF Released, Destroy
    <3>5. obj[d].data = Array => b = Unwritten
      BY <1>1, <3>2, <3>3
    <3>6. /\ mem' \in [Memory -> Seq(Cell)] /\ mem'[obj[d].data] = b
          /\ \A k \in Memory : k # obj[d].data => mem'[k] = mem[k]
      BY <1>4, <2>1, <3>1, <3>3, <3>4 DEF IInv, Types
    <3>7. Static \in Memory /\ Array \in Memory /\ obj[d].data # Static
      BY <1>4, <2>1 DEF Memory
    <3>8. Len(mem'[Array]) = Room
      BY <3>1, <3>5, <3>6, <3>7 DEF IInv, Types
    <3> QED BY <3>2, <3>3, <3>6, <3>7, <3>8 DEF IInv, Types
  <2>2. CASE ~Valid(d)
    BY <1>1, <2>2 DEF Released, Destroy, Valid, IInv, Types, Memory
  <2> QED BY <2>1, <2>2
<1>6. Types'
  <2>1. obj' \in [Object -> Members]
    BY <1>3 DEF IInv, Types, Destroy
  <2> QED BY <1>2, <1>5, <2>1 DEF IInv, Types
<1>7. \A p \in Object : p # d /\ Valid(p) => mem'[obj[p].data] = mem[obj[p].data]
  <2> SUFFICES ASSUME NEW p \in Object, p # d, Valid(p)
               PROVE  mem'[obj[p].data] = mem[obj[p].data]
    OBVIOUS
  <2>1. obj[p].data # obj[d].data
    BY DEF IInv, Unshared, Valid
  <2> QED BY <1>4, <1>5, <2>1
<1>8. Fits'
  <2> SUFFICES ASSUME NEW p \in Object
               PROVE  /\ Valid(p)' =>
                           /\ p \in live' /\ (obj'[p].owner_ <=> obj'[p].data \in Block)
                           /\ Len(mem'[obj'[p].data]) = obj'[p].capacity_ /\ obj'[p].capacity_ > 0
                           /\ obj'[p].capacity_ <=
                                (IF obj'[p].data \in Block THEN MaxCapacity ELSE Room)
                      /\ ~Valid(p)' => obj'[p].capacity_ = 0
                      /\ obj'[p].size_ <= obj'[p].capacity_
    BY DEF Fits
  <2>1. CASE p = d
    BY <1>2, <2>1 DEF NullBuffer, Valid
  <2>2. CASE p # d
    BY <1>2, <1>7, <2>2 DEF IInv, Fits, Valid
  <2> QED BY <2>1, <2>2
<1>9. Unshared'
  BY <1>2 DEF IInv, Unshared, Valid, NullBuffer
<1>10. Held'
  <2> SUFFICES ASSUME NEW k \in Block, mem'[k] # << >>
               PROVE  \E p \in Object : obj'[p].data = k
    BY DEF Held
  <2>1. k # obj[d].data /\ mem[k] # << >>
    BY <1>5 DEF Memory
  <2>2. PICK p \in Object : obj[p].data = k
    BY <2>1 DEF IInv, Held
  <2> QED BY <1>2, <2>1, <2>2
<1>11. Ended'
  <2> SUFFICES ASSUME NEW p \in String, Valid(p)'
               PROVE  /\ obj'[p].data \in Block /\ obj'[p].size_ > 0
                      /\ mem'[obj'[p].data][obj'[p].size_] = NUL
    BY DEF Ended
  <2>1. p # d /\ p \in Object
    BY <1>2 DEF Valid, NullBuffer, Object
  <2>2. Valid(p) /\ obj'[p] = obj[p]
    BY <1>2, <2>1 DEF Valid
  <2> QED BY <1>7, <2>1, <2>2 DEF IInv, Ended
<1> QED BY <1>6, <1>8, <1>9, <1>10, <1>11 DEF IInv

\* What resize() leaves in memory: a String's NUL is stored, all other bytes stay.
LEMMA Resized ==
  ASSUME IInv, NEW o \in Object, Valid(o), NEW n \in Nat, n <= capacity(o)
  PROVE  /\ SizeFor(o, n) \in Nat /\ SizeFor(o, n) <= obj[o].capacity_
         /\ AfterResize(o, n) \in [Memory -> Seq(Cell)]
         /\ \A k \in Memory : Len(AfterResize(o, n)[k]) = Len(mem[k])
         /\ \A k \in Memory : k # obj[o].data => AfterResize(o, n)[k] = mem[k]
         /\ \A j \in 1..obj[o].capacity_ :
              j # n + 1 => AfterResize(o, n)[obj[o].data][j] = mem[obj[o].data][j]
         /\ o \in String => /\ SizeFor(o, n) = n + 1
                           /\ AfterResize(o, n)[obj[o].data][n + 1] = NUL
<1>1. /\ obj[o].data \in Memory /\ obj[o].capacity_ \in Nat
      /\ Len(mem[obj[o].data]) = obj[o].capacity_
      /\ o \in String => capacity(o) = obj[o].capacity_ - 1
      /\ o \notin String => capacity(o) = obj[o].capacity_
  BY SizeFits
<1>2. mem \in [Memory -> Seq(Cell)]
  BY DEF IInv, Types
<1>3. CASE o \in String
  <2>1. PICK d \in Memory : d = obj[o].data
    BY <1>1
  <2>2. PICK b \in Seq(Cell) : b = << NUL >> /\ Len(b) = 1 /\ b[1] = NUL
    <3>1. << NUL >> \in Seq(Cell) /\ Len(<< NUL >>) = 1 /\ << NUL >>[1] = NUL
      BY StringsAssumption DEF Cell
    <3> QED BY <3>1
  <2>3. PICK m : m = Stored(mem, d, n, b)
    OBVIOUS
  <2>4. m \in [Memory -> Seq(Cell)] /\ \A k \in Memory : Len(m[k]) = Len(mem[k])
    <3>1. m \in [Memory -> Seq(Cell)]
      BY <1>2, <2>3, StoredBytes
    <3>2. \A k \in Memory : Len(m[k]) = Len(mem[k])
      BY <1>2, <2>3, StoredBytes
    <3> QED BY <3>1, <3>2
  <2>5. \A k \in Memory : k # d => m[k] = mem[k]
    BY <1>2, <2>3, StoredBytes
  <2>6. m[d][n + 1] = NUL
    <3>1. \A j \in 1..Len(b) : n + j <= Len(mem[d]) => m[d][n + j] = b[j]
      BY <1>2, <2>3, StoredBytes
    <3>2. n + 1 <= Len(mem[d])
      BY <1>1, <1>3, <2>1
    <3> QED BY <2>2, <3>1, <3>2
  <2>7. ASSUME NEW j \in 1..obj[o].capacity_, j # n + 1
        PROVE  m[d][j] = mem[d][j]
    <3>1. \A i \in 1..Len(mem[d]) : i <= n \/ i > n + Len(b) => m[d][i] = mem[d][i]
      BY <1>2, <2>3, StoredBytes
    <3>2. j \in 1..Len(mem[d]) /\ (j <= n \/ j > n + Len(b))
      BY <1>1, <2>1, <2>2, <2>7
    <3> QED BY <3>1, <3>2
  <2>8. AfterResize(o, n) = m /\ SizeFor(o, n) = n + 1
    BY <1>3, <2>1, <2>2, <2>3 DEF AfterResize, SizeFor
  <2>9. n + 1 <= obj[o].capacity_
    BY <1>1, <1>3
  <2> QED BY <2>1, <2>4, <2>5, <2>6, <2>7, <2>8, <2>9
<1>4. CASE o \notin String
  BY <1>1, <1>2, <1>4 DEF AfterResize, SizeFor
<1> QED BY <1>3, <1>4

\* The bytes that a client copies, in a memory whose sizes are those of mem.
LEMMA ReadBytes ==
  ASSUME IInv, NEW v \in Sources, NEW m \in [Memory -> Seq(Cell)],
         \A k \in Memory : Len(m[k]) = Len(mem[k])
  PROVE  /\ Read(m, v) \in Seq(Cell) /\ Len(Read(m, v)) = v.len
         /\ \A j \in 1..v.len : Read(m, v)[j] = m[v.data][v.from + j]
<1>1. /\ v.data \in Memory /\ v.from \in Nat /\ v.len \in Nat
      /\ v.from + v.len <= Len(m[v.data])
  BY SourceExists
<1>2. PICK s \in Seq(Cell) : s = m[v.data]
  BY <1>1
<1>3. \A i \in (v.from + 1)..(v.from + v.len) : s[i] \in Cell
  BY <1>1, <1>2, ElementOfSeq
<1>4. PICK a \in Nat, z \in Nat : a = v.from + 1 /\ z = v.from + v.len
  BY <1>1
<1>5. /\ SubSeq(s, a, z) \in Seq(Cell) /\ Len(SubSeq(s, a, z)) = (IF a <= z THEN z - a + 1 ELSE 0)
      /\ \A j \in 1..(z - a + 1) : SubSeq(s, a, z)[j] = s[a + j - 1]
  BY <1>3, <1>4, SubSeqProperties
<1>6. Read(m, v) = SubSeq(s, a, z)
  BY <1>2, <1>4 DEF Read
<1>7. z - a + 1 = v.len /\ (IF a <= z THEN z - a + 1 ELSE 0) = v.len
  BY <1>1, <1>4
<1>8. \A j \in 1..v.len : a + j - 1 = v.from + j
  BY <1>1, <1>4
<1> QED BY <1>2, <1>5, <1>6, <1>7, <1>8

\* What a call leaves in memory that resizes and then copies to below the new size.
LEMMA ResizedAndCopied ==
  ASSUME IInv, NEW o \in Object, Valid(o), NEW n \in Nat, n <= capacity(o),
         NEW v \in Sources, NEW i \in Nat, i + v.len <= n,
         ResizeAndCopy(o, n, v, i)
  PROVE  /\ mem' \in [Memory -> Seq(Cell)]
         /\ \A k \in Memory : Len(mem'[k]) = Len(mem[k])
         /\ \A k \in Memory : k # obj[o].data => mem'[k] = mem[k]
         /\ \A j \in 1..v.len : mem'[obj[o].data][i + j] = AfterResize(o, n)[v.data][v.from + j]
         /\ \A j \in 1..n : j <= i \/ j > i + v.len => mem'[obj[o].data][j] = mem[obj[o].data][j]
         /\ o \in String => mem'[obj[o].data][n + 1] = NUL
<1>1. PICK m : m = AfterResize(o, n)
  OBVIOUS
<1>2. PICK b : b = Read(m, v)
  OBVIOUS
<1>3. mem' = Stored(m, obj[o].data, i, b)
  BY <1>1, <1>2 DEF ResizeAndCopy
<1>4. /\ obj[o].data \in Memory /\ obj[o].capacity_ \in Nat
      /\ Len(mem[obj[o].data]) = obj[o].capacity_
      /\ o \in String => capacity(o) = obj[o].capacity_ - 1
      /\ o \notin String => capacity(o) = obj[o].capacity_
  BY SizeFits
<1>5. /\ m \in [Memory -> Seq(Cell)]
      /\ \A k \in Memory : Len(m[k]) = Len(mem[k])
      /\ \A k \in Memory : k # obj[o].data => m[k] = mem[k]
      /\ \A j \in 1..obj[o].capacity_ : j # n + 1 => m[obj[o].data][j] = mem[obj[o].data][j]
      /\ o \in String => m[obj[o].data][n + 1] = NUL
  BY <1>1, Resized
<1>6. /\ b \in Seq(Cell) /\ Len(b) = v.len
      /\ \A j \in 1..v.len : b[j] = m[v.data][v.from + j]
  BY <1>2, <1>5, ReadBytes
<1>7. v.len \in Nat /\ v.from \in Nat
  BY SourceExists
<1>8. PICK d \in Memory : d = obj[o].data
  BY <1>4
<1>9. Len(m[d]) = obj[o].capacity_ /\ n <= Len(m[d]) /\ (o \in String => n + 1 <= Len(m[d]))
  BY <1>4, <1>5, <1>8
<1>10. mem' = Stored(m, d, i, b)
  BY <1>3, <1>8
<1>11. mem' \in [Memory -> Seq(Cell)] /\ \A k \in Memory : Len(mem'[k]) = Len(m[k])
  BY <1>5, <1>6, <1>10, StoredBytes
<1>12. \A k \in Memory : k # d => mem'[k] = m[k]
  BY <1>5, <1>6, <1>10, StoredBytes
<1>13. ASSUME NEW j \in 1..v.len
       PROVE  mem'[d][i + j] = m[v.data][v.from + j]
  <2>1. \A k \in 1..Len(b) : i + k <= Len(m[d]) => mem'[d][i + k] = b[k]
    BY <1>5, <1>6, <1>10, StoredBytes
  <2>2. j \in 1..Len(b) /\ i + j <= Len(m[d])
    BY <1>4, <1>6, <1>7, <1>9
  <2> QED BY <1>6, <2>1, <2>2
<1>14. \A k \in 1..Len(m[d]) : k <= i \/ k > i + Len(b) => mem'[d][k] = m[d][k]
  BY <1>5, <1>6, <1>10, StoredBytes
<1>15. ASSUME NEW j \in 1..n, j <= i \/ j > i + v.len
       PROVE  mem'[d][j] = mem[d][j]
  <2>1. j \in 1..Len(m[d]) /\ j \in 1..obj[o].capacity_ /\ j # n + 1 /\ (j <= i \/ j > i + Len(b))
    BY <1>4, <1>6, <1>9, <1>15
  <2> QED BY <1>5, <1>8, <1>14, <2>1
<1>16. ASSUME o \in String
       PROVE  mem'[d][n + 1] = NUL
  <2>1. n + 1 \in 1..Len(m[d]) /\ n + 1 > i + Len(b)
    BY <1>4, <1>6, <1>7, <1>9, <1>16
  <2> QED BY <1>5, <1>8, <1>14, <1>16, <2>1
<1> QED BY <1>1, <1>5, <1>8, <1>11, <1>12, <1>13, <1>15, <1>16

\* An object is made with storage for s and more, or finds no memory.
LEMMA Constructed ==
  ASSUME IInv, NEW o \in Object, NEW n \in Nat, NEW s \in Seq(Cell), n > 0 => Len(s) <= n,
         o \in String => Len(s) > 0 /\ s[Len(s)] = NUL,
         Construct(o, n, s)
  PROVE  IInv'
<1>1. o \notin live /\ live' = live \cup {o} /\ ~Valid(o)
  BY DEF Construct, Made, IInv, Fits
<1>2. PICK k \in Allocations(n) :
        IF k = Null
        THEN obj' = [obj EXCEPT ![o] = [NullBuffer EXCEPT !.owner_ = TRUE]] /\ UNCHANGED mem
        ELSE /\ obj' = [obj EXCEPT ![o] = [data |-> k, capacity_ |-> n, owner_ |-> TRUE,
                                           size_ |-> Len(s)]]
             /\ mem' = [mem EXCEPT ![k] = [i \in 1..n |-> IF i <= Len(s) THEN s[i] ELSE Junk]]
  BY DEF Construct
<1>3. CASE k = Null
  <2>1. obj' = [obj EXCEPT ![o] = [data |-> Null, capacity_ |-> 0, owner_ |-> TRUE, size_ |-> 0]]
    BY <1>2, <1>3 DEF NullBuffer
  <2>2. mem' = mem
    BY <1>2, <1>3
  <2>3. [data |-> Null, capacity_ |-> 0, owner_ |-> TRUE, size_ |-> 0] \in Members
    BY DEF Members
  <2>4. /\ obj'[o].data = Null /\ obj'[o].capacity_ = 0 /\ obj'[o].size_ = 0
        /\ \A p \in Object : p # o => obj'[p] = obj[p]
    BY <2>1 DEF IInv, Types
  <2>5. Types'
    BY <1>1, <2>1, <2>2, <2>3 DEF IInv, Types
  <2>6. Fits'
    BY <1>1, <2>2, <2>4 DEF IInv, Fits, Valid
  <2>7. Unshared'
    BY <2>4 DEF IInv, Unshared, Valid
  <2>8. Held'
    BY <1>1, <2>2, <2>4, StringsAssumption DEF IInv, Held, Valid
  <2>9. Ended'
    BY <2>2, <2>4 DEF IInv, Ended, Valid, Object
  <2> QED BY <2>5, <2>6, <2>7, <2>8, <2>9 DEF IInv
<1>4. CASE k # Null
  <2>1. k \in Block /\ mem[k] = << >> /\ n \in 1..MaxCapacity
    BY <1>4 DEF Allocations
  <2>2. k \in Memory \ {Static} /\ k # Array
    BY <2>1, StringsAssumption DEF Memory
  <2>3. PICK b : b = [i \in 1..n |-> IF i <= Len(s) THEN s[i] ELSE Junk]
    OBVIOUS
  <2>4. Len(s) \in Nat /\ Len(s) <= n
    BY <2>1, LenProperties
  <2>5. b \in Seq(Cell) /\ Len(b) = n
    <3>1. ASSUME NEW i \in 1..n
          PROVE  b[i] \in Cell
      <4>1. CASE i <= Len(s)
        <5>1. s[i] \in Cell
          BY <2>4, <4>1, ElementOfSeq
        <5> QED BY <2>3, <4>1, <5>1
      <4>2. CASE ~(i <= Len(s))
        BY <2>3, <4>2 DEF Cell
      <4> QED BY <4>1, <4>2
    <3>2. b \in [1..n -> Cell]
      BY <2>3, <3>1
    <3> QED BY <3>2, FunctionIsSeq
  <2>6. o \in String => b[Len(s)] = NUL
    BY <2>3, <2>4
  <2>7. ASSUME NEW p \in Object, obj[p].data = k
        PROVE  FALSE
    <3>1. Valid(p)
      BY <1>4, <2>7 DEF Valid
    <3>2. Len(mem[k]) > 0
      BY <2>7, <3>1, SizeFits
    <3> QED BY <2>1, <3>2, EmptySeq
  <2>8. /\ obj' = [obj EXCEPT ![o] = [data |-> k, capacity_ |-> Len(b), owner_ |-> TRUE,
                                      size_ |-> Len(s)]]
        /\ mem' = [mem EXCEPT ![k] = b]
    BY <1>2, <1>4, <2>3, <2>5
  <2>9. Len(b) > 0 /\ Len(b) <= (IF k \in Block THEN MaxCapacity ELSE Room) /\ Len(s) <= Len(b)
    BY <2>1, <2>4, <2>5
  <2> QED BY <1>1, <2>1, <2>2, <2>4, <2>5, <2>6, <2>7, <2>8, <2>9, MadeOver
<1> QED BY <1>3, <1>4

\* Buffer(external)
LEMMA ArrayTaken ==
  ASSUME IInv, NEW o \in Object, BufferOverArray(o)
  PROVE  IInv'
<1>1. o \notin live /\ live' = live \cup {o} /\ o \notin String
  BY StringsAssumption DEF BufferOverArray, Made
<1>2. Array \in Memory \ {Static} /\ Array \notin Block /\ Array # Null
  BY StringsAssumption DEF Memory, Array, Static, Null
<1>3. PICK b \in Seq(Cell) : b = mem[Array] /\ Len(b) = Room
  BY <1>2 DEF IInv, Types
<1>4. mem' = [mem EXCEPT ![Array] = b]
  BY <1>3 DEF IInv, Types, BufferOverArray
<1>5. obj' = [obj EXCEPT ![o] = [data |-> Array, capacity_ |-> Len(b), owner_ |-> FALSE, size_ |-> 0]]
  BY <1>3 DEF BufferOverArray
<1>6. \A p \in Object : obj[p].data # Array
  BY <1>2 DEF BufferOverArray, IInv, Fits, Valid
<1>7. /\ Len(b) > 0 /\ Len(b) <= (IF Array \in Block THEN MaxCapacity ELSE Room)
      /\ 0 \in Nat /\ 0 <= Len(b) /\ FALSE \in BOOLEAN /\ (FALSE <=> Array \in Block)
  BY <1>2, <1>3, StringsAssumption
<1> QED BY <1>1, <1>2, <1>3, <1>4, <1>5, <1>6, <1>7, MadeOver

\* A String(n) whose n + 1 wraps asks for no byte and gets none.
LEMMA StringMade ==
  ASSUME IInv, NEW o \in Object, NEW n \in 0..(WordSize - 1), StringOfSize(o, n)
  PROVE  IInv'
<1>1. WordSize \in Nat \ {0} /\ (n + 1) % WordSize \in Nat
  BY StringsAssumption
<1>2. PICK k \in Nat : k = (n + 1) % WordSize
  BY <1>1
<1>3. PICK s \in Seq(Cell) : s = << NUL >> /\ Len(s) = 1 /\ s[1] = NUL
  <2>1. << NUL >> \in Seq(Cell) /\ Len(<< NUL >>) = 1 /\ << NUL >>[1] = NUL
    BY StringsAssumption DEF Cell
  <2> QED BY <2>1
<1>4. Construct(o, k, s)
  BY <1>2, <1>3 DEF StringOfSize
<1>5. (k > 0 => Len(s) <= k) /\ (o \in String => Len(s) > 0 /\ s[Len(s)] = NUL)
  BY <1>3
<1> QED BY <1>4, <1>5, Constructed

\* A String made from a source.
LEMMA StringCopied ==
  ASSUME IInv, NEW o \in Object, NEW v \in Sources, StringFrom(o, v)
  PROVE  IInv'
<1>1. mem \in [Memory -> Seq(Cell)] /\ v.len \in Nat /\ NUL \in Cell
  BY SourceExists, StringsAssumption DEF IInv, Types, Cell
<1>2. PICK b \in Seq(Cell) : b = Read(mem, v) /\ Len(b) = v.len
  BY <1>1, ReadBytes
<1>3. PICK s \in Seq(Cell) : s = Append(b, NUL) /\ Len(s) = v.len + 1 /\ s[v.len + 1] = NUL
  <2>1. /\ Append(b, NUL) \in Seq(Cell) /\ Len(Append(b, NUL)) = Len(b) + 1
        /\ Append(b, NUL)[Len(b) + 1] = NUL
    BY <1>1, AppendProperties
  <2> QED BY <1>2, <2>1
<1>4. PICK n \in Nat : n = v.len + 1
  BY <1>1
<1>5. Construct(o, n, s)
  BY <1>2, <1>3, <1>4 DEF StringFrom
<1>6. (n > 0 => Len(s) <= n) /\ (o \in String => Len(s) > 0 /\ s[Len(s)] = NUL)
  BY <1>1, <1>3, <1>4
<1> QED BY <1>5, <1>6, Constructed

\* Buffer(capacity)
LEMMA BufferMade ==
  ASSUME IInv, NEW o \in Object, NEW n \in 0..(WordSize - 1), BufferOfCapacity(o, n)
  PROVE  IInv'
<1>1. n \in Nat /\ o \notin String
  BY StringsAssumption DEF BufferOfCapacity
<1>2. PICK s \in Seq(Cell) : s = << >> /\ Len(s) = 0
  BY EmptySeq
<1>3. Construct(o, n, s)
  BY <1>2 DEF BufferOfCapacity
<1>4. (n > 0 => Len(s) <= n) /\ (o \in String => Len(s) > 0 /\ s[Len(s)] = NUL)
  BY <1>1, <1>2
<1> QED BY <1>1, <1>3, <1>4, Constructed

\* resize()
LEMMA ResizeKeeps ==
  ASSUME IInv, NEW o \in Object, NEW n \in 0..(WordSize - 1), Resize(o, n)
  PROVE  IInv'
<1>1. n \in Nat /\ Valid(o) /\ n <= capacity(o)
  BY StringsAssumption DEF Resize
<1>2. mem' = AfterResize(o, n) /\ live' = live /\ obj' = [obj EXCEPT ![o].size_ = SizeFor(o, n)]
  BY DEF Resize
<1>3. PICK z \in Nat : z = SizeFor(o, n) /\ z <= obj[o].capacity_
  BY <1>1, Resized
<1>4. /\ mem' \in [Memory -> Seq(Cell)]
      /\ \A k \in Memory : Len(mem'[k]) = Len(mem[k])
      /\ \A k \in Memory : k # obj[o].data => mem'[k] = mem[k]
      /\ o \in String => z = n + 1 /\ mem'[obj[o].data][n + 1] = NUL
  BY <1>1, <1>2, <1>3, Resized
<1>5. o \in String => z > 0 /\ mem'[obj[o].data][z] = NUL
  BY <1>1, <1>4
<1> QED BY <1>1, <1>2, <1>3, <1>4, <1>5, Rewritten

\* What resizes and copies keeps the invariant.
LEMMA CopyKeeps ==
  ASSUME IInv, NEW o \in Object, Valid(o), NEW n \in Nat, n <= capacity(o),
         NEW v \in Sources, NEW i \in Nat, i + v.len <= n,
         ResizeAndCopy(o, n, v, i)
  PROVE  IInv'
<1>1. live' = live /\ obj' = [obj EXCEPT ![o].size_ = SizeFor(o, n)]
  BY DEF ResizeAndCopy
<1>2. PICK z \in Nat : z = SizeFor(o, n) /\ z <= obj[o].capacity_ /\ (o \in String => z = n + 1)
  BY Resized
<1>3. /\ mem' \in [Memory -> Seq(Cell)]
      /\ \A k \in Memory : Len(mem'[k]) = Len(mem[k])
      /\ \A k \in Memory : k # obj[o].data => mem'[k] = mem[k]
      /\ o \in String => mem'[obj[o].data][n + 1] = NUL
  BY ResizedAndCopied
<1>4. o \in String => z > 0 /\ mem'[obj[o].data][z] = NUL
  BY <1>2, <1>3
<1> QED BY <1>1, <1>2, <1>3, <1>4, Rewritten

\* assign()
LEMMA AssignKeeps ==
  ASSUME IInv, NEW o \in Object, NEW v \in Sources, Assign(o, v)
  PROVE  IInv'
<1>1. PICK n \in Nat : n = v.len
  BY SourceExists
<1>2. Valid(o) /\ ResizeAndCopy(o, n, v, 0) /\ n <= capacity(o) /\ 0 \in Nat /\ 0 + v.len <= n
  BY <1>1 DEF Assign, ResizeAndCopy
<1> QED BY <1>2, CopyKeeps

\* The sum of two sizes does not wrap.
LEMMA SumFits ==
  ASSUME IInv, NEW o \in Object, Valid(o), NEW v \in Sources
  PROVE  (size(o) + v.len) % WordSize = size(o) + v.len
<1>1. PICK n \in {MaxCapacity, Room, Len(Literal)} : v.len <= n
  BY SourceExists
<1>2. MaxLength \in {MaxCapacity, Room, Len(Literal)}
  BY DEF MaxLength
<1>3. MaxLength + n < WordSize /\ WordSize \in Nat /\ MaxLength \in Nat /\ n \in Nat
  <2>1. Len(Literal) \in Nat /\ Room \in Nat /\ MaxCapacity \in Nat
    BY StringsAssumption, LenProperties
  <2> QED BY <1>2, <2>1, StringsAssumption
<1>4. size(o) \in Nat /\ size(o) <= MaxLength
  <2>1. /\ size(o) \in Nat /\ size(o) <= Len(mem[obj[o].data]) /\ obj[o].capacity_ \in Nat
        /\ Len(mem[obj[o].data]) = obj[o].capacity_ /\ obj[o].capacity_ <= MaxLength
    BY SizeFits
  <2> QED BY <1>3, <2>1
<1>5. v.len \in Nat
  BY SourceExists
<1>6. size(o) + v.len \in 0..(WordSize - 1) /\ WordSize \in Nat \ {0}
  BY <1>1, <1>3, <1>4, <1>5
<1> QED BY <1>6, ModOneTurn

\* append()
LEMMA AppendKeeps ==
  ASSUME IInv, NEW o \in Object, NEW v \in Sources, AppendView(o, v)
  PROVE  IInv'
<1>1. Valid(o)
  BY DEF AppendView
<1>2. PICK i \in Nat : i = size(o)
  BY <1>1, SizeFits
<1>3. PICK n \in Nat : n = size(o) + v.len
  BY <1>2, SourceExists
<1>4. ResizeAndCopy(o, n, v, i) /\ n <= capacity(o)
  BY <1>1, <1>2, <1>3, SumFits DEF AppendView, ResizeAndCopy
<1>5. i + v.len <= n
  BY <1>2, <1>3
<1> QED BY <1>1, <1>4, <1>5, CopyKeeps

\* What push_back() leaves in memory.
LEMMA PushedBytes ==
  ASSUME IInv, NEW o \in Object, NEW c \in Byte, PushBack(o, c)
  PROVE  /\ mem' \in [Memory -> Seq(Cell)]
         /\ \A k \in Memory : Len(mem'[k]) = Len(mem[k])
         /\ \A k \in Memory : k # obj[o].data => mem'[k] = mem[k]
         /\ mem'[obj[o].data][size(o) + 1] = c
         /\ \A j \in 1..size(o) : mem'[obj[o].data][j] = mem[obj[o].data][j]
         /\ o \in String => mem'[obj[o].data][size(o) + 2] = NUL
<1>1. Valid(o) /\ size(o) < capacity(o)
  BY DEF PushBack
<1>2. /\ obj[o].data \in Memory /\ obj[o].capacity_ \in Nat
      /\ Len(mem[obj[o].data]) = obj[o].capacity_ /\ size(o) \in Nat /\ capacity(o) \in Nat
      /\ o \in String => capacity(o) = obj[o].capacity_ - 1
      /\ o \notin String => capacity(o) = obj[o].capacity_
  BY <1>1, SizeFits
<1>3. PICK n \in Nat : n = size(o) + 1 /\ n <= capacity(o)
  BY <1>1, <1>2
<1>4. PICK m : m = AfterResize(o, n)
  OBVIOUS
<1>5. /\ m \in [Memory -> Seq(Cell)]
      /\ \A k \in Memory : Len(m[k]) = Len(mem[k])
      /\ \A k \in Memory : k # obj[o].data => m[k] = mem[k]
      /\ \A j \in 1..obj[o].capacity_ : j # n + 1 => m[obj[o].data][j] = mem[obj[o].data][j]
      /\ o \in String => m[obj[o].data][n + 1] = NUL
  BY <1>1, <1>3, <1>4, Resized
<1>6. PICK b \in Seq(Cell) : b = << c >> /\ Len(b) = 1 /\ b[1] = c
  <2>1. << c >> \in Seq(Cell) /\ Len(<< c >>) = 1 /\ << c >>[1] = c
    BY DEF Cell
  <2> QED BY <2>1
<1>7. PICK d \in Memory : d = obj[o].data
  BY <1>2
<1>8. PICK i \in Nat : i = size(o)
  BY <1>2
<1>9. mem' = Stored(m, d, i, b)
  BY <1>3, <1>4, <1>6, <1>7, <1>8 DEF PushBack
<1>10. mem' \in [Memory -> Seq(Cell)] /\ \A k \in Memory : Len(mem'[k]) = Len(m[k])
  <2>1. mem' \in [Memory -> Seq(Cell)]
    BY <1>5, <1>9, StoredBytes
  <2>2. \A k \in Memory : Len(mem'[k]) = Len(m[k])
    BY <1>5, <1>9, StoredBytes
  <2> QED BY <2>1, <2>2
<1>11. \A k \in Memory : k # d => mem'[k] = m[k]
  BY <1>5, <1>9, StoredBytes
<1>12. \A j \in 1..Len(b) : i + j <= Len(m[d]) => mem'[d][i + j] = b[j]
  BY <1>5, <1>9, StoredBytes
<1>13. \A j \in 1..Len(m[d]) : j <= i \/ j > i + Len(b) => mem'[d][j] = m[d][j]
  BY <1>5, <1>9, StoredBytes
<1>14. Len(m[d]) = obj[o].capacity_ /\ i + 1 <= Len(m[d]) /\ (o \in String => i + 2 <= Len(m[d]))
  BY <1>2, <1>3, <1>5, <1>7, <1>8
<1>15. mem'[d][i + 1] = c
  BY <1>6, <1>12, <1>14
<1>16. ASSUME NEW j \in 1..i
       PROVE  mem'[d][j] = mem[d][j]
  <2>1. j \in 1..Len(m[d]) /\ j \in 1..obj[o].capacity_ /\ j # n + 1 /\ j <= i
    BY <1>2, <1>3, <1>8, <1>14
  <2> QED BY <1>5, <1>7, <1>13, <2>1
<1>17. ASSUME o \in String
       PROVE  mem'[d][i + 2] = NUL
  <2>1. i + 2 \in 1..Len(m[d]) /\ i + 2 > i + Len(b) /\ i + 2 = n + 1
    BY <1>2, <1>3, <1>6, <1>8, <1>14, <1>17
  <2> QED BY <1>5, <1>7, <1>13, <1>17, <2>1
<1> QED BY <1>5, <1>7, <1>8, <1>10, <1>11, <1>15, <1>16, <1>17

\* push_back()
LEMMA PushKeeps ==
  ASSUME IInv, NEW o \in Object, NEW c \in Byte, PushBack(o, c)
  PROVE  IInv'
<1>1. Valid(o) /\ size(o) < capacity(o) /\ live' = live
  BY DEF PushBack
<1>2. /\ obj[o].capacity_ \in Nat /\ obj[o].size_ \in Nat /\ size(o) \in Nat
      /\ o \in String => size(o) = obj[o].size_ - 1 /\ capacity(o) = obj[o].capacity_ - 1
      /\ o \notin String => size(o) = obj[o].size_ /\ capacity(o) = obj[o].capacity_
  BY <1>1, SizeFits
<1>3. PICK z \in Nat : z = obj[o].size_ + 1
  BY <1>2
<1>4. z <= obj[o].capacity_ /\ z > 0 /\ (o \in String => z = size(o) + 2)
  BY <1>1, <1>2, <1>3
<1>5. obj' = [obj EXCEPT ![o].size_ = z]
  BY <1>3 DEF PushBack
<1>6. o \in String => z > 0 /\ mem'[obj[o].data][z] = NUL
  BY <1>4, PushedBytes
<1>7. /\ mem' \in [Memory -> Seq(Cell)]
      /\ \A k \in Memory : Len(mem'[k]) = Len(mem[k])
      /\ \A k \in Memory : k # obj[o].data => mem'[k] = mem[k]
  BY PushedBytes
<1> QED BY <1>1, <1>4, <1>5, <1>6, <1>7, Rewritten

\* What a client's store leaves in memory.
LEMMA WrittenBytes ==
  ASSUME IInv, NEW o \in Object, NEW c \in Byte, NEW i \in Nat, Write(o, i, c)
  PROVE  /\ mem' \in [Memory -> Seq(Cell)]
         /\ \A k \in Memory : Len(mem'[k]) = Len(mem[k])
         /\ \A k \in Memory : k # obj[o].data => mem'[k] = mem[k]
         /\ mem'[obj[o].data][i + 1] = c
         /\ \A j \in 1..Len(mem[obj[o].data]) :
              j # i + 1 => mem'[obj[o].data][j] = mem[obj[o].data][j]
<1>1. Valid(o) /\ i < size(o)
  BY DEF Write
<1>2. obj[o].data \in Memory /\ size(o) \in Nat /\ size(o) <= Len(mem[obj[o].data])
  BY <1>1, SizeFits
<1>3. mem \in [Memory -> Seq(Cell)]
  BY DEF IInv, Types
<1>4. PICK b \in Seq(Cell) : b = << c >> /\ Len(b) = 1 /\ b[1] = c
  <2>1. << c >> \in Seq(Cell) /\ Len(<< c >>) = 1 /\ << c >>[1] = c
    BY DEF Cell
  <2> QED BY <2>1
<1>5. PICK d \in Memory : d = obj[o].data
  BY <1>2
<1>6. PICK m \in [Memory -> Seq(Cell)] : m = mem
  BY <1>3
<1>7. mem' = Stored(m, d, i, b)
  BY <1>4, <1>5, <1>6 DEF Write
<1>8. mem' \in [Memory -> Seq(Cell)] /\ \A k \in Memory : Len(mem'[k]) = Len(m[k])
  <2>1. mem' \in [Memory -> Seq(Cell)]
    BY <1>7, StoredBytes
  <2>2. \A k \in Memory : Len(Stored(m, d, i, b)[k]) = Len(m[k])
    BY StoredBytes
  <2> QED BY <1>7, <2>1, <2>2
<1>9. \A k \in Memory : k # d => mem'[k] = m[k]
  BY <1>7, StoredBytes
<1>10. \A j \in 1..Len(b) : i + j <= Len(m[d]) => mem'[d][i + j] = b[j]
  BY <1>7, StoredBytes
<1>11. \A j \in 1..Len(m[d]) : j <= i \/ j > i + Len(b) => mem'[d][j] = m[d][j]
  BY <1>7, StoredBytes
<1>12. i + 1 <= Len(m[d]) /\ Len(m[d]) \in Nat
  BY <1>1, <1>2, <1>5, <1>6, LenProperties
<1>13. mem'[d][i + 1] = c
  BY <1>4, <1>10, <1>12
<1>14. \A j \in 1..Len(m[d]) : j # i + 1 => mem'[d][j] = m[d][j]
  BY <1>4, <1>11, <1>12
<1> QED BY <1>5, <1>6, <1>8, <1>9, <1>13, <1>14

\* A store through operator[], data() or begin()
LEMMA WriteKeeps ==
  ASSUME IInv, NEW o \in Object, NEW c \in Byte, NEW i \in Nat, Write(o, i, c)
  PROVE  IInv'
<1>1. Valid(o) /\ i < size(o) /\ live' = live /\ obj' = obj
  BY DEF Write
<1>2. /\ obj[o].capacity_ \in Nat /\ obj[o].data \in Memory
      /\ o \in String => size(o) = obj[o].size_ - 1
      /\ Len(mem[obj[o].data]) = obj[o].capacity_
  BY <1>1, SizeFits
<1>3. PICK z \in Nat : z = obj[o].size_ /\ z <= obj[o].capacity_
  BY <1>1, SizeFits DEF IInv, Fits
<1>4. obj' = [obj EXCEPT ![o].size_ = z]
  BY <1>1, <1>3 DEF IInv, Types, Members
<1>5. o \in String => z > 0 /\ mem'[obj[o].data][z] = NUL
  <2> SUFFICES ASSUME o \in String
               PROVE  z > 0 /\ mem'[obj[o].data][z] = NUL
    OBVIOUS
  <2>1. z > 0 /\ mem[obj[o].data][z] = NUL
    BY <1>1, <1>3 DEF IInv, Ended
  <2>2. z \in 1..Len(mem[obj[o].data]) /\ z # i + 1
    BY <1>1, <1>2, <1>3, <2>1
  <2> QED BY <2>1, <2>2, WrittenBytes
<1>6. /\ mem' \in [Memory -> Seq(Cell)]
      /\ \A k \in Memory : Len(mem'[k]) = Len(mem[k])
      /\ \A k \in Memory : k # obj[o].data => mem'[k] = mem[k]
  BY WrittenBytes
<1> QED BY <1>1, <1>3, <1>4, <1>5, <1>6, Rewritten

\* Every step keeps the invariant.
LEMMA StepKeeps == IInv /\ [Next]_vars => IInv'
<1> SUFFICES ASSUME IInv, [Next]_vars PROVE IInv'
  OBVIOUS
<1>1. ASSUME NEW o \in Object, Destroy(o) \/ BufferOverArray(o)
      PROVE  IInv'
  BY <1>1, Destroyed, ArrayTaken
<1>2. ASSUME NEW o \in Object, NEW n \in 0..(WordSize - 1),
             BufferOfCapacity(o, n) \/ StringOfSize(o, n) \/ Resize(o, n)
      PROVE  IInv'
  BY <1>2, BufferMade, StringMade, ResizeKeeps
<1>3. ASSUME NEW o \in Object, NEW v \in Sources,
             StringFrom(o, v) \/ Assign(o, v) \/ AppendView(o, v)
      PROVE  IInv'
  BY <1>3, StringCopied, AssignKeeps, AppendKeeps
<1>4. ASSUME NEW o \in Object, NEW p \in Object, MoveConstruct(o, p) \/ MoveAssign(o, p)
      PROVE  IInv'
  <2>1. p \in live /\ o # p /\ SameClass(o, p)
    BY <1>4 DEF MoveConstruct, MoveAssign, Made
  <2>2. live' = live \cup {o}
    BY <1>4 DEF MoveConstruct, MoveAssign, Made
  <2>3. mem' = Released(o)
    <3>1. CASE MoveConstruct(o, p)
      BY <3>1 DEF MoveConstruct, Made, Released, IInv, Fits
    <3>2. CASE MoveAssign(o, p)
      BY <3>2 DEF MoveAssign
    <3> QED BY <1>4, <3>1, <3>2
  <2>4. NullBuffer \in Members
    BY DEF NullBuffer, Members
  <2>5. /\ obj' \in [Object -> Members] /\ obj'[o] = obj[p] /\ obj'[p] = NullBuffer
        /\ \A q \in Object \ {o, p} : obj'[q] = obj[q]
    BY <1>4, <2>1, <2>4 DEF MoveConstruct, MoveAssign, IInv, Types
  <2> QED BY <2>1, <2>2, <2>3, <2>5, Moved
<1>5. ASSUME NEW o \in Object, NEW c \in Byte,
             PushBack(o, c) \/ \E i \in 0..(MaxCapacity + Room) : Write(o, i, c)
      PROVE  IInv'
  <2>1. CASE PushBack(o, c)
    BY <2>1, PushKeeps
  <2>2. ASSUME NEW i \in 0..(MaxCapacity + Room), Write(o, i, c)
        PROVE  IInv'
    <3>1. i \in Nat
      OBVIOUS
    <3> QED BY <2>2, <3>1, WriteKeeps
  <2> QED BY <1>5, <2>1, <2>2
<1>6. CASE UNCHANGED vars
  BY <1>6 DEF vars, IInv, Types, Fits, Unshared, Held, Ended, Valid
<1> QED BY <1>1, <1>2, <1>3, <1>4, <1>5, <1>6 DEF Next

\* At the start no object exists.
LEMMA InitKeeps == Init => IInv
<1> SUFFICES ASSUME Init PROVE IInv
  OBVIOUS
<1>1. \A o \in Object : obj[o] = NullBuffer /\ ~Valid(o)
  BY DEF Init, NullBuffer, Valid
<1>2. NullBuffer \in Members
  BY DEF NullBuffer, Members
<1>3. Static \notin Block /\ Array \notin Block /\ Static # Array
  BY StringsAssumption DEF Static, Array
<1>4. mem[Static] = Literal /\ mem[Array] = Unwritten /\ \A k \in Block : mem[k] = << >>
  BY <1>3 DEF Init
<1>5. /\ Literal \in Seq(Cell) /\ << >> \in Seq(Cell)
      /\ Unwritten \in Seq(Cell) /\ Len(Unwritten) = Room
  BY StringsAssumption, SeqMonotonic, EmptySeq, FunctionIsSeq DEF Unwritten, Cell
<1>6. mem \in [Memory -> Seq(Cell)]
  <2>1. \A k \in Memory : mem[k] \in Seq(Cell)
    BY <1>4, <1>5 DEF Memory
  <2>2. DOMAIN mem = Memory /\ mem = [k \in DOMAIN mem |-> mem[k]]
    BY DEF Init, Memory
  <2> QED BY <2>1, <2>2
<1>7. Types
  BY <1>2, <1>4, <1>5, <1>6 DEF Init, Types
<1>8. Fits
  BY <1>1 DEF Fits, NullBuffer
<1> QED BY <1>1, <1>4, <1>7, <1>8 DEF IInv, Unshared, Held, Ended, Object

\* The inductive invariant holds whatever clients do with their objects and whichever
\* allocations fail.
THEOREM Invariance == Spec => []IInv
<1> QED BY InitKeeps, StepKeeps, PTL DEF Spec

\* Every variable has its type, and no object counts more bytes than it has room for.
THEOREM TypeCorrect == Spec => []TypeOK
<1>1. IInv => TypeOK
  BY DEF IInv, Types, Fits, TypeOK, Members, Memory, Cell
<1> QED BY <1>1, Invariance, PTL

\* Memory is owned by one object: none leaks, none is freed twice or used afterwards.
THEOREM OwnedOnce == Spec => []Owned
<1>1. ASSUME IInv PROVE Owned
  <2>1. ASSUME NEW k \in Block, mem[k] # << >>
        PROVE  \E o \in live : obj[o].data = k /\ obj[o].owner_
    <3>1. PICK o \in Object : obj[o].data = k
      BY <1>1, <2>1 DEF IInv, Held
    <3>2. k # Null
      BY StringsAssumption
    <3> QED BY <1>1, <3>1, <3>2 DEF IInv, Fits, Valid
  <2> QED BY <1>1, <2>1 DEF Owned, IInv, Fits, Unshared, Valid
<1> QED BY <1>1, Invariance, PTL

\* The bytes of a String end with a NUL after every operation.
THEOREM StaysTerminated == Spec => []Terminated
<1>1. ASSUME IInv PROVE Terminated
  <2> SUFFICES ASSUME NEW s \in String, Valid(s)
               PROVE  obj[s].size_ = size(s) + 1 /\ mem[obj[s].data][size(s) + 1] = NUL
    BY DEF Terminated
  <2>1. size(s) = obj[s].size_ - 1 /\ obj[s].size_ \in Nat
    BY <1>1, SizeFits DEF Object
  <2>2. size(s) + 1 = obj[s].size_
    BY <2>1
  <2> QED BY <1>1, <2>2 DEF IInv, Ended
<1> QED BY <1>1, Invariance, PTL

-------------------------------------------------------------------------------
(* Strings refines Text.                                                      *)
(*                                                                            *)
(* The text of an object is where its members and the memory say.  A step     *)
(* changes the bytes or the members of the objects it names, and memory has   *)
(* one owner, so the other texts stay; that the named object's text becomes   *)
(* what Text says is read off the bytes that the step leaves.                 *)

\* The text of each object.
Texts == [o \in Object |-> TextOf(o)]

\* The texts are the counted bytes, without a String's NUL.
Shown ==
  \A o \in Object :
    /\ obj[o].data = Null => Texts[o] = Absent
    /\ obj[o].data # Null =>
         /\ Texts[o] \in Seq(Cell) /\ Texts[o] # Absent
         /\ Len(Texts[o]) = (IF o \in String THEN obj[o].size_ - 1 ELSE obj[o].size_)
         /\ \A j \in 1..Len(Texts[o]) : Texts[o][j] = mem[obj[o].data][j]

\* The first n bytes of a sequence.
LEMMA Prefix ==
  ASSUME NEW S, NEW s \in Seq(S), NEW n \in 0..Len(s)
  PROVE  /\ SubSeq(s, 1, n) \in Seq(S) /\ Len(SubSeq(s, 1, n)) = n
         /\ \A j \in 1..n : SubSeq(s, 1, n)[j] = s[j]
<1>1. \A i \in 1..n : s[i] \in S
  BY ElementOfSeq, LenProperties
<1>2. /\ SubSeq(s, 1, n) \in Seq(S) /\ Len(SubSeq(s, 1, n)) = (IF 1 <= n THEN n - 1 + 1 ELSE 0)
      /\ \A i \in 1..(n - 1 + 1) : SubSeq(s, 1, n)[i] = s[1 + i - 1]
  BY <1>1, LenProperties, SubSeqProperties
<1> QED BY <1>2, LenProperties

\* The invariant says so.
LEMMA TextsShown == IInv => Shown
<1> SUFFICES ASSUME IInv, NEW o \in Object
             PROVE  /\ obj[o].data = Null => Texts[o] = Absent
                    /\ obj[o].data # Null =>
                         /\ Texts[o] \in Seq(Cell) /\ Texts[o] # Absent
                         /\ Len(Texts[o]) = (IF o \in String THEN obj[o].size_ - 1 ELSE obj[o].size_)
                         /\ \A j \in 1..Len(Texts[o]) : Texts[o][j] = mem[obj[o].data][j]
  BY DEF Shown
<1>1. Texts[o] = TextOf(o)
  BY DEF Texts
<1>2. CASE Valid(o)
  <2>1. /\ obj[o].data \in Memory /\ size(o) \in Nat /\ size(o) <= Len(mem[obj[o].data])
        /\ size(o) = (IF o \in String THEN obj[o].size_ - 1 ELSE obj[o].size_)
    BY <1>2, SizeFits
  <2>2. PICK s \in Seq(Cell) : s = mem[obj[o].data]
    BY <2>1 DEF IInv, Types
  <2>3. PICK n \in 0..Len(s) : n = size(o)
    BY <2>1, <2>2
  <2>4. Texts[o] = SubSeq(s, 1, n)
    BY <1>1, <1>2, <2>2, <2>3 DEF TextOf
  <2>5. /\ SubSeq(s, 1, n) \in Seq(Cell) /\ Len(SubSeq(s, 1, n)) = n
        /\ \A j \in 1..n : SubSeq(s, 1, n)[j] = s[j]
    BY Prefix
  <2>6. Texts[o] # Absent
    <3>1. Len(Absent) = 1 /\ Absent[1] = -2
      BY DEF Absent
    <3>2. -2 \notin Cell
      BY StringsAssumption DEF Cell, Junk
    <3>3. ASSUME Texts[o] = Absent PROVE FALSE
      <4>1. Absent \in Seq(Cell) /\ 1 \in 1..Len(Absent)
        BY <2>4, <2>5, <3>1, <3>3
      <4>2. Absent[1] \in Cell
        BY <4>1, ElementOfSeq
      <4> QED BY <3>1, <3>2, <4>2
    <3> QED BY <3>3
  <2> QED BY <1>2, <2>1, <2>2, <2>3, <2>4, <2>5, <2>6 DEF Valid
<1>3. CASE ~Valid(o)
  BY <1>1, <1>3 DEF TextOf, Valid
<1> QED BY <1>2, <1>3

\* The same, of the next state.
LEMMA TextsShownNext == IInv' => Shown'
  BY TextsShown, PTL

\* The steps of Text, by what becomes of the texts.
LEMMA TextSteps ==
  ASSUME NEW o \in Object
  PROVE  /\ \A t \in Value!Pieces : Texts' = [Texts EXCEPT ![o] = t] => Value!Next
         /\ \A n \in 1..Len(Texts[o]) :
              o \in String /\ Texts[o] # Absent /\ 2 * n <= Len(Texts[o])
                /\ Texts' = [Texts EXCEPT ![o] = << NUL >> \o SubSeq(Texts[o], n + 2, 2 * n)]
              => Value!Next
         /\ \A t \in Value!Pieces \cup {<< b >> : b \in Cell} :
              Texts[o] # Absent /\ Texts' = [Texts EXCEPT ![o] = @ \o t] => Value!Next
         /\ \A n \in 0..Len(Texts[o]) :
              Texts[o] # Absent /\ Texts' = [Texts EXCEPT ![o] = SubSeq(@, 1, n)] => Value!Next
         /\ \A n \in 1..(MaxLength - Len(Texts[o])) : \A t \in [1..n -> Cell] :
              Texts[o] # Absent /\ Texts' = [Texts EXCEPT ![o] = @ \o t] => Value!Next
         /\ \A i \in 1..Len(Texts[o]), b \in Cell :
              Texts[o] # Absent /\ Texts' = [Texts EXCEPT ![o][i] = b] => Value!Next
         /\ \A p \in Object :
              o # p /\ Texts' = [Texts EXCEPT ![o] = Texts[p], ![p] = Absent] => Value!Next
         /\ Texts' = [Texts EXCEPT ![o] = Absent] => Value!Next
<1>1. ASSUME NEW t \in Value!Pieces, Texts' = [Texts EXCEPT ![o] = t]
      PROVE  Value!Copy(o)
  BY <1>1 DEF Value!Copy, Texts
<1>2. ASSUME NEW t \in Value!Pieces \cup {<< b >> : b \in Cell},
             Texts[o] # Absent, Texts' = [Texts EXCEPT ![o] = @ \o t]
      PROVE  Value!Extend(o)
  BY <1>2 DEF Value!Extend, Texts, Cell
<1>3. ASSUME NEW n \in 0..Len(Texts[o]),
             Texts[o] # Absent, Texts' = [Texts EXCEPT ![o] = SubSeq(@, 1, n)]
      PROVE  Value!Cut(o)
  BY <1>3 DEF Value!Cut, Texts
<1>4. ASSUME NEW n \in 1..(MaxLength - Len(Texts[o])), NEW t \in [1..n -> Cell],
             Texts[o] # Absent, Texts' = [Texts EXCEPT ![o] = @ \o t]
      PROVE  Value!Grow(o)
  BY <1>4 DEF Value!Grow, Texts, Cell
<1>5. ASSUME NEW i \in 1..Len(Texts[o]), NEW b \in Cell,
             Texts[o] # Absent, Texts' = [Texts EXCEPT ![o][i] = b]
      PROVE  Value!Write(o)
  BY <1>5 DEF Value!Write, Texts, Cell
<1>6. ASSUME NEW p \in Object, o # p, Texts' = [Texts EXCEPT ![o] = Texts[p], ![p] = Absent]
      PROVE  Value!Move(o, p)
  BY <1>6 DEF Value!Move, Texts
<1>7. ASSUME Texts' = [Texts EXCEPT ![o] = Absent]
      PROVE  Value!Lose(o)
  BY <1>7 DEF Value!Lose, Texts
<1>8. ASSUME NEW n \in 1..Len(Texts[o]),
             o \in String, Texts[o] # Absent, 2 * n <= Len(Texts[o]),
             Texts' = [Texts EXCEPT ![o] = << NUL >> \o SubSeq(Texts[o], n + 2, 2 * n)]
      PROVE  Value!CopyBehind(o)
  BY <1>8 DEF Value!CopyBehind, Texts
<1> QED BY <1>1, <1>2, <1>3, <1>4, <1>5, <1>6, <1>7, <1>8 DEF Value!Next

\* What a client copies from is a piece of a text.
LEMMA SourceIsPiece ==
  ASSUME IInv, NEW v \in Sources
  PROVE  Read(mem, v) \in Value!Pieces
<1>1. ASSUME NEW t, t = Literal \/ \E p \in Object : Texts[p] # Absent /\ t = Texts[p],
             NEW i \in 0..Len(t), NEW j \in 0..Len(t)
      PROVE  SubSeq(t, i + 1, j) \in Value!Pieces
  <2>1. SubSeq(t, i + 1, j) \in {SubSeq(t, k + 1, l) : k, l \in 0..Len(t)}
    OBVIOUS
  <2>2. CASE t = Literal
    BY <2>1, <2>2 DEF Value!Pieces
  <2>3. ASSUME NEW p \in Object, Texts[p] # Absent, t = Texts[p]
        PROVE  SubSeq(t, i + 1, j) \in Value!Pieces
    <3>1. t \in {Texts[q] : q \in {q \in Object : Texts[q] # Absent}}
      BY <2>3
    <3> QED BY <2>1, <3>1 DEF Value!Pieces, Texts
  <2> QED BY <1>1, <2>2, <2>3
<1>2. CASE \E i, n \in 0..Len(Literal) : v = View(Static, i, n) /\ i + n <= Len(Literal)
  <2>1. PICK i, n \in 0..Len(Literal) : v = View(Static, i, n) /\ i + n <= Len(Literal)
    BY <1>2
  <2>2. Len(Literal) \in Nat /\ mem[Static] = Literal
    BY StringsAssumption, LenProperties DEF IInv, Types
  <2>3. PICK j \in 0..Len(Literal) : j = i + n
    BY <2>1, <2>2
  <2>4. Read(mem, v) = SubSeq(Literal, i + 1, j)
    BY <2>1, <2>2, <2>3 DEF Read, View
  <2> QED BY <1>1, <2>4
<1>3. CASE \E p \in live : Valid(p) /\ \E i, n \in 0..size(p) :
             v = View(obj[p].data, i, n) /\ i + n <= size(p)
  <2>1. PICK p \in live : Valid(p) /\ \E i, n \in 0..size(p) :
             v = View(obj[p].data, i, n) /\ i + n <= size(p)
    BY <1>3
  <2>2. PICK i, n \in 0..size(p) : v = View(obj[p].data, i, n) /\ i + n <= size(p)
    BY <2>1
  <2>3. p \in Object
    BY DEF IInv, Types
  <2>4. size(p) = (IF p \in String THEN obj[p].size_ - 1 ELSE obj[p].size_) /\ size(p) \in Nat
    BY <2>1, <2>3, SizeFits
  <2>5. PICK t \in Seq(Cell) : t = Texts[p] /\ t # Absent /\ Len(t) = size(p)
                             /\ \A j \in 1..Len(t) : t[j] = mem[obj[p].data][j]
    BY <2>1, <2>3, <2>4, TextsShown DEF Shown, Valid
  <2>6. PICK a \in 0..Len(t), z \in 0..Len(t) : a = i /\ z = i + n
    BY <2>2, <2>4, <2>5
  <2>7. mem \in [Memory -> Seq(Cell)]
    BY DEF IInv, Types
  <2>8. /\ Read(mem, v) \in Seq(Cell) /\ Len(Read(mem, v)) = n
        /\ \A j \in 1..n : Read(mem, v)[j] = mem[obj[p].data][i + j]
    <3>1. v.data = obj[p].data /\ v.from = i /\ v.len = n
      BY <2>2 DEF View
    <3> QED BY <2>7, <3>1, ReadBytes
  <2>9. \A j \in (a + 1)..z : t[j] \in Cell
    BY <2>4, <2>5, <2>6, ElementOfSeq
  <2>10. /\ SubSeq(t, a + 1, z) \in Seq(Cell)
         /\ Len(SubSeq(t, a + 1, z)) = (IF a + 1 <= z THEN z - (a + 1) + 1 ELSE 0)
         /\ \A j \in 1..(z - (a + 1) + 1) : SubSeq(t, a + 1, z)[j] = t[a + 1 + j - 1]
    BY <2>9, SubSeqProperties
  <2>11. n = (IF a + 1 <= z THEN z - (a + 1) + 1 ELSE 0)
    BY <2>2, <2>4, <2>6
  <2>12. ASSUME NEW j \in 1..n
         PROVE  SubSeq(t, a + 1, z)[j] = Read(mem, v)[j]
    <3>1. j \in 1..(z - (a + 1) + 1) /\ a + 1 + j - 1 = i + j /\ i + j \in 1..Len(t)
      BY <2>2, <2>4, <2>5, <2>6
    <3> QED BY <2>5, <2>8, <2>10, <3>1
  <2>13. Read(mem, v) = SubSeq(t, a + 1, z)
    BY <2>8, <2>10, <2>11, <2>12, SeqEqual
  <2> QED BY <1>1, <2>3, <2>5, <2>13
<1> QED BY <1>2, <1>3 DEF Sources, Parts, View

\* The empty text is a piece of every text.
LEMMA EmptyIsPiece == << >> \in Value!Pieces
<1>1. 0 \in 0..Len(Literal)
  BY StringsAssumption, LenProperties
<1>2. SubSeq(Literal, 0 + 1, 0) \in Value!Pieces
  BY <1>1 DEF Value!Pieces
<1>3. SubSeq(Literal, 0 + 1, 0) = << >>
  BY SubSeqEmpty
<1> QED BY <1>2, <1>3

\* A view of o's own bytes is a view of its text.
LEMMA OwnSource ==
  ASSUME IInv, NEW o \in Object, Valid(o), NEW v \in Sources, v.data = obj[o].data
  PROVE  v.from + v.len <= size(o)
<1>1. v.data # Static
  BY SizeFits
<1>2. PICK p \in live : Valid(p) /\ \E i, n \in 0..size(p) :
             v = View(obj[p].data, i, n) /\ i + n <= size(p)
  BY <1>1 DEF Sources, Parts, View
<1>3. p \in Object /\ v.data = obj[p].data /\ v.from + v.len <= size(p)
  BY <1>2 DEF IInv, Types, View
<1>4. p = o
  BY <1>2, <1>3 DEF IInv, Unshared
<1> QED BY <1>3, <1>4

\* An object whose members and bytes stay keeps its text.
LEMMA OthersKeep ==
  ASSUME Shown, Shown', NEW o \in Object,
         \A p \in Object \ {o} :
           /\ obj'[p].data = obj[p].data /\ obj'[p].size_ = obj[p].size_
           /\ obj[p].data # Null => mem'[obj[p].data] = mem[obj[p].data]
  PROVE  Texts' = [Texts EXCEPT ![o] = Texts'[o]]
<1>1. ASSUME NEW p \in Object, p # o
      PROVE  Texts'[p] = Texts[p]
  <2>1. CASE obj[p].data = Null
    BY <1>1, <2>1 DEF Shown
  <2>2. CASE obj[p].data # Null
    <3>1. PICK t \in Seq(Cell) : t = Texts[p]
            /\ Len(t) = (IF p \in String THEN obj[p].size_ - 1 ELSE obj[p].size_)
            /\ \A j \in 1..Len(t) : t[j] = mem[obj[p].data][j]
      BY <2>2 DEF Shown
    <3>2. obj'[p].data # Null /\ mem'[obj'[p].data] = mem[obj[p].data]
      BY <1>1, <2>2
    <3>3. PICK u \in Seq(Cell) : u = Texts'[p]
            /\ Len(u) = (IF p \in String THEN obj'[p].size_ - 1 ELSE obj'[p].size_)
            /\ \A j \in 1..Len(u) : u[j] = mem'[obj'[p].data][j]
      BY <3>2 DEF Shown
    <3>4. Len(t) = Len(u) /\ \A j \in 1..Len(t) : t[j] = u[j]
      BY <1>1, <3>1, <3>2, <3>3
    <3>5. t = u
      BY <3>4, SeqEqual
    <3> QED BY <3>1, <3>3, <3>5
  <2> QED BY <2>1, <2>2
<1>2. Texts = [p \in Object |-> Texts[p]] /\ Texts' = [p \in Object |-> Texts'[p]]
  BY DEF Texts
<1> QED BY <1>1, <1>2

\* The text of an object is the sequence with its bytes.
LEMMA TextFrom ==
  ASSUME Shown', NEW o \in Object, obj'[o].data # Null, NEW t \in Seq(Cell),
         Len(t) = (IF o \in String THEN obj'[o].size_ - 1 ELSE obj'[o].size_),
         \A j \in 1..Len(t) : t[j] = mem'[obj'[o].data][j]
  PROVE  Texts'[o] = t
<1>1. PICK u \in Seq(Cell) : u = Texts'[o]
        /\ Len(u) = (IF o \in String THEN obj'[o].size_ - 1 ELSE obj'[o].size_)
        /\ \A j \in 1..Len(u) : u[j] = mem'[obj'[o].data][j]
  BY DEF Shown
<1>2. Len(t) = Len(u) /\ \A j \in 1..Len(t) : t[j] = u[j]
  BY <1>1
<1>3. t = u
  BY <1>2, SeqEqual
<1> QED BY <1>1, <1>3

\* When only the bytes and the count of one object change, only its text does.
LEMMA OneText ==
  ASSUME IInv, IInv', NEW o \in Object, Valid(o), NEW n,
         obj' = [obj EXCEPT ![o].size_ = n],
         \A k \in Memory : k # obj[o].data => mem'[k] = mem[k]
  PROVE  /\ Texts' = [Texts EXCEPT ![o] = Texts'[o]]
         /\ obj'[o].data = obj[o].data /\ obj'[o].data # Null /\ obj'[o].size_ = n
<1>1. /\ obj'[o].data = obj[o].data /\ obj'[o].size_ = n
      /\ \A p \in Object \ {o} : obj'[p] = obj[p]
  BY DEF IInv, Types, Members
<1>2. ASSUME NEW p \in Object \ {o}, obj[p].data # Null
      PROVE  mem'[obj[p].data] = mem[obj[p].data]
  <2>1. obj[p].data \in Memory
    BY <1>2, SizeFits DEF Valid
  <2>2. obj[p].data # obj[o].data
    BY <1>2 DEF IInv, Unshared, Valid
  <2> QED BY <2>1, <2>2
<1>3. Shown /\ Shown'
  BY TextsShown, TextsShownNext
<1> QED BY <1>1, <1>2, <1>3, OthersKeep DEF Valid

\* The text of a destroyed object is lost.
LEMMA Gone ==
  ASSUME IInv, IInv', NEW o \in Object, Destroy(o)
  PROVE  Value!Next
<1>1. /\ obj'[o].data = Null /\ \A p \in Object \ {o} : obj'[p] = obj[p]
      /\ mem' = Released(o)
  BY DEF Destroy, IInv, Types, NullBuffer
<1>2. ASSUME NEW p \in Object \ {o}, obj[p].data # Null
      PROVE  mem'[obj[p].data] = mem[obj[p].data]
  <2>1. obj[p].data # obj[o].data /\ obj[p].data \in Memory
    BY <1>2, SizeFits DEF IInv, Unshared, Valid
  <2> QED BY <1>1, <2>1 DEF Released, IInv, Types
<1>3. Shown /\ Shown'
  BY TextsShown, TextsShownNext
<1>4. Texts' = [Texts EXCEPT ![o] = Texts'[o]]
  BY <1>1, <1>2, <1>3, OthersKeep
<1>5. Texts'[o] = Absent
  BY <1>1, <1>3 DEF Shown
<1> QED BY <1>4, <1>5, TextSteps

\* The text of s passes to d.
LEMMA MovedText ==
  ASSUME IInv, IInv', NEW d \in Object, NEW s \in Object, MoveConstruct(d, s) \/ MoveAssign(d, s)
  PROVE  Value!Next
<1>1. d # s /\ s \in live /\ SameClass(d, s)
  BY DEF MoveConstruct, MoveAssign, Made
<1>2. /\ obj'[d] = obj[s] /\ obj'[s] = NullBuffer
      /\ \A p \in Object \ {d, s} : obj'[p] = obj[p]
  BY <1>1 DEF MoveConstruct, MoveAssign, IInv, Types
<1>3. mem' = Released(d) \/ mem' = mem
  BY DEF MoveConstruct, MoveAssign
<1>4. ASSUME NEW p \in Object \ {d}, obj[p].data # Null
      PROVE  mem'[obj[p].data] = mem[obj[p].data]
  <2>1. obj[p].data # obj[d].data /\ obj[p].data \in Memory
    BY <1>4, SizeFits DEF IInv, Unshared, Valid
  <2> QED BY <1>3, <2>1 DEF Released, IInv, Types
<1>5. Shown /\ Shown'
  BY TextsShown, TextsShownNext
<1>6. ASSUME NEW p \in Object, NEW q \in Object, q # d, (p \in String) = (q \in String),
             obj'[p].data = obj[q].data, obj'[p].size_ = obj[q].size_
      PROVE  Texts'[p] = Texts[q]
  <2>1. CASE obj[q].data = Null
    BY <1>5, <1>6, <2>1 DEF Shown
  <2>2. CASE obj[q].data # Null
    <3>1. PICK t \in Seq(Cell) : t = Texts[q]
            /\ Len(t) = (IF q \in String THEN obj[q].size_ - 1 ELSE obj[q].size_)
            /\ \A j \in 1..Len(t) : t[j] = mem[obj[q].data][j]
      BY <1>5, <2>2 DEF Shown
    <3>2. obj'[p].data # Null /\ mem'[obj'[p].data] = mem[obj[q].data]
      BY <1>4, <1>6, <2>2
    <3>3. Texts'[p] = t
      BY <1>5, <1>6, <3>1, <3>2, TextFrom
    <3> QED BY <3>1, <3>3
  <2> QED BY <2>1, <2>2
<1>7. Texts'[d] = Texts[s]
  BY <1>1, <1>2, <1>6 DEF SameClass
<1>8. Texts'[s] = Absent
  BY <1>2, <1>5 DEF Shown, NullBuffer
<1>9. \A p \in Object \ {d, s} : Texts'[p] = Texts[p]
  BY <1>2, <1>6
<1>10. Texts = [p \in Object |-> Texts[p]] /\ Texts' = [p \in Object |-> Texts'[p]]
  BY DEF Texts
<1>11. Texts' = [Texts EXCEPT ![d] = Texts[s], ![s] = Absent]
  BY <1>1, <1>7, <1>8, <1>9, <1>10
<1> QED BY <1>1, <1>11, TextSteps

\* A constructor makes an object with the text it is given, or with none.
LEMMA ConstructedText ==
  ASSUME IInv, IInv', NEW o \in Object, NEW n \in Nat, NEW s \in Seq(Cell), n > 0 => Len(s) <= n,
         Construct(o, n, s), NEW t \in Seq(Cell),
         Len(t) = (IF o \in String THEN Len(s) - 1 ELSE Len(s)), \A j \in 1..Len(t) : t[j] = s[j]
  PROVE  Texts' = [Texts EXCEPT ![o] = t] \/ Texts' = [Texts EXCEPT ![o] = Absent]
<1>1. Shown /\ Shown'
  BY TextsShown, TextsShownNext
<1>2. PICK k \in Allocations(n) :
        IF k = Null
        THEN obj' = [obj EXCEPT ![o] = [NullBuffer EXCEPT !.owner_ = TRUE]] /\ UNCHANGED mem
        ELSE /\ obj' = [obj EXCEPT ![o] = [data |-> k, capacity_ |-> n, owner_ |-> TRUE,
                                           size_ |-> Len(s)]]
             /\ mem' = [mem EXCEPT ![k] = [i \in 1..n |-> IF i <= Len(s) THEN s[i] ELSE Junk]]
  BY DEF Construct
<1>3. CASE k = Null
  <2>1. obj' = [obj EXCEPT ![o] = [data |-> Null, capacity_ |-> 0, owner_ |-> TRUE, size_ |-> 0]]
    BY <1>2, <1>3 DEF NullBuffer
  <2>2. mem' = mem /\ obj'[o].data = Null /\ \A p \in Object \ {o} : obj'[p] = obj[p]
    BY <1>2, <1>3, <2>1 DEF IInv, Types
  <2>3. Texts' = [Texts EXCEPT ![o] = Texts'[o]]
    BY <1>1, <2>2, OthersKeep
  <2> QED BY <1>1, <2>2, <2>3 DEF Shown
<1>4. CASE k # Null
  <2>1. k \in Block /\ mem[k] = << >> /\ n \in 1..MaxCapacity
    BY <1>4 DEF Allocations
  <2>2. /\ obj'[o].data = k /\ obj'[o].size_ = Len(s) /\ \A p \in Object \ {o} : obj'[p] = obj[p]
        /\ mem'[k] = [i \in 1..n |-> IF i <= Len(s) THEN s[i] ELSE Junk]
        /\ \A j \in Memory : j # k => mem'[j] = mem[j]
    BY <1>2, <1>4, <2>1 DEF IInv, Types, Memory
  <2>3. ASSUME NEW p \in Object \ {o}, obj[p].data # Null
        PROVE  mem'[obj[p].data] = mem[obj[p].data]
    <3>1. obj[p].data \in Memory /\ Len(mem[obj[p].data]) > 0
      BY <2>3, SizeFits DEF Valid
    <3>2. obj[p].data # k
      BY <2>1, <3>1, EmptySeq
    <3> QED BY <2>2, <3>1, <3>2
  <2>4. Texts' = [Texts EXCEPT ![o] = Texts'[o]]
    BY <1>1, <2>2, <2>3, OthersKeep
  <2>5. ASSUME NEW j \in 1..Len(t)
        PROVE  t[j] = mem'[k][j]
    <3>1. j \in 1..n /\ j <= Len(s)
      BY <2>1, LenProperties
    <3> QED BY <2>2, <3>1
  <2>6. /\ obj'[o].data # Null /\ Len(t) = (IF o \in String THEN obj'[o].size_ - 1 ELSE obj'[o].size_)
        /\ \A j \in 1..Len(t) : t[j] = mem'[obj'[o].data][j]
    BY <1>4, <2>2, <2>5
  <2>7. Texts'[o] = t
    BY <1>1, <2>6, TextFrom
  <2> QED BY <2>4, <2>7
<1> QED BY <1>3, <1>4

\* The constructors of String and Buffer.
LEMMA ConstructorTexts ==
  ASSUME IInv, IInv', NEW o \in Object
  PROVE  /\ \A n \in 0..(WordSize - 1) : BufferOfCapacity(o, n) \/ StringOfSize(o, n) => Value!Next
         /\ \A v \in Sources : StringFrom(o, v) => Value!Next
         /\ BufferOverArray(o) => Value!Next
<1>1. PICK e \in Seq(Cell) : e = << >> /\ Len(e) = 0
  BY EmptySeq
<1>2. \A t \in Value!Pieces :
        Texts' = [Texts EXCEPT ![o] = t] \/ Texts' = [Texts EXCEPT ![o] = Absent] => Value!Next
  BY TextSteps
<1>3. ASSUME NEW n \in 0..(WordSize - 1), BufferOfCapacity(o, n)
      PROVE  Value!Next
  <2>1. o \notin String /\ n \in Nat /\ Construct(o, n, e)
    BY <1>1, <1>3, StringsAssumption DEF BufferOfCapacity
  <2>2. (n > 0 => Len(e) <= n) /\ Len(e) = (IF o \in String THEN Len(e) - 1 ELSE Len(e))
        /\ \A j \in 1..Len(e) : e[j] = e[j]
    BY <1>1, <2>1
  <2>3. Texts' = [Texts EXCEPT ![o] = e] \/ Texts' = [Texts EXCEPT ![o] = Absent]
    BY <2>1, <2>2, ConstructedText
  <2> QED BY <1>1, <1>2, <2>3, EmptyIsPiece
<1>4. ASSUME NEW n \in 0..(WordSize - 1), StringOfSize(o, n)
      PROVE  Value!Next
  <2>1. PICK s \in Seq(Cell) : s = << NUL >> /\ Len(s) = 1
    <3>1. << NUL >> \in Seq(Cell) /\ Len(<< NUL >>) = 1
      BY StringsAssumption DEF Cell
    <3> QED BY <3>1
  <2>2. (n + 1) % WordSize \in Nat
    BY StringsAssumption
  <2>3. PICK k \in Nat : k = (n + 1) % WordSize
    BY <2>2
  <2>4. o \in String /\ Construct(o, k, s)
    BY <1>4, <2>1, <2>3 DEF StringOfSize
  <2>5. (k > 0 => Len(s) <= k) /\ Len(e) = (IF o \in String THEN Len(s) - 1 ELSE Len(s))
        /\ \A j \in 1..Len(e) : e[j] = s[j]
    BY <1>1, <2>1, <2>4
  <2>6. Texts' = [Texts EXCEPT ![o] = e] \/ Texts' = [Texts EXCEPT ![o] = Absent]
    BY <2>4, <2>5, ConstructedText
  <2> QED BY <1>1, <1>2, <2>6, EmptyIsPiece
<1>5. ASSUME NEW v \in Sources, StringFrom(o, v)
      PROVE  Value!Next
  <2>1. mem \in [Memory -> Seq(Cell)] /\ v.len \in Nat /\ NUL \in Cell
    BY SourceExists, StringsAssumption DEF IInv, Types, Cell
  <2>2. PICK b \in Seq(Cell) : b = Read(mem, v) /\ Len(b) = v.len
    BY <2>1, ReadBytes
  <2>3. /\ Append(b, NUL) \in Seq(Cell) /\ Len(Append(b, NUL)) = Len(b) + 1
        /\ \A j \in 1..Len(b) : Append(b, NUL)[j] = b[j]
    BY <2>1, AppendProperties
  <2>4. PICK s \in Seq(Cell) : s = Append(b, NUL) /\ Len(s) = Len(b) + 1
                             /\ \A j \in 1..Len(b) : s[j] = b[j]
    BY <2>3
  <2>5. PICK n \in Nat : n = v.len + 1
    BY <2>1
  <2>6. o \in String /\ Construct(o, n, s)
    BY <1>5, <2>2, <2>4, <2>5 DEF StringFrom
  <2>7. (n > 0 => Len(s) <= n) /\ Len(b) = (IF o \in String THEN Len(s) - 1 ELSE Len(s))
        /\ \A j \in 1..Len(b) : b[j] = s[j]
    BY <2>1, <2>2, <2>4, <2>5, <2>6
  <2>8. Texts' = [Texts EXCEPT ![o] = b] \/ Texts' = [Texts EXCEPT ![o] = Absent]
    BY <2>6, <2>7, ConstructedText
  <2> QED BY <1>2, <2>2, <2>8, SourceIsPiece
<1>6. ASSUME BufferOverArray(o)
      PROVE  Value!Next
  <2>1. Shown /\ Shown'
    BY TextsShown, TextsShownNext
  <2>2. /\ obj'[o].data = Array /\ obj'[o].size_ = 0 /\ mem' = mem /\ o \notin String
        /\ \A p \in Object \ {o} : obj'[p] = obj[p]
    BY <1>6, StringsAssumption DEF BufferOverArray, IInv, Types
  <2>3. Texts' = [Texts EXCEPT ![o] = Texts'[o]]
    BY <2>1, <2>2, OthersKeep
  <2>4. obj'[o].data # Null /\ Len(e) = (IF o \in String THEN obj'[o].size_ - 1 ELSE obj'[o].size_)
        /\ \A j \in 1..Len(e) : e[j] = mem'[obj'[o].data][j]
    BY <1>1, <2>2 DEF Array, Null
  <2>5. Texts'[o] = e
    BY <2>1, <2>4, TextFrom
  <2> QED BY <1>1, <1>2, <2>3, <2>5, EmptyIsPiece
<1> QED BY <1>3, <1>4, <1>5, <1>6

\* An object that holds bytes: how its text, its members and its memory fit.
LEMMA TextOfValid ==
  ASSUME IInv, NEW o \in Object, Valid(o)
  PROVE  /\ Texts[o] \in Seq(Cell) /\ Texts[o] # Absent
         /\ Len(Texts[o]) = size(o) /\ size(o) \in Nat /\ size(o) <= capacity(o)
         /\ obj[o].size_ = (IF o \in String THEN size(o) + 1 ELSE size(o))
         /\ capacity(o) \in Nat /\ capacity(o) <= MaxLength
         /\ obj[o].capacity_ \in Nat /\ capacity(o) <= obj[o].capacity_
         /\ o \in String => capacity(o) < obj[o].capacity_
         /\ Len(mem[obj[o].data]) = obj[o].capacity_ /\ obj[o].data \in Memory
         /\ \A j \in 1..size(o) : Texts[o][j] = mem[obj[o].data][j]
<1>1. /\ obj[o].data \in Memory /\ obj[o].capacity_ \in Nat /\ obj[o].size_ \in Nat
      /\ Len(mem[obj[o].data]) = obj[o].capacity_ /\ obj[o].capacity_ <= MaxLength
      /\ o \in String => size(o) = obj[o].size_ - 1 /\ capacity(o) = obj[o].capacity_ - 1
      /\ o \notin String => size(o) = obj[o].size_ /\ capacity(o) = obj[o].capacity_
      /\ size(o) \in Nat /\ capacity(o) \in Nat /\ size(o) <= capacity(o)
  BY SizeFits
<1>2. MaxLength \in Nat
  BY StringsAssumption DEF MaxLength
<1>3. obj[o].data # Null
  BY DEF Valid
<1>4. /\ Texts[o] \in Seq(Cell) /\ Texts[o] # Absent
      /\ Len(Texts[o]) = (IF o \in String THEN obj[o].size_ - 1 ELSE obj[o].size_)
      /\ \A j \in 1..Len(Texts[o]) : Texts[o][j] = mem[obj[o].data][j]
  BY <1>3, TextsShown DEF Shown
<1>5. Len(Texts[o]) = size(o)
  BY <1>1, <1>4
<1>6. \A j \in 1..size(o) : Texts[o][j] = mem[obj[o].data][j]
  BY <1>4, <1>5
<1>7. capacity(o) <= obj[o].capacity_ /\ capacity(o) <= MaxLength
      /\ (o \in String => capacity(o) < obj[o].capacity_)
      /\ obj[o].size_ = (IF o \in String THEN size(o) + 1 ELSE size(o))
  BY <1>1, <1>2
<1> QED BY <1>1, <1>4, <1>5, <1>6, <1>7

\* The new text of an object that now counts n bytes.
LEMMA TextBecomes ==
  ASSUME IInv, IInv', NEW o \in Object, Valid(o), NEW n \in Nat,
         obj' = [obj EXCEPT ![o].size_ = IF o \in String THEN n + 1 ELSE n],
         \A k \in Memory : k # obj[o].data => mem'[k] = mem[k],
         NEW t \in Seq(Cell), Len(t) = n, \A j \in 1..n : t[j] = mem'[obj[o].data][j]
  PROVE  Texts' = [Texts EXCEPT ![o] = t]
<1>1. PICK z \in Nat : z = IF o \in String THEN n + 1 ELSE n
  OBVIOUS
<1>2. /\ Texts' = [Texts EXCEPT ![o] = Texts'[o]]
      /\ obj'[o].data = obj[o].data /\ obj'[o].data # Null /\ obj'[o].size_ = z
  <2>1. obj' = [obj EXCEPT ![o].size_ = z]
    BY <1>1
  <2> QED BY <2>1, OneText
<1>3. /\ Len(t) = (IF o \in String THEN obj'[o].size_ - 1 ELSE obj'[o].size_)
      /\ \A j \in 1..Len(t) : t[j] = mem'[obj'[o].data][j]
  BY <1>1, <1>2
<1>4. Shown'
  BY TextsShownNext
<1>5. Texts'[o] = t
  BY <1>2, <1>3, <1>4, TextFrom
<1> QED BY <1>2, <1>5

\* A concatenation, by its two parts.
LEMMA Joined ==
  ASSUME NEW S, NEW s \in Seq(S), NEW t \in Seq(S)
  PROVE  /\ s \o t \in Seq(S) /\ Len(s \o t) = Len(s) + Len(t)
         /\ \A j \in 1..Len(s) : (s \o t)[j] = s[j]
         /\ \A j \in 1..Len(t) : (s \o t)[Len(s) + j] = t[j]
<1>1. Len(s) \in Nat /\ Len(t) \in Nat
  BY LenProperties
<1>2. s \o t \in Seq(S) /\ Len(s \o t) = Len(s) + Len(t)
  BY ConcatProperties
<1>3. \A j \in 1..(Len(s) + Len(t)) : (s \o t)[j] = IF j <= Len(s) THEN s[j] ELSE t[j - Len(s)]
  BY ConcatProperties
<1>4. ASSUME NEW j \in 1..Len(s)
      PROVE  (s \o t)[j] = s[j]
  BY <1>1, <1>3
<1>5. ASSUME NEW j \in 1..Len(t)
      PROVE  (s \o t)[Len(s) + j] = t[j]
  <2>1. /\ Len(s) + j \in 1..(Len(s) + Len(t)) /\ ~(Len(s) + j <= Len(s))
        /\ (Len(s) + j) - Len(s) = j
    BY <1>1
  <2> QED BY <1>3, <2>1
<1> QED BY <1>2, <1>4, <1>5

\* The text of an object whose bytes stay, and which counts more of them.
LEMMA TextGrows ==
  ASSUME IInv, IInv', NEW o \in Object, Valid(o), NEW n \in Nat,
         obj' = [obj EXCEPT ![o].size_ = IF o \in String THEN n + 1 ELSE n],
         \A k \in Memory : k # obj[o].data => mem'[k] = mem[k],
         \A j \in 1..size(o) : mem'[obj[o].data][j] = mem[obj[o].data][j],
         NEW u \in Seq(Cell), n = size(o) + Len(u),
         \A j \in 1..Len(u) : mem'[obj[o].data][size(o) + j] = u[j]
  PROVE  Texts' = [Texts EXCEPT ![o] = @ \o u]
<1>1. /\ Len(Texts[o]) = size(o) /\ size(o) \in Nat
      /\ \A j \in 1..size(o) : Texts[o][j] = mem[obj[o].data][j]
  BY TextOfValid
<1>2. PICK x \in Seq(Cell) : x = Texts[o]
  BY TextOfValid
<1>3. /\ x \o u \in Seq(Cell) /\ Len(x \o u) = Len(x) + Len(u)
      /\ \A j \in 1..Len(x) : (x \o u)[j] = x[j]
      /\ \A j \in 1..Len(u) : (x \o u)[Len(x) + j] = u[j]
  BY Joined
<1>4. PICK t \in Seq(Cell) : t = x \o u
  BY <1>3
<1>5. Len(t) = n /\ Len(u) \in Nat
  BY <1>1, <1>2, <1>3, <1>4, LenProperties
<1>6. ASSUME NEW j \in 1..n
      PROVE  t[j] = mem'[obj[o].data][j]
  <2>1. CASE j \in 1..size(o)
    BY <1>1, <1>2, <1>3, <1>4, <2>1
  <2>2. CASE j \notin 1..size(o)
    <3>1. PICK k \in 1..Len(u) : j = size(o) + k
      <4>1. j - size(o) \in 1..Len(u) /\ j = size(o) + (j - size(o))
        BY <1>1, <1>5, <2>2
      <4> QED BY <4>1
    <3> QED BY <1>1, <1>2, <1>3, <1>4, <3>1
  <2> QED BY <2>1, <2>2
<1>7. Texts' = [Texts EXCEPT ![o] = t]
  BY <1>5, <1>6, TextBecomes
<1> QED BY <1>2, <1>4, <1>7

\* resize() cuts the text or adds bytes of any value.
LEMMA ResizedText ==
  ASSUME IInv, IInv', NEW o \in Object, NEW n \in 0..(WordSize - 1), Resize(o, n)
  PROVE  Value!Next
<1>1. n \in Nat /\ Valid(o) /\ n <= capacity(o)
  BY StringsAssumption DEF Resize
<1>2. /\ Texts[o] \in Seq(Cell) /\ Texts[o] # Absent /\ Len(Texts[o]) = size(o) /\ size(o) \in Nat
      /\ capacity(o) \in Nat /\ capacity(o) <= MaxLength /\ capacity(o) <= obj[o].capacity_
      /\ obj[o].capacity_ \in Nat /\ Len(mem[obj[o].data]) = obj[o].capacity_
      /\ obj[o].data \in Memory
      /\ \A j \in 1..size(o) : Texts[o][j] = mem[obj[o].data][j]
  BY <1>1, TextOfValid
<1>3. /\ mem' \in [Memory -> Seq(Cell)]
      /\ \A k \in Memory : Len(mem'[k]) = Len(mem[k])
      /\ \A k \in Memory : k # obj[o].data => mem'[k] = mem[k]
      /\ \A j \in 1..obj[o].capacity_ : j # n + 1 => mem'[obj[o].data][j] = mem[obj[o].data][j]
  BY <1>1, Resized DEF Resize
<1>4. obj' = [obj EXCEPT ![o].size_ = IF o \in String THEN n + 1 ELSE n]
  BY DEF Resize, SizeFor
<1>5. CASE n <= size(o)
  <2>1. n \in 0..Len(Texts[o])
    BY <1>1, <1>2, <1>5
  <2>2. /\ SubSeq(Texts[o], 1, n) \in Seq(Cell) /\ Len(SubSeq(Texts[o], 1, n)) = n
        /\ \A j \in 1..n : SubSeq(Texts[o], 1, n)[j] = Texts[o][j]
    BY <1>2, <2>1, Prefix
  <2>3. PICK t \in Seq(Cell) : t = SubSeq(Texts[o], 1, n) /\ Len(t) = n
                             /\ \A j \in 1..n : t[j] = Texts[o][j]
    BY <2>2
  <2>4. ASSUME NEW j \in 1..n
        PROVE  t[j] = mem'[obj[o].data][j]
    <3>1. j \in 1..size(o) /\ j \in 1..obj[o].capacity_ /\ j # n + 1
      BY <1>1, <1>2, <1>5
    <3> QED BY <1>2, <1>3, <2>3, <3>1
  <2>5. Texts' = [Texts EXCEPT ![o] = t]
    <3>1. Len(t) = n /\ \A j \in 1..n : t[j] = mem'[obj[o].data][j]
      BY <2>3, <2>4
    <3> QED BY <1>1, <1>3, <1>4, <3>1, TextBecomes
  <2>6. Texts' = [Texts EXCEPT ![o] = SubSeq(@, 1, n)]
    BY <2>3, <2>5
  <2> QED BY <1>2, <2>1, <2>6, TextSteps
<1>6. CASE ~(n <= size(o))
  <2>1. PICK d \in 1..(MaxLength - Len(Texts[o])) : d = n - size(o)
    <3>1. MaxLength \in Nat
      BY StringsAssumption DEF MaxLength
    <3> QED BY <1>1, <1>2, <1>6, <3>1
  <2>2. PICK b \in Seq(Cell) : b = mem'[obj[o].data] /\ Len(b) = obj[o].capacity_
    BY <1>2, <1>3
  <2>3. PICK u : u = [j \in 1..d |-> b[size(o) + j]]
    OBVIOUS
  <2>4. u \in [1..d -> Cell]
    <3>1. ASSUME NEW j \in 1..d
          PROVE  u[j] \in Cell
      <4>1. size(o) + j \in 1..Len(b)
        BY <1>1, <1>2, <2>1, <2>2
      <4> QED BY <2>3, <4>1, ElementOfSeq
    <3> QED BY <2>3, <3>1
  <2>5. u \in Seq(Cell) /\ Len(u) = d
    BY <2>4, FunctionIsSeq
  <2>6. n = size(o) + Len(u)
    BY <1>1, <1>2, <2>1, <2>5
  <2>7. ASSUME NEW j \in 1..size(o)
        PROVE  mem'[obj[o].data][j] = mem[obj[o].data][j]
    <3>1. j \in 1..obj[o].capacity_ /\ j # n + 1
      BY <1>1, <1>2, <1>6, TextOfValid
    <3> QED BY <1>3, <3>1
  <2>8. \A j \in 1..Len(u) : mem'[obj[o].data][size(o) + j] = u[j]
    BY <2>2, <2>3, <2>5
  <2>9. Texts' = [Texts EXCEPT ![o] = @ \o u]
    BY <1>1, <1>3, <1>4, <2>5, <2>6, <2>7, <2>8, TextGrows
  <2> QED BY <1>2, <2>4, <2>9, TextSteps
<1> QED BY <1>5, <1>6

\* What resizes and copies, by the texts.
LEMMA CopyFrame ==
  ASSUME IInv, NEW o \in Object, NEW n \in Nat, NEW v, NEW i, ResizeAndCopy(o, n, v, i)
  PROVE  obj' = [obj EXCEPT ![o].size_ = IF o \in String THEN n + 1 ELSE n]
  BY DEF ResizeAndCopy, SizeFor

\* A source that the NUL of the resize() overwrites: as many of a String's own bytes
\* as lie in front of them.
Clobbered(o, v) == o \in String /\ v.data = obj[o].data /\ v.from = v.len /\ v.len # 0

\* The bytes of every other source are still there when assign() copies them.
LEMMA SourceStays ==
  ASSUME IInv, NEW o \in Object, Valid(o), NEW v \in Sources, NEW n \in Nat, n = v.len,
         n <= capacity(o), v.data = obj[o].data => v.from >= n, ~Clobbered(o, v),
         NEW j \in 1..n
  PROVE  AfterResize(o, n)[v.data][v.from + j] = mem[v.data][v.from + j]
<1>1. v.data \in Memory /\ v.from \in Nat
  BY SourceExists
<1>2. CASE v.data # obj[o].data
  BY <1>1, <1>2, Resized
<1>3. CASE o \notin String
  BY <1>3 DEF AfterResize
<1>4. CASE v.data = obj[o].data /\ o \in String
  <2>1. v.from >= n /\ v.from # n
    BY <1>4 DEF Clobbered
  <2>2. v.from + n <= size(o)
    BY <1>4, OwnSource
  <2>3. size(o) \in Nat /\ obj[o].capacity_ \in Nat /\ size(o) <= obj[o].capacity_
    BY TextOfValid
  <2>4. v.from + j \in 1..obj[o].capacity_ /\ v.from + j # n + 1
    <3>1. PICK f \in Nat, z \in Nat, c \in Nat :
             f = v.from /\ z = size(o) /\ c = obj[o].capacity_
      BY <1>1, <2>3
    <3>2. f >= n /\ f # n /\ f + n <= z /\ z <= c
      BY <2>1, <2>2, <2>3, <3>1
    <3>3. f + j \in 1..c /\ f + j # n + 1
      BY <3>2
    <3> QED BY <3>1, <3>3
  <2>5. \A i \in 1..obj[o].capacity_ :
          i # n + 1 => AfterResize(o, n)[obj[o].data][i] = mem[obj[o].data][i]
    BY Resized
  <2> QED BY <1>4, <2>4, <2>5
<1> QED BY <1>2, <1>3, <1>4

\* What assign() does to members and memory.
LEMMA Assigned ==
  ASSUME IInv, NEW o \in Object, NEW v \in Sources, Assign(o, v), NEW n \in Nat, n = v.len
  PROVE  /\ Valid(o) /\ n <= capacity(o) /\ (v.data = obj[o].data => v.from >= n)
         /\ obj' = [obj EXCEPT ![o].size_ = IF o \in String THEN n + 1 ELSE n]
         /\ \A k \in Memory : k # obj[o].data => mem'[k] = mem[k]
         /\ \A j \in 1..n : mem'[obj[o].data][j] = AfterResize(o, n)[v.data][v.from + j]
<1>1. /\ Valid(o) /\ ResizeAndCopy(o, n, v, 0) /\ n <= capacity(o) /\ 0 \in Nat /\ 0 + v.len <= n
      /\ (v.data = obj[o].data => v.from >= n)
  BY DEF Assign, ResizeAndCopy
<1>2. \A k \in Memory : k # obj[o].data => mem'[k] = mem[k]
  BY <1>1, ResizedAndCopied
<1>3. \A j \in 1..v.len : mem'[obj[o].data][0 + j] = AfterResize(o, n)[v.data][v.from + j]
  BY <1>1, ResizedAndCopied
<1>4. \A j \in 1..n : mem'[obj[o].data][j] = AfterResize(o, n)[v.data][v.from + j]
  BY <1>3
<1>5. obj' = [obj EXCEPT ![o].size_ = IF o \in String THEN n + 1 ELSE n]
  BY <1>1, CopyFrame
<1> QED BY <1>1, <1>2, <1>4, <1>5

\* assign() copies a piece of a text, as it was before the call ...
LEMMA AssignedText ==
  ASSUME IInv, IInv', NEW o \in Object, NEW v \in Sources, Assign(o, v), ~Clobbered(o, v)
  PROVE  Value!Next
<1>1. PICK n \in Nat : n = v.len
  BY SourceExists
<1>2. /\ Valid(o) /\ n <= capacity(o) /\ (v.data = obj[o].data => v.from >= n)
      /\ obj' = [obj EXCEPT ![o].size_ = IF o \in String THEN n + 1 ELSE n]
      /\ \A k \in Memory : k # obj[o].data => mem'[k] = mem[k]
      /\ \A j \in 1..n : mem'[obj[o].data][j] = AfterResize(o, n)[v.data][v.from + j]
  BY <1>1, Assigned
<1>3. mem \in [Memory -> Seq(Cell)]
  BY DEF IInv, Types
<1>4. PICK t \in Seq(Cell) : t = Read(mem, v)
  BY <1>3, ReadBytes
<1>5. Len(t) = n /\ \A j \in 1..n : t[j] = mem[v.data][v.from + j]
  BY <1>1, <1>3, <1>4, ReadBytes
<1>6. \A j \in 1..n : AfterResize(o, n)[v.data][v.from + j] = mem[v.data][v.from + j]
  BY <1>1, <1>2, SourceStays
<1>7. \A j \in 1..n : t[j] = mem'[obj[o].data][j]
  BY <1>2, <1>5, <1>6
<1>8. Texts' = [Texts EXCEPT ![o] = t]
  BY <1>2, <1>5, <1>7, TextBecomes
<1> QED BY <1>4, <1>8, SourceIsPiece, TextSteps

\* ... or one whose first byte the NUL has replaced.
LEMMA ClobberedText ==
  ASSUME IInv, IInv', NEW o \in Object, NEW v \in Sources, Assign(o, v), Clobbered(o, v)
  PROVE  Value!Next
<1>1. PICK n \in Nat : n = v.len
  BY SourceExists
<1>2. o \in String /\ v.data = obj[o].data /\ v.from = n /\ n # 0
  BY <1>1 DEF Clobbered
<1>3. /\ Valid(o) /\ n <= capacity(o)
      /\ obj' = [obj EXCEPT ![o].size_ = IF o \in String THEN n + 1 ELSE n]
      /\ \A k \in Memory : k # obj[o].data => mem'[k] = mem[k]
      /\ \A j \in 1..n : mem'[obj[o].data][j] = AfterResize(o, n)[obj[o].data][n + j]
  BY <1>1, <1>2, Assigned
<1>4. /\ Texts[o] \in Seq(Cell) /\ Texts[o] # Absent /\ Len(Texts[o]) = size(o) /\ size(o) \in Nat
      /\ obj[o].capacity_ \in Nat /\ size(o) <= obj[o].capacity_
      /\ \A j \in 1..size(o) : Texts[o][j] = mem[obj[o].data][j]
  BY <1>3, TextOfValid
<1>5. n + n <= size(o)
  BY <1>1, <1>2, <1>3, OwnSource
<1>6. /\ \A j \in 1..obj[o].capacity_ :
           j # n + 1 => AfterResize(o, n)[obj[o].data][j] = mem[obj[o].data][j]
      /\ AfterResize(o, n)[obj[o].data][n + 1] = NUL
  BY <1>2, <1>3, Resized
<1>7. PICK a \in Nat, z \in Nat : a = n + 2 /\ z = 2 * n
  OBVIOUS
<1>8. PICK s \in Seq(Cell) : s = Texts[o]
  BY <1>4
<1>9. Len(s) = size(o) /\ n \in 1..Len(s) /\ z <= Len(s) /\ z - a + 1 = n - 1
  BY <1>2, <1>4, <1>5, <1>7, <1>8
<1>10. \A i \in a..z : s[i] \in Cell
  BY <1>7, <1>8, <1>9, <1>4, ElementOfSeq
<1>11. /\ SubSeq(s, a, z) \in Seq(Cell)
       /\ Len(SubSeq(s, a, z)) = (IF a <= z THEN z - a + 1 ELSE 0)
       /\ \A j \in 1..(z - a + 1) : SubSeq(s, a, z)[j] = s[a + j - 1]
  BY <1>10, SubSeqProperties
<1>12. PICK u \in Seq(Cell) : u = SubSeq(s, a, z) /\ Len(u) = n - 1
         /\ \A j \in 1..(n - 1) : u[j] = s[a + j - 1]
  <2>1. (IF a <= z THEN z - a + 1 ELSE 0) = n - 1
    BY <1>2, <1>7, <1>9
  <2> QED BY <1>9, <1>11, <2>1
<1>13. PICK b \in Seq(Cell) : b = << NUL >> /\ Len(b) = 1 /\ b[1] = NUL
  <2>1. NUL \in Cell
    BY StringsAssumption DEF Cell
  <2>2. << NUL >> \in Seq(Cell) /\ Len(<< NUL >>) = 1 /\ << NUL >>[1] = NUL
    BY <2>1
  <2> QED BY <2>2
<1>14. /\ b \o u \in Seq(Cell) /\ Len(b \o u) = Len(b) + Len(u)
       /\ \A j \in 1..Len(b) : (b \o u)[j] = b[j]
       /\ \A j \in 1..Len(u) : (b \o u)[Len(b) + j] = u[j]
  BY Joined
<1>15. PICK t \in Seq(Cell) : t = b \o u /\ Len(t) = n /\ t[1] = NUL
         /\ \A j \in 1..(n - 1) : t[1 + j] = u[j]
  <2>1. PICK t \in Seq(Cell) : t = b \o u
    BY <1>14
  <2>2. Len(b) = 1 /\ Len(u) = n - 1 /\ 1 \in 1..Len(b) /\ b[1] = NUL
    BY <1>12, <1>13
  <2>3. Len(t) = n /\ t[1] = NUL
    BY <1>2, <1>14, <2>1, <2>2
  <2>4. ASSUME NEW j \in 1..(n - 1)
        PROVE  t[1 + j] = u[j]
    BY <1>14, <2>1, <2>2
  <2> QED BY <2>1, <2>3, <2>4
<1>16. ASSUME NEW j \in 1..n
       PROVE  t[j] = mem'[obj[o].data][j]
  <2>1. CASE j = 1
    BY <1>3, <1>6, <1>15, <2>1
  <2>2. CASE j # 1
    <3>1. PICK i \in 1..(n - 1) : j = 1 + i
      BY <2>2
    <3>2. t[j] = s[a + i - 1]
      BY <1>12, <1>15, <3>1
    <3>3. a + i - 1 = n + j /\ n + j \in 1..size(o)
      BY <1>4, <1>5, <1>7, <3>1
    <3>4. n + j \in 1..obj[o].capacity_ /\ n + j # n + 1
      BY <1>4, <2>2, <3>3
    <3>5. s[n + j] = mem[obj[o].data][n + j]
      BY <1>4, <1>8, <3>3
    <3>6. mem'[obj[o].data][j] = mem[obj[o].data][n + j]
      BY <1>3, <1>6, <3>4
    <3> QED BY <3>2, <3>3, <3>5, <3>6
  <2> QED BY <2>1, <2>2
<1>17. Texts' = [Texts EXCEPT ![o] = t]
  <2>1. Valid(o) /\ Len(t) = n /\ \A j \in 1..n : t[j] = mem'[obj[o].data][j]
    BY <1>3, <1>15, <1>16
  <2>2. \A k \in Memory : k # obj[o].data => mem'[k] = mem[k]
    BY <1>3
  <2>3. obj' = [obj EXCEPT ![o].size_ = IF o \in String THEN n + 1 ELSE n]
    BY <1>3
  <2> QED BY <2>1, <2>2, <2>3, TextBecomes
<1>18. t = << NUL >> \o SubSeq(Texts[o], n + 2, 2 * n)
  BY <1>7, <1>8, <1>12, <1>13, <1>15
<1>19. n \in 1..Len(Texts[o]) /\ 2 * n <= Len(Texts[o])
  BY <1>7, <1>8, <1>9
<1> QED BY <1>2, <1>4, <1>17, <1>18, <1>19, TextSteps

\* append() adds a piece of any text, its own included, as it was before the call.
LEMMA AppendedText ==
  ASSUME IInv, IInv', NEW o \in Object, NEW v \in Sources, AppendView(o, v)
  PROVE  Value!Next
<1>1. Valid(o)
  BY DEF AppendView
<1>2. PICK i \in Nat : i = size(o)
  BY <1>1, SizeFits
<1>3. PICK n \in Nat : n = size(o) + v.len
  BY <1>2, SourceExists
<1>4. ResizeAndCopy(o, n, v, i) /\ n <= capacity(o) /\ i + v.len <= n
  <2>1. ResizeAndCopy(o, n, v, i) /\ n <= capacity(o)
    BY <1>1, <1>2, <1>3, SumFits DEF AppendView, ResizeAndCopy
  <2>2. i + v.len <= n
    BY <1>2, <1>3
  <2> QED BY <2>1, <2>2
<1>5. /\ mem \in [Memory -> Seq(Cell)] /\ v.data \in Memory /\ v.len \in Nat /\ v.from \in Nat
      /\ v.from + v.len <= Len(mem[v.data])
  BY SourceExists DEF IInv, Types
<1>6. PICK u \in Seq(Cell) : u = Read(mem, v)
  BY <1>5, ReadBytes
<1>7. Len(u) = v.len /\ \A j \in 1..v.len : u[j] = mem[v.data][v.from + j]
  BY <1>5, <1>6, ReadBytes
<1>8. ASSUME NEW j \in 1..v.len
      PROVE  AfterResize(o, n)[v.data][v.from + j] = mem[v.data][v.from + j]
  <2>1. CASE v.data # obj[o].data
    BY <1>1, <1>4, <1>5, <2>1, Resized
  <2>2. CASE v.data = obj[o].data
    <3>1. v.from + v.len <= size(o)
      BY <1>1, <2>2, OwnSource
    <3>2. obj[o].capacity_ = Len(mem[obj[o].data]) /\ obj[o].capacity_ \in Nat
      BY <1>1, SizeFits
    <3>3. v.from + j \in 1..obj[o].capacity_ /\ v.from + j # n + 1
      <4>1. PICK f \in Nat, l \in Nat, z \in Nat : f = v.from /\ l = v.len /\ z = size(o)
        BY <1>2, <1>5
      <4>2. f + l <= z /\ f + l <= obj[o].capacity_ /\ j \in 1..l /\ n = z + l
        BY <1>3, <1>5, <2>2, <3>1, <3>2, <4>1
      <4>3. f + j \in 1..obj[o].capacity_ /\ f + j # n + 1
        BY <3>2, <4>2
      <4> QED BY <4>1, <4>3
    <3>4. \A k \in 1..obj[o].capacity_ :
            k # n + 1 => AfterResize(o, n)[obj[o].data][k] = mem[obj[o].data][k]
      BY <1>1, <1>4, Resized
    <3> QED BY <2>2, <3>3, <3>4
  <2> QED BY <2>1, <2>2
<1>9. \A k \in Memory : k # obj[o].data => mem'[k] = mem[k]
  BY <1>1, <1>4, ResizedAndCopied
<1>10. \A j \in 1..v.len : mem'[obj[o].data][i + j] = AfterResize(o, n)[v.data][v.from + j]
  BY <1>1, <1>4, ResizedAndCopied
<1>11. \A j \in 1..n : j <= i \/ j > i + v.len => mem'[obj[o].data][j] = mem[obj[o].data][j]
  BY <1>1, <1>4, ResizedAndCopied
<1>12. \A j \in 1..size(o) : mem'[obj[o].data][j] = mem[obj[o].data][j]
  <2> SUFFICES ASSUME NEW j \in 1..size(o)
               PROVE  mem'[obj[o].data][j] = mem[obj[o].data][j]
    OBVIOUS
  <2>1. j \in 1..n /\ j <= i
    BY <1>2, <1>3, <1>5
  <2> QED BY <1>11, <2>1
<1>13. \A j \in 1..Len(u) : mem'[obj[o].data][size(o) + j] = u[j]
  BY <1>2, <1>7, <1>8, <1>10
<1>14. obj' = [obj EXCEPT ![o].size_ = IF o \in String THEN n + 1 ELSE n]
  BY <1>4, CopyFrame
<1>15. n = size(o) + Len(u)
  BY <1>3, <1>7
<1>16. Texts' = [Texts EXCEPT ![o] = @ \o u]
  BY <1>1, <1>9, <1>12, <1>13, <1>14, <1>15, TextGrows
<1>17. u \in Value!Pieces /\ Texts[o] # Absent
  BY <1>1, <1>6, SourceIsPiece, TextOfValid
<1> QED BY <1>16, <1>17, TextSteps

\* push_back() adds a byte.
LEMMA PushedText ==
  ASSUME IInv, IInv', NEW o \in Object, NEW c \in Byte, PushBack(o, c)
  PROVE  Value!Next
<1>1. Valid(o)
  BY DEF PushBack
<1>2. PICK u \in Seq(Cell) : u = << c >> /\ Len(u) = 1 /\ u[1] = c
  <2>1. << c >> \in Seq(Cell) /\ Len(<< c >>) = 1 /\ << c >>[1] = c
    BY DEF Cell
  <2> QED BY <2>1
<1>3. PICK n \in Nat : n = size(o) + Len(u)
  BY <1>1, <1>2, SizeFits
<1>4. obj[o].size_ = (IF o \in String THEN size(o) + 1 ELSE size(o)) /\ size(o) \in Nat
  BY <1>1, TextOfValid
<1>5. obj' = [obj EXCEPT ![o].size_ = IF o \in String THEN n + 1 ELSE n]
  <2>1. obj[o].size_ + 1 = (IF o \in String THEN n + 1 ELSE n)
    BY <1>2, <1>3, <1>4
  <2>2. obj' = [obj EXCEPT ![o].size_ = obj[o].size_ + 1]
    BY DEF PushBack
  <2> QED BY <2>1, <2>2
<1>6. \A k \in Memory : k # obj[o].data => mem'[k] = mem[k]
  BY PushedBytes
<1>7. \A j \in 1..size(o) : mem'[obj[o].data][j] = mem[obj[o].data][j]
  BY PushedBytes
<1>8. mem'[obj[o].data][size(o) + 1] = c
  BY PushedBytes
<1>9. \A j \in 1..Len(u) : mem'[obj[o].data][size(o) + j] = u[j]
  BY <1>2, <1>8
<1>10. Texts' = [Texts EXCEPT ![o] = @ \o u]
  BY <1>1, <1>3, <1>5, <1>6, <1>7, <1>9, TextGrows
<1>11. Texts[o] # Absent /\ u \in Value!Pieces \cup {<< b >> : b \in Cell}
  BY <1>1, <1>2, TextOfValid DEF Cell
<1> QED BY <1>10, <1>11, TextSteps

\* A client's store changes one byte of the text.
LEMMA WrittenText ==
  ASSUME IInv, IInv', NEW o \in Object, NEW c \in Byte, NEW i \in Nat, Write(o, i, c)
  PROVE  Value!Next
<1>1. Valid(o) /\ i < size(o) /\ obj' = obj
  BY DEF Write
<1>2. /\ Texts[o] \in Seq(Cell) /\ Texts[o] # Absent /\ Len(Texts[o]) = size(o) /\ size(o) \in Nat
      /\ size(o) <= capacity(o) /\ capacity(o) \in Nat /\ capacity(o) <= obj[o].capacity_
      /\ obj[o].capacity_ \in Nat /\ Len(mem[obj[o].data]) = obj[o].capacity_
      /\ obj[o].size_ = (IF o \in String THEN size(o) + 1 ELSE size(o))
      /\ \A j \in 1..size(o) : Texts[o][j] = mem[obj[o].data][j]
  BY <1>1, TextOfValid
<1>3. PICK n \in Nat : n = size(o)
  BY <1>2
<1>4. obj' = [obj EXCEPT ![o].size_ = IF o \in String THEN n + 1 ELSE n]
  <2>1. obj = [obj EXCEPT ![o].size_ = obj[o].size_]
    BY DEF IInv, Types, Members
  <2> QED BY <1>1, <1>2, <1>3, <2>1
<1>5. PICK k \in 1..Len(Texts[o]) : k = i + 1
  BY <1>1, <1>2
<1>6. c \in Cell
  BY DEF Cell
<1>7. /\ [Texts[o] EXCEPT ![k] = c] \in Seq(Cell)
      /\ Len([Texts[o] EXCEPT ![k] = c]) = Len(Texts[o])
      /\ \A j \in 1..Len(Texts[o]) :
           [Texts[o] EXCEPT ![k] = c][j] = IF j = k THEN c ELSE Texts[o][j]
  BY <1>2, <1>6, ExceptSeq
<1>8. PICK t \in Seq(Cell) : t = [Texts[o] EXCEPT ![k] = c] /\ Len(t) = n
         /\ \A j \in 1..n : t[j] = IF j = k THEN c ELSE Texts[o][j]
  BY <1>2, <1>3, <1>7
<1>9. \A m \in Memory : m # obj[o].data => mem'[m] = mem[m]
  BY WrittenBytes
<1>10. /\ mem'[obj[o].data][i + 1] = c
       /\ \A j \in 1..Len(mem[obj[o].data]) :
             j # i + 1 => mem'[obj[o].data][j] = mem[obj[o].data][j]
  BY WrittenBytes
<1>11. ASSUME NEW j \in 1..n
       PROVE  t[j] = mem'[obj[o].data][j]
  <2>1. CASE j = k
    BY <1>5, <1>8, <1>10, <2>1
  <2>2. CASE j # k
    <3>1. j \in 1..size(o) /\ j \in 1..Len(mem[obj[o].data])
      BY <1>2, <1>3
    <3> QED BY <1>2, <1>5, <1>8, <1>10, <2>2, <3>1
  <2> QED BY <2>1, <2>2
<1>12. Texts' = [Texts EXCEPT ![o] = t]
  <2>1. Len(t) = n /\ \A j \in 1..n : t[j] = mem'[obj[o].data][j]
    BY <1>8, <1>11
  <2>2. Valid(o)
    BY <1>1
  <2> QED BY <1>4, <1>9, <2>1, <2>2, TextBecomes
<1>13. Texts' = [Texts EXCEPT ![o][k] = c]
  BY <1>8, <1>12
<1> QED BY <1>2, <1>6, <1>13, TextSteps

\* Every step is a step of Text, or changes no text.
LEMMA TextStep == IInv /\ IInv' /\ [Next]_vars => Value!Next \/ UNCHANGED Texts
<1> SUFFICES ASSUME IInv, IInv', [Next]_vars PROVE Value!Next \/ UNCHANGED Texts
  OBVIOUS
<1>1. ASSUME NEW o \in Object, Destroy(o) \/ BufferOverArray(o)
      PROVE  Value!Next
  BY <1>1, Gone, ConstructorTexts
<1>2. ASSUME NEW o \in Object, NEW n \in 0..(WordSize - 1),
             BufferOfCapacity(o, n) \/ StringOfSize(o, n) \/ Resize(o, n)
      PROVE  Value!Next
  BY <1>2, ConstructorTexts, ResizedText
<1>3. ASSUME NEW o \in Object, NEW v \in Sources,
             StringFrom(o, v) \/ Assign(o, v) \/ AppendView(o, v)
      PROVE  Value!Next
  BY <1>3, ConstructorTexts, AssignedText, ClobberedText, AppendedText
<1>4. ASSUME NEW o \in Object, NEW p \in Object, MoveConstruct(o, p) \/ MoveAssign(o, p)
      PROVE  Value!Next
  BY <1>4, MovedText
<1>5. ASSUME NEW o \in Object, NEW c \in Byte,
             PushBack(o, c) \/ \E i \in 0..(MaxCapacity + Room) : Write(o, i, c)
      PROVE  Value!Next
  <2>1. ASSUME NEW i \in 0..(MaxCapacity + Room), Write(o, i, c)
        PROVE  Value!Next
    <3>1. i \in Nat
      OBVIOUS
    <3> QED BY <2>1, <3>1, WrittenText
  <2> QED BY <1>5, <2>1, PushedText
<1>6. CASE UNCHANGED vars
  BY <1>6 DEF vars, Texts, TextOf, Valid, size
<1> QED BY <1>1, <1>2, <1>3, <1>4, <1>5, <1>6 DEF Next

\* Strings and Buffers are values: the copies, moves and changes of the code act on
\* texts that are independent of one another, although the objects share memory,
\* resize before they copy, and may copy from themselves.  Where the resize() of a
\* String's assign() overwrites what is copied after it, the text begins with that NUL,
\* and no other byte of any object is different.
THEOREM TextRefinement == Spec => ImplementsText
<1>1. Init => Value!Init
  BY DEF Init, Value!Init, TextOf, Valid, NullBuffer
<1>2. IInv /\ IInv' /\ [Next]_vars => [Value!Next]_([o \in Object |-> TextOf(o)])
  BY TextStep DEF Texts
<1> QED BY <1>1, <1>2, Invariance, PTL DEF Spec, ImplementsText, Value!Spec

-------------------------------------------------------------------------------
(* Searching                                                                  *)

\* Bytes i + 1 to i + Len(p) are p.
LEMMA PartIs ==
  ASSUME NEW S, NEW s \in Seq(S), NEW T, NEW p \in Seq(T), NEW i \in Nat, i + Len(p) <= Len(s)
  PROVE  SubSeq(s, i + 1, i + Len(p)) = p <=> \A j \in 1..Len(p) : s[i + j] = p[j]
<1> DEFINE part == SubSeq(s, i + 1, i + Len(p))
<1>1. Len(s) \in Nat /\ Len(p) \in Nat /\ p = [j \in 1..Len(p) |-> p[j]]
  BY LenProperties
<1>2. \A k \in (i + 1)..(i + Len(p)) : s[k] \in S
  BY <1>1, ElementOfSeq
<1>3. /\ part \in Seq(S) /\ Len(part) = (IF i + 1 <= i + Len(p) THEN (i + Len(p)) - (i + 1) + 1 ELSE 0)
      /\ \A j \in 1..((i + Len(p)) - (i + 1) + 1) : part[j] = s[(i + 1) + j - 1]
  BY <1>1, <1>2, SubSeqProperties
<1> HIDE DEF part
<1>4. Len(part) = Len(p) /\ \A j \in 1..Len(p) : part[j] = s[i + j]
  BY <1>1, <1>3
<1>5. part = [j \in 1..Len(p) |-> part[j]]
  BY <1>3, <1>4, LenProperties
<1>6. part = p <=> \A j \in 1..Len(p) : part[j] = p[j]
  BY <1>1, <1>5
<1> QED BY <1>4, <1>6 DEF part

\* Buffer::find finds the first match.
LEMMA BufferFinds ==
  ASSUME NEW S, NEW s \in Seq(S), NEW T, NEW p \in Seq(T), p # << >>, NEW from \in Nat
  PROVE  LET starts == {i \in from..(Len(s) - Len(p)) : \A j \in 1..Len(p) : s[i + j] = p[j]} IN
         /\ starts = {} => FindInBuffer(s, p, from) = Nothing
         /\ starts # {} => /\ FindInBuffer(s, p, from) \in starts
                           /\ \A i \in starts : FindInBuffer(s, p, from) <= i
<1> DEFINE starts == {i \in from..(Len(s) - Len(p)) : \A j \in 1..Len(p) : s[i + j] = p[j]}
           First(i) == i \in starts /\ \A k \in starts : i <= k
<1>1. Len(s) \in Nat /\ Len(p) \in Nat
  BY LenProperties
<1>2. Matches(s, p, from) = starts
  <2>1. ASSUME NEW i \in from..(Len(s) - Len(p))
        PROVE  SubSeq(s, i + 1, i + Len(p)) = p <=> \A j \in 1..Len(p) : s[i + j] = p[j]
    <3>1. i \in Nat /\ i + Len(p) <= Len(s)
      BY <1>1
    <3> QED BY <3>1, PartIs
  <2> QED BY <2>1 DEF Matches
<1>3. CASE starts = {}
  <2>1. FindInBuffer(s, p, from) = Nothing
    BY <1>2, <1>3 DEF FindInBuffer
  <2> QED BY <1>3, <2>1
<1>4. CASE starts # {}
  <2>1. PICK n : n \in starts
    BY <1>4
  <2>2. starts \in SUBSET Nat /\ ~(from > Len(s) - Len(p))
    BY <1>1, <2>1
  <2>3. \E i : First(i)
    BY <2>1, <2>2, Least
  <2>4. FindInBuffer(s, p, from) = CHOOSE i \in starts : \A k \in starts : i <= k
    BY <1>2, <1>4, <2>2 DEF FindInBuffer
  <2> HIDE DEF starts
  <2>5. First(CHOOSE i \in starts : \A k \in starts : i <= k)
    BY <2>3
  <2> QED BY <1>4, <2>4, <2>5 DEF starts
<1> QED BY <1>3, <1>4

\* find(p, from) finds the first match in the text of an object, for every pattern
\* without a NUL.
LEMMA FindIsFirst ==
  ASSUME IInv, NEW o \in Object, Valid(o),
         NEW p \in Seq(Byte \ {NUL}), p # << >>, NEW from \in Nat
  PROVE  FirstMatch(o, p, from)
<1> DEFINE text   == TextOf(o)
           bytes  == SubSeq(mem[obj[o].data], 1, obj[o].size_)
           Here(s, i) == \A j \in 1..Len(p) : s[i + j] = p[j]
           InText  == {i \in from..(Len(text) - Len(p)) : Here(text, i)}
           InBytes == {i \in from..(Len(bytes) - Len(p)) : Here(bytes, i)}
           found   == FindInBuffer(bytes, p, from)
<1>1. /\ mem[obj[o].data] \in Seq(Cell) /\ obj[o].size_ \in Nat /\ obj[o].size_ <= Len(mem[obj[o].data])
      /\ size(o) \in Nat /\ size(o) <= Len(mem[obj[o].data]) /\ obj[o].size_ < WordSize
      /\ size(o) = IF o \in String THEN obj[o].size_ - 1 ELSE obj[o].size_
  <2>1. mem \in [Memory -> Seq(Cell)] /\ obj[o].size_ <= obj[o].capacity_
    BY DEF IInv, Types, Fits
  <2>2. /\ obj[o].data \in Memory \ {Static} /\ obj[o].capacity_ \in Nat /\ obj[o].size_ \in Nat
        /\ Len(mem[obj[o].data]) = obj[o].capacity_ /\ obj[o].capacity_ < WordSize
        /\ o \in String => size(o) = obj[o].size_ - 1
        /\ o \notin String => size(o) = obj[o].size_
        /\ size(o) \in Nat /\ size(o) <= Len(mem[obj[o].data])
    BY SizeFits
  <2>3. WordSize \in Nat
    BY StringsAssumption
  <2> QED BY <2>1, <2>2, <2>3
<1>2. /\ text \in Seq(Cell) /\ Len(text) = size(o)
      /\ \A j \in 1..size(o) : text[j] = mem[obj[o].data][j]
  <2>1. text = SubSeq(mem[obj[o].data], 1, size(o))
    BY DEF TextOf
  <2> QED BY <1>1, <2>1, Prefix, LenProperties
<1>3. /\ bytes \in Seq(Cell) /\ Len(bytes) = obj[o].size_
      /\ \A j \in 1..obj[o].size_ : bytes[j] = mem[obj[o].data][j]
  BY <1>1, Prefix, LenProperties
<1>4. Len(p) \in Nat \ {0} /\ \A j \in 1..Len(p) : p[j] \in Byte \ {NUL}
  BY LenProperties, EmptySeq, ElementOfSeq
<1> HIDE DEF text, bytes
<1>5. InBytes = InText
  <2>1. ASSUME NEW i \in InText PROVE i \in InBytes
    <3>1. i \in Nat /\ i >= from /\ i + Len(p) <= size(o) /\ Here(text, i)
      BY <1>1, <1>2, <1>4
    <3>2. i + Len(p) <= Len(bytes)
      BY <1>1, <1>3, <1>4, <3>1
    <3>3. ASSUME NEW j \in 1..Len(p) PROVE bytes[i + j] = p[j]
      <4>1. i + j \in 1..size(o) /\ i + j \in 1..obj[o].size_
        BY <1>1, <1>4, <3>1
      <4> QED BY <1>2, <1>3, <3>1, <4>1
    <3> QED BY <1>1, <1>3, <1>4, <3>1, <3>2, <3>3
  <2>2. ASSUME NEW i \in InBytes PROVE i \in InText
    <3>1. i \in Nat /\ i + Len(p) <= Len(bytes) /\ Here(bytes, i)
      BY <1>1, <1>3, <1>4
    <3>2. i + Len(p) <= size(o)
      <4>1. CASE o \notin String
        BY <1>1, <1>3, <3>1, <4>1
      <4>2. CASE o \in String
        <5>1. obj[o].size_ > 0 /\ bytes[obj[o].size_] = NUL
          BY <1>3, <4>2, SMTT(30) DEF IInv, Ended
        <5>2. bytes[i + Len(p)] = p[Len(p)]
          BY <1>4, <3>1
        <5>3. p[Len(p)] # NUL
          BY <1>4
        <5>4. i + Len(p) # obj[o].size_
          BY <5>1, <5>2, <5>3
        <5>5. /\ i + Len(p) \in Nat /\ i + Len(p) <= obj[o].size_
              /\ size(o) = obj[o].size_ - 1 /\ obj[o].size_ \in Nat
          BY <1>1, <1>3, <1>4, <3>1, <4>2
        <5> QED BY <5>4, <5>5
      <4> QED BY <4>1, <4>2
    <3>3. ASSUME NEW j \in 1..Len(p) PROVE text[i + j] = p[j]
      <4>1. i + j \in 1..size(o) /\ i + j \in 1..obj[o].size_
        BY <1>1, <1>4, <3>1, <3>2
      <4> QED BY <1>2, <1>3, <3>1, <4>1
    <3> QED BY <1>1, <1>2, <1>4, <3>1, <3>2, <3>3
  <2> QED BY <2>1, <2>2
<1>6. /\ InBytes = {} => found = Nothing
      /\ InBytes # {} => found \in InBytes /\ \A i \in InBytes : found <= i
  BY <1>3, BufferFinds
<1>7. CASE o \in String /\ (from + Len(p)) % WordSize > size(o)
  <2>1. InText = {}
    <3> SUFFICES ASSUME NEW i \in InText PROVE FALSE
      OBVIOUS
    <3>1. from + Len(p) <= size(o) /\ from + Len(p) \in Nat
      BY <1>1, <1>2, <1>4
    <3>2. size(o) < WordSize /\ WordSize \in Nat \ {0}
      <4>1. o \in String /\ WordSize \in Nat
        BY <1>7, StringsAssumption
      <4> QED BY <1>1, <4>1
    <3>3. from + Len(p) \in 0..(WordSize - 1)
      BY <1>1, <3>1, <3>2
    <3>4. ASSUME NEW n \in 0..(WordSize - 1) PROVE n % WordSize = n
      <4>1. n \in Int
        BY <3>2
      <4> QED BY <3>2, <4>1, ModOneTurn
    <3>5. (from + Len(p)) % WordSize = from + Len(p)
      BY <3>3, <3>4
    <3> QED BY <1>1, <1>7, <3>1, <3>5
  <2>2. Find(o, p, from) = Nothing
    BY <1>7 DEF Find
  <2> QED BY <2>1, <2>2 DEF FirstMatch, text
<1>8. CASE ~(o \in String /\ (from + Len(p)) % WordSize > size(o))
  <2>1. Find(o, p, from) = found
    BY <1>8 DEF Find, bytes
  <2> HIDE DEF found, InBytes
  <2> QED BY <1>5, <1>6, <2>1 DEF FirstMatch, text
<1> QED BY <1>7, <1>8

\* find() returns the index of the first match, or nothing if there is none: for the
\* patterns the run tries, and for patterns of every length.  The tests of the code that
\* come before the search may wrap, but refuse no pattern that is there.
THEOREM SearchFindsFirst ==
  Spec => [](FindsFirst /\ \A o \in live : Valid(o) =>
               \A p \in Seq(Byte \ {NUL}) \ {<< >>}, from \in Nat : FirstMatch(o, p, from))
<1>1. ASSUME IInv
      PROVE  \A o \in live : Valid(o) =>
               \A p \in Seq(Byte \ {NUL}) \ {<< >>}, from \in Nat : FirstMatch(o, p, from)
  BY <1>1, FindIsFirst DEF IInv, Types
<1>2. ASSUME IInv PROVE FindsFirst
  <2>1. \A n \in 1..2 : \A p \in [1..n -> Byte \ {NUL}] : p \in Seq(Byte \ {NUL}) \ {<< >>}
    BY FunctionIsSeq, EmptySeq
  <2>2. WordSize \in Nat
    BY StringsAssumption
  <2>3. 0..(WordSize - 1) \subseteq Nat
    BY <2>2
  <2>4. ASSUME NEW o \in live, Valid(o), NEW n \in 1..2, NEW p \in [1..n -> Byte \ {NUL}],
               NEW from \in 0..(WordSize - 1)
        PROVE  FirstMatch(o, p, from)
    BY <1>1, <1>2, <2>1, <2>3, <2>4
  <2> QED BY <2>4 DEF FindsFirst
<1> QED BY <1>1, <1>2, Invariance, PTL

================================================================================
