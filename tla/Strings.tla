-------------------------------- MODULE Strings ---------------------------------
(******************************************************************************)
(* sfap::Buffer (src/utils/buffer.cpp) and sfap::String (src/utils/string.cpp)*)
(* as their clients use them: objects that are constructed, copied, moved,    *)
(* changed and destroyed, and the memory behind them.                         *)
(*                                                                            *)
(* A String is a Buffer whose last byte is a NUL that size() does not count.  *)
(* A call that its guards refuse returns false and changes nothing: it is a   *)
(* stuttering step here.  What a client copies from is a view of somebody's   *)
(* bytes, read when the code reads them.                                      *)
(******************************************************************************)
EXTENDS Integers, Sequences, FiniteSets

CONSTANTS
  String, Buffer,  \* the objects of each class
  Block,           \* allocations that exist at a time
  MaxLive,         \* objects that exist at a time (bounds the model)
  Byte,            \* the values of a byte, NUL among them
  Literal,         \* bytes that belong to nobody here, to copy from
  Room,            \* bytes of an array that a Buffer is made over
  MaxCapacity,     \* the largest allocation that may succeed
  WordSize         \* 2^w, the number of values of std::size_t

NUL    == 0
Junk   == -1       \* the value of a byte nobody wrote
Absent == << -2 >> \* the text of no object
Null   == "null"
Static == "static" \* holds Literal
Array  == "array"  \* the external storage of Room bytes
Object == String \cup Buffer

ASSUME StringsAssumption ==
  /\ NUL \in Byte /\ Byte \subseteq Nat /\ Literal \in Seq(Byte)
  /\ String \cap Buffer = {} /\ Block \cap {Null, Static, Array} = {}
  /\ Room \in Nat \ {0} /\ MaxCapacity \in Nat \ {0} /\ MaxLive \in Nat
  /\ WordSize \in Nat
  \* No two pieces of memory are together larger than the address space.
  /\ \A n, k \in {MaxCapacity, Room, Len(Literal)} : n + k < WordSize

VARIABLES
  live,   \* the objects that are constructed and not destroyed
  obj,    \* data_, capacity_, owner_ and size_ of each
  mem     \* the bytes of each allocation (none: not allocated) and of the two others

vars == <<live, obj, mem>>

-------------------------------------------------------------------------------
\* A Buffer that holds nothing: what a move leaves behind.
NullBuffer == [data |-> Null, capacity_ |-> 0, owner_ |-> FALSE, size_ |-> 0]

Valid(o) == obj[o].data # Null

\* size() and capacity() of a String do not count the NUL.
size(o) ==
  IF ~Valid(o) THEN 0 ELSE IF o \in String THEN (obj[o].size_ - 1) % WordSize ELSE obj[o].size_
capacity(o) ==
  IF ~Valid(o) THEN 0 ELSE IF o \in String THEN obj[o].capacity_ - 1 ELSE obj[o].capacity_

\* A view of len bytes of an allocation from an offset, and the bytes it shows.
View(data, from, len) == [data |-> data, from |-> from, len |-> len]
Read(m, v) == SubSeq(m[v.data], v.from + 1, v.from + v.len)

Parts(data, len) == {View(data, i, n) : i \in 0..len, n \in 0..len}

\* What a client may copy from: a part of the literal, or of a live object's text.
Sources ==
  {v \in Parts(Static, Len(Literal)) : v.from + v.len <= Len(Literal)} \cup
  UNION {{v \in Parts(obj[o].data, size(o)) : v.from + v.len <= size(o)} :
           o \in {p \in live : Valid(p)}}

\* Memory m with bytes s stored in an allocation from offset i on.
Stored(m, data, i, s) ==
  [m EXCEPT ![data] = [j \in 1..Len(@) |-> IF j - i \in 1..Len(s) THEN s[j - i] ELSE @[j]]]

-------------------------------------------------------------------------------
\* The array before a Buffer is made over it.
Unwritten == [i \in 1..Room |-> Junk]

Init ==
  /\ live = {}
  /\ obj = [o \in Object |-> NullBuffer]
  /\ mem = [k \in Block \cup {Static, Array} |->
              CASE k = Static -> Literal
                [] k = Array  -> Unwritten
                [] OTHER      -> << >>]

\* new (std::nothrow) std::byte[n], not called for n = 0: it may fail.
Allocations(n) ==
  {Null} \cup IF n \in 1..MaxCapacity THEN {k \in Block : mem[k] = << >>} ELSE {}

\* o begins to exist.
Made(o) ==
  /\ o \notin live /\ Cardinality(live) < MaxLive
  /\ live' = live \cup {o}

\* An object made with storage for n bytes, s of them stored and counted.
Construct(o, n, s) ==
  /\ Made(o)
  /\ \E k \in Allocations(n) :
       IF k = Null
       THEN obj' = [obj EXCEPT ![o] = [NullBuffer EXCEPT !.owner_ = TRUE]] /\ UNCHANGED mem
       ELSE /\ obj' = [obj EXCEPT ![o] = [data |-> k, capacity_ |-> n, owner_ |-> TRUE,
                                          size_ |-> Len(s)]]
            /\ mem' = [mem EXCEPT ![k] = [i \in 1..n |-> IF i <= Len(s) THEN s[i] ELSE Junk]]

\* Buffer(capacity)
BufferOfCapacity(o, n) == o \in Buffer /\ Construct(o, n, << >>)

\* Buffer(external)
BufferOverArray(o) ==
  /\ o \in Buffer /\ Made(o)
  /\ \A p \in live : obj[p].data # Array
  /\ obj' = [obj EXCEPT ![o] = [data |-> Array, capacity_ |-> Room, owner_ |-> FALSE, size_ |-> 0]]
  /\ UNCHANGED mem

\* String(n): n + 1 bytes, which wraps for the largest n.
StringOfSize(o, n) == o \in String /\ Construct(o, (n + 1) % WordSize, << NUL >>)

\* String(source), String(const String&): as many bytes as the source has and a NUL.
StringFrom(o, v) == o \in String /\ Construct(o, v.len + 1, Append(Read(mem, v), NUL))

\* The destructor, and the first half of a move assignment.  An array that no
\* Buffer is over belongs to its owner again, who may store anything in it.
Released(o) ==
  IF Valid(o) THEN [mem EXCEPT ![obj[o].data] = IF obj[o].owner_ THEN << >> ELSE Unwritten]
  ELSE mem

Destroy(o) ==
  /\ o \in live /\ live' = live \ {o}
  /\ mem' = Released(o)
  /\ obj' = [obj EXCEPT ![o] = NullBuffer]

SameClass(d, s) == (d \in String) = (s \in String)

MoveConstruct(d, s) ==
  /\ Made(d) /\ s \in live /\ SameClass(d, s)
  /\ obj' = [obj EXCEPT ![d] = obj[s], ![s] = NullBuffer]
  /\ UNCHANGED mem

\* Mutant: what d owned is not released.
MoveAssignLeaks(d, s) ==
  /\ d \in live /\ s \in live /\ d # s /\ SameClass(d, s)
  /\ obj' = [obj EXCEPT ![d] = obj[s], ![s] = NullBuffer]
  /\ UNCHANGED <<live, mem>>

\* A move to the object itself changes nothing.
MoveAssign(d, s) ==
  /\ d \in live /\ s \in live /\ d # s /\ SameClass(d, s)
  /\ mem' = Released(d)
  /\ obj' = [obj EXCEPT ![d] = obj[s], ![s] = NullBuffer]
  /\ UNCHANGED live

-------------------------------------------------------------------------------
(* Changing an object.  A String's resize() counts and stores the NUL.          *)

\* The size_ and the memory that resize(n) leaves.  A call that resizes to copy
\* reads its source from this memory.
SizeFor(o, n)     == IF o \in String THEN n + 1 ELSE n
AfterResize(o, n) == IF o \in String THEN Stored(mem, obj[o].data, n, << NUL >>) ELSE mem

\* Mutant: the NUL is stored where the text ended before.
ResizedAtOldEnd(o, n) ==
  /\ o \in live /\ Valid(o) /\ n <= capacity(o)
  /\ obj' = [obj EXCEPT ![o].size_ = SizeFor(o, n)]
  /\ mem' = AfterResize(o, size(o))
  /\ UNCHANGED live

\* Mutant: one byte more than capacity() is accepted.
ResizedTooFar(o, n) ==
  /\ o \in live /\ Valid(o) /\ n <= capacity(o) + 1
  /\ obj' = [obj EXCEPT ![o].size_ = SizeFor(o, n)]
  /\ mem' = AfterResize(o, n)
  /\ UNCHANGED live

Resize(o, n) ==
  /\ o \in live /\ Valid(o) /\ n <= capacity(o)
  /\ obj' = [obj EXCEPT ![o].size_ = SizeFor(o, n)]
  /\ mem' = AfterResize(o, n)
  /\ UNCHANGED live

\* o is resized to n bytes, then the bytes of v are stored from offset i on.
ResizeAndCopy(o, n, v, i) ==
  /\ n <= capacity(o)
  /\ obj' = [obj EXCEPT ![o].size_ = SizeFor(o, n)]
  /\ LET m == AfterResize(o, n) IN mem' = Stored(m, obj[o].data, i, Read(m, v))
  /\ UNCHANGED live

\* assign(source).  The source may be a part of the object that lies behind the bytes
\* it is copied to; memcpy() is not defined for one that overlaps them.  A Buffer copies
\* before it resizes, which is the same because its resize() stores nothing.
Assign(o, v) ==
  /\ o \in live /\ Valid(o) /\ (v.data = obj[o].data => v.from >= v.len)
  /\ ResizeAndCopy(o, v.len, v, 0)

\* Mutant: the source is stored over the last byte.
AppendOneEarly(o, v) ==
  /\ o \in live /\ Valid(o) /\ size(o) > 0
  /\ ResizeAndCopy(o, size(o) + v.len, v, size(o) - 1)

\* append(source); the source may be part of the object.
AppendView(o, v) ==
  /\ o \in live /\ Valid(o)
  /\ ResizeAndCopy(o, (size(o) + v.len) % WordSize, v, size(o))

\* push_back(c)
PushBack(o, c) ==
  /\ o \in live /\ Valid(o) /\ size(o) < capacity(o)
  /\ obj' = [obj EXCEPT ![o].size_ = @ + 1]
  /\ mem' = Stored(AfterResize(o, size(o) + 1), obj[o].data, size(o), << c >>)
  /\ UNCHANGED live

\* A client stores a byte through operator[], data() or begin().
Write(o, i, c) ==
  /\ o \in live /\ Valid(o) /\ i < size(o)
  /\ mem' = Stored(mem, obj[o].data, i, << c >>)
  /\ UNCHANGED <<live, obj>>

Next ==
  \/ \E o \in Object : Destroy(o) \/ BufferOverArray(o)
  \/ \E o \in Object, n \in 0..(WordSize - 1) :
       BufferOfCapacity(o, n) \/ StringOfSize(o, n) \/ Resize(o, n)
  \/ \E o \in Object, v \in Sources : StringFrom(o, v) \/ Assign(o, v) \/ AppendView(o, v)
  \/ \E o, p \in Object : MoveConstruct(o, p) \/ MoveAssign(o, p)
  \/ \E o \in Object, c \in Byte :
       PushBack(o, c) \/ \E i \in 0..(MaxCapacity + Room) : Write(o, i, c)

Spec == Init /\ [][Next]_vars

-------------------------------------------------------------------------------
(* Queries                                                                     *)

Nothing == -1   \* std::nullopt

\* Where the pattern is in the bytes, from a position on.
Matches(bytes, pattern, from) ==
  {i \in from..(Len(bytes) - Len(pattern)) : SubSeq(bytes, i + 1, i + Len(pattern)) = pattern}

\* Mutant: the last place where the pattern fits is refused.
FindRefusesLast(bytes, pattern, from) ==
  LET matches == Matches(bytes, pattern, from)
  IN  IF pattern = << >> \/ from >= Len(bytes) - Len(pattern) \/ matches = {}
      THEN Nothing ELSE CHOOSE i \in matches : \A j \in matches : i <= j

\* Buffer::find(pattern, from) on the counted bytes, a String's NUL included.
FindInBuffer(bytes, pattern, from) ==
  LET matches == Matches(bytes, pattern, from)
  IN  IF pattern = << >> \/ from > Len(bytes) - Len(pattern) \/ matches = {}
      THEN Nothing ELSE CHOOSE i \in matches : \A j \in matches : i <= j

\* find(pattern, from): a String first refuses what does not fit its size.
Find(o, pattern, from) ==
  IF o \in String /\ (from + Len(pattern)) % WordSize > size(o) THEN Nothing
  ELSE FindInBuffer(SubSeq(mem[obj[o].data], 1, obj[o].size_), pattern, from)

\* subview(from, count) of an object that is not modified: one view, or none.
ConstSubview(o, from, count) ==
  LET n == IF count = 0 THEN size(o) - from ELSE count
  IN  IF from <= size(o) /\ (count > 0 => (from + count) % WordSize <= size(o))
      THEN {View(obj[o].data, from, n)} ELSE {}

-------------------------------------------------------------------------------
(* What the two classes guarantee                                             *)

TypeOK ==
  /\ live \subseteq Object
  /\ \A o \in Object :
       /\ obj[o].data \in Block \cup {Null, Array} /\ obj[o].owner_ \in BOOLEAN
       /\ obj[o].capacity_ \in Nat /\ obj[o].size_ \in 0..obj[o].capacity_
  /\ \A k \in DOMAIN mem : mem[k] \in Seq(Byte \cup {Junk})

\* Memory is neither leaked, freed twice nor used after it was freed: an allocation
\* exists exactly as long as one live object owns it, no other object uses it, and
\* capacity() is its size.
Owned ==
  /\ \A k \in Block : mem[k] # << >> => \E o \in live : obj[o].data = k /\ obj[o].owner_
  /\ \A o \in Object : Valid(o) =>
       /\ o \in live /\ Len(mem[obj[o].data]) = obj[o].capacity_
       /\ obj[o].capacity_ > 0 /\ (obj[o].owner_ <=> obj[o].data \in Block)
       /\ \A p \in Object \ {o} : obj[p].data # obj[o].data

\* String's invariant: "if the object evaluates to true, then data_.size() ==
\* size() + 1 and c_str()[size()] == '\0'", whatever was done to it.
Terminated ==
  \A s \in String : Valid(s) =>
    obj[s].size_ = size(s) + 1 /\ mem[obj[s].data][size(s) + 1] = NUL

\* The texts the objects stand for.
TextOf(o) == IF Valid(o) THEN SubSeq(mem[obj[o].data], 1, size(o)) ELSE Absent

MaxLength == IF Room > MaxCapacity THEN Room ELSE MaxCapacity

Value == INSTANCE Text WITH
  CString <- String, Nul <- NUL, None <- Absent, Byte <- Byte \cup {Junk}, MaxLen <- MaxLength,
  text <- [o \in Object |-> TextOf(o)]

\* Objects are values: every operation has the result its name says on the objects
\* it names, and no other object changes.  The one result that the name does not say is
\* that of a String's assign() of as many of its own bytes as lie in front of them.
ImplementsText == Value!Spec

\* assign() of either class: "Replace buffer contents with \p source", whatever
\* the source is a part of.
AssignTakesSource ==
  [][\A o \in Object : \A v \in Sources : Assign(o, v) => TextOf(o)' = Read(mem, v)]_vars

\* What find(p, from) should say of o: the first place of its text, from `from` on, where
\* p is, or that there is none.
FirstMatch(o, p, from) ==
  LET text   == TextOf(o)
      starts == {i \in from..(Len(text) - Len(p)) : \A j \in 1..Len(p) : text[i + j] = p[j]}
      found  == Find(o, p, from)
  IN  IF starts = {} THEN found = Nothing
      ELSE found \in starts /\ \A i \in starts : found <= i

\* find() returns "Index of match start or std::nullopt if not found": the first
\* match in the text, for a pattern that the terminating NUL is no part of.
FindsFirst ==
  \A o \in live : Valid(o) =>
    \A p \in UNION {[1..n -> Byte \ {NUL}] : n \in 1..2} : \A from \in 0..(WordSize - 1) :
      FirstMatch(o, p, from)

\* subview() returns "A const span over [from, from + count] on success;
\* std::nullopt if buffer is null or the range exceeds size()".
SubviewInside ==
  \A o \in live : Valid(o) => \A from, count \in 0..(WordSize - 1) :
    \A v \in ConstSubview(o, from, count) : v.from + v.len <= size(o)

================================================================================
