---------------------------------- MODULE Text ----------------------------------
(******************************************************************************)
(* What String and Buffer promise their clients: objects with values.  Each   *)
(* object that exists holds a sequence of bytes, or nothing; an operation     *)
(* changes the objects it names and no other, whatever they were copied or    *)
(* moved from.  One operation has a result that its name does not say: see    *)
(* CopyBehind.                                                                *)
(******************************************************************************)
EXTENDS Integers, Sequences

CONSTANTS
  Object,      \* the objects
  CString,     \* those that keep a byte Nul behind their text
  Nul,
  Byte,        \* the values of a byte
  None,        \* the text of an object that is not there or holds nothing
  Literal,     \* a constant sequence, to copy from
  MaxLen       \* the longest text (bounds the model)

VARIABLE text

Init == text = [o \in Object |-> None]

\* The pieces of text that can be copied: parts of the literal and of the texts.
Pieces ==
  LET texts == {Literal} \cup {text[o] : o \in {p \in Object : text[p] # None}}
  IN  UNION {{SubSeq(t, i + 1, j) : i, j \in 0..Len(t)} : t \in texts}

\* o becomes a copy of a piece.
Copy(o) == \E t \in Pieces : text' = [text EXCEPT ![o] = t]

\* o becomes a copy of n of its own bytes that follow its first n ones: the Nul that
\* is stored behind the new text replaces the first of them before they are read.
CopyBehind(o) ==
  /\ o \in CString /\ text[o] # None
  /\ \E n \in 1..Len(text[o]) :
       /\ 2 * n <= Len(text[o])
       /\ text' = [text EXCEPT ![o] = << Nul >> \o SubSeq(@, n + 2, 2 * n)]

\* A piece or a byte is added at the end of o.
Extend(o) ==
  /\ text[o] # None
  /\ \E t \in Pieces \cup {<< b >> : b \in Byte} : text' = [text EXCEPT ![o] = @ \o t]

\* o is cut to a prefix of itself, or gets bytes of any value at its end.
Cut(o) ==
  /\ text[o] # None
  /\ \E n \in 0..Len(text[o]) : text' = [text EXCEPT ![o] = SubSeq(@, 1, n)]

Grow(o) ==
  /\ text[o] # None
  /\ \E n \in 1..(MaxLen - Len(text[o])) : \E t \in [1..n -> Byte] :
       text' = [text EXCEPT ![o] = @ \o t]

\* One byte of o is replaced.
Write(o) ==
  /\ text[o] # None
  /\ \E i \in 1..Len(text[o]), b \in Byte : text' = [text EXCEPT ![o][i] = b]

\* The text of p passes to o, and p is left with nothing.
Move(o, p) == o # p /\ text' = [text EXCEPT ![o] = text[p], ![p] = None]

\* o is destroyed.
Lose(o) == text' = [text EXCEPT ![o] = None]

Next ==
  \E o \in Object :
    \/ Copy(o) \/ CopyBehind(o) \/ Extend(o) \/ Cut(o) \/ Grow(o) \/ Write(o) \/ Lose(o)
    \/ \E p \in Object : Move(o, p)

Spec == Init /\ [][Next]_text

================================================================================
