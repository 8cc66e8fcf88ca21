------------------------------ MODULE AddressKind ------------------------------
(******************************************************************************)
(* detect_address_kind (src/net/address_kind.cpp): is a text empty, a literal *)
(* IP address, a host name or none of these?  And resolve (src/net/           *)
(* resolve.cpp): which of the addresses the system knows for it is taken?     *)
(*                                                                            *)
(* Both are pure.  A text is a sequence of characters up to its NUL; the      *)
(* limits are those of the code, scaled down by the runs.  What inet_pton and *)
(* getaddrinfo accept is external: Literal has the texts that are addresses.  *)
(******************************************************************************)
EXTENDS Integers, Sequences, SequencesExt

CONSTANTS
  MaxLabel, MaxName,   \* 63 and 253
  Puny,                \* the characters of "xn--"
  Letter, Digit,       \* std::isalpha, std::isdigit
  Literal              \* text of an address |-> the address

AlnumHyph == Letter \cup Digit \cup {"-"}

ASSUME AddressKindAssumption ==
  /\ {MaxLabel, MaxName} \subseteq Nat /\ Len(Puny) < MaxLabel /\ MaxLabel < MaxName
  /\ Puny \in Seq(AlnumHyph) /\ "-" \in ToSet(Puny)
  /\ {"-", "."} \cap (Letter \cup Digit) = {}
  /\ \A text \in DOMAIN Literal : Literal[text].family \in {"v4", "v6"}

\* check_label: the label of len characters from start on.
CheckLabel(s, start, len) ==
  /\ len \in 1..MaxLabel
  /\ s[start] # "-" /\ s[start + len - 1] # "-"
  /\ \A i \in start..(start + len - 1) : s[i] \in AlnumHyph

\* Mutant: the start of the label that ends at a dot is kept.
LabelsKeepStart(s, b, i) ==
  IF s[i] = "."
  THEN [ok |-> b.ok /\ CheckLabel(s, b.start + 1, b.len), labels |-> b.labels + 1, start |-> b.start, len |-> 0]
  ELSE [b EXCEPT !.len = @ + 1]

\* The i-th turn of the loop over the characters.  Was every label that a dot has ended
\* right, how many are there, after which position does the next start, and how long is
\* it so far?  (The code returns at the first that is not right.)
LabelStep(s, b, i) ==
  IF s[i] = "."
  THEN [ok |-> b.ok /\ CheckLabel(s, b.start + 1, b.len), labels |-> b.labels + 1, start |-> i, len |-> 0]
  ELSE [b EXCEPT !.len = @ + 1]

LabelStart == [ok |-> TRUE, labels |-> 0, start |-> 0, len |-> 0]

Labels(s) ==
  LET after[i \in 0..Len(s)] == IF i = 0 THEN LabelStart ELSE LabelStep(s, after[i - 1], i)
  IN  after[Len(s)]

\* The last label of a name without a final dot.
TopLevel(tld) ==
  IF IsPrefix(Puny, tld)
  THEN Len(tld) \in (Len(Puny) + 1)..MaxLabel /\ \A i \in (Len(Puny) + 1)..Len(tld) : tld[i] \in AlnumHyph
  ELSE Len(tld) \in 2..MaxLabel /\ \A i \in 1..Len(tld) : tld[i] \in Letter

IsFqdn(s) ==
  LET scan == Labels(s) IN
  /\ s # << >>
  /\ Len(s) <= IF Last(s) = "." THEN MaxName + 1 ELSE MaxName
  /\ scan.ok
  /\ IF Last(s) = "." THEN scan.labels >= 1
     ELSE /\ CheckLabel(s, scan.start + 1, scan.len)
          /\ TopLevel(SubSeq(s, scan.start + 1, scan.start + scan.len))

\* A null pointer counts as the empty text.  (inet_pton fails only for a family it
\* does not know, and is asked for none.)
DetectKind(s) ==
  IF s = << >> THEN "EMPTY"
  ELSE IF Len(s) > MaxName + 1 THEN "UNKNOWN"
  ELSE IF s \in DOMAIN Literal THEN IF Literal[s].family = "v4" THEN "IP4" ELSE "IP6"
  ELSE IF IsFqdn(s) THEN "HOSTNAME" ELSE "UNKNOWN"

-------------------------------------------------------------------------------
(* resolve *)

Modes  == {"REQUIRE_IPV4", "PREFER_IPV4", "REQUIRE_IPV6", "PREFER_IPV6"}
NoAddress == [family |-> "none"]

\* The families getaddrinfo is asked for.
Asked(mode) ==
  CASE mode = "REQUIRE_IPV4" -> {"v4"} [] mode = "REQUIRE_IPV6" -> {"v6"}
    [] OTHER -> {"v4", "v6"}

Prefers(mode) == IF mode \in {"REQUIRE_IPV4", "PREFER_IPV4"} THEN "v4" ELSE "v6"

\* Mutant: the loop ends with the first address, of whichever family.
FoundFirst(list, mode, b, i) ==
  CASE b.done -> b
    [] ~b.done /\ list[i].family = "v4" -> [b EXCEPT !.v4 = list[i], !.done = TRUE]
    [] OTHER -> [b EXCEPT !.v6 = list[i], !.done = TRUE]

\* The i-th turn of the loop over the answer: the first address of each family is kept,
\* up to the break at one of the preferred family or at one of each.
FoundStep(list, mode, b, i) ==
  CASE ~b.done /\ list[i].family = "v4" /\ b.v4 = NoAddress ->
         [b EXCEPT !.v4 = list[i], !.done = Prefers(mode) = "v4" \/ b.v6 # NoAddress]
    [] ~b.done /\ list[i].family = "v6" /\ b.v6 = NoAddress ->
         [b EXCEPT !.v6 = list[i], !.done = Prefers(mode) = "v6" \/ b.v4 # NoAddress]
    [] OTHER -> b

FoundStart == [v4 |-> NoAddress, v6 |-> NoAddress, done |-> FALSE]

Found(list, mode) ==
  LET after[i \in 0..Len(list)] ==
        IF i = 0 THEN FoundStart ELSE FoundStep(list, mode, after[i - 1], i)
  IN  after[Len(list)]

Other(family) == IF family = "v4" THEN "v6" ELSE "v4"

\* The result for an answer of getaddrinfo; the empty one stands for its failure.
Resolve(list, mode) ==
  LET found == Found(list, mode) IN
  IF found[Prefers(mode)] # NoAddress \/ mode \in {"REQUIRE_IPV4", "REQUIRE_IPV6"}
  THEN found[Prefers(mode)] ELSE found[Other(Prefers(mode))]

-------------------------------------------------------------------------------
(* What the two loops should compute, without a loop *)

\* The labels of a text: what lies between two dots, or a dot and an end.
LabelSpans(s) ==
  LET cuts == {0, Len(s) + 1} \cup {i \in 1..Len(s) : s[i] = "."} IN
  {span \in cuts \X cuts :
     span[1] < span[2] /\ ~\E c \in cuts : span[1] < c /\ c < span[2]}

Label(s, span) == SubSeq(s, span[1] + 1, span[2] - 1)

GoodLabel(l) ==
  Len(l) \in 1..MaxLabel /\ ToSet(l) \subseteq AlnumHyph /\ "-" \notin {l[1], l[Len(l)]}

GoodTop(l) ==
  \/ Len(l) >= 2 /\ ToSet(l) \subseteq Letter
  \/ IsPrefix(Puny, l) /\ l # Puny

HostName(s) ==
  /\ s # << >>
  /\ IF Last(s) = "."
     THEN Len(s) - 1 \in 1..MaxName /\ \A l \in LabelSpans(Front(s)) : GoodLabel(Label(s, l))
     ELSE /\ Len(s) <= MaxName
          /\ \A l \in LabelSpans(s) :
               GoodLabel(Label(s, l)) /\ (l[2] = Len(s) + 1 => GoodTop(Label(s, l)))

\* The first address of a family in a list, if there is one.
FirstOf(list, family) ==
  {list[i] : i \in {j \in 1..Len(list) : list[j].family = family /\ \A k \in 1..(j - 1) : list[k].family # family}}

\* The addresses of which resolve takes one, if there is one.
Preferred(list, mode) ==
  IF FirstOf(list, Prefers(mode)) # {} THEN FirstOf(list, Prefers(mode))
  ELSE IF mode \in {"PREFER_IPV4", "PREFER_IPV6"} THEN FirstOf(list, Other(Prefers(mode))) ELSE {}

Taken(list, mode) ==
  IF Preferred(list, mode) = {} THEN {NoAddress} ELSE Preferred(list, mode)

================================================================================
