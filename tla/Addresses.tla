------------------------------- MODULE Addresses -------------------------------
(******************************************************************************)
(* sfap::net::Address (src/net/address.cpp): objects that hold an IP address  *)
(* with a port, and the host name the IP was resolved from.                   *)
(*                                                                            *)
(* An object is made, changed, copied and moved by a program with one thread. *)
(* The system's name service is external and may answer the same name         *)
(* differently each time; an allocation of the origin's text may fail, which  *)
(* leaves an origin that is there and empty.                                  *)
(******************************************************************************)
EXTENDS AddressKind, FiniteSets

CONSTANTS
  Object,
  Name,        \* the texts from_hostname is called with
  Ip,          \* the addresses the name service knows
  Port,
  None,                \* no origin
  Char, MaxText,       \* the texts,
  Known, MaxAnswer     \* and the answers, on which is_fqdn and resolve are compared with
                       \* what they should compute

ASSUME AddressesAssumption ==
  /\ \A ip \in Ip \cup Known : ip.family \in {"v4", "v6"}
  /\ \A text \in DOMAIN Literal : Literal[text] \in Ip
  /\ Port \subseteq Nat /\ None \notin Name /\ \A name \in Name : Len(name) \in Nat
  /\ MaxText \in Nat /\ MaxAnswer \in Nat

VARIABLES
  object,      \* the Address objects that exist
  mode,        \* config::default_resolve_mode
  from,        \* history: the host name each object's IP came from
  last         \* history: the last call: of what, on which object, with success?

vars == <<object, mode, from, last>>

Gone  == [state |-> "gone"]      \* no object
Empty == [address |-> NoAddress, origin |-> None]
NullString == << >>     \* the view of a String without memory, or moved from

Init ==
  /\ object = [o \in Object |-> Gone] /\ mode = "PREFER_IPV4"
  /\ from = [o \in Object |-> None] /\ last = [call |-> "none", on |-> None, ok |-> TRUE]

\* What getaddrinfo may answer: a literal is itself, a host has addresses of the
\* families asked for, and either may fail.
Answers(name) ==
  LET known == {ip \in Ip : ip.family \in Asked(mode)} IN
  IF name \in DOMAIN Literal
  THEN IF Literal[name].family \in Asked(mode) THEN {<< Literal[name] >>} ELSE {<< >>}
  ELSE {<< >>} \cup {<< ip >> : ip \in known} \cup {<< ip, jp >> : ip, jp \in known}

-------------------------------------------------------------------------------
(* The operations as functions of the object *)

\* Mutant: the port is reset with the address.
FromIpResetsPort(a, ip) == [address |-> [ip |-> ip, port |-> 0], origin |-> None]

\* Mutant: a new address is stored without a port.
FromIpNoPort(a, ip) ==
  [address |-> [ip |-> ip, port |-> IF a.address = NoAddress THEN -1 ELSE a.address.port], origin |-> None]

FromIp(a, ip) ==
  [address |-> [ip |-> ip, port |-> IF a.address = NoAddress THEN 0 ELSE a.address.port],
   origin  |-> None]

SetPort(a, port) == IF a.address = NoAddress THEN a ELSE [a EXCEPT !.address.port = port]

\* Mutant: the origin is dropped before the name is resolved.
FromHostnameDropsFirst(a, name, answer, text) ==
  IF DetectKind(name) \in {"EMPTY", "UNKNOWN"} THEN [ok |-> FALSE, is |-> a]
  ELSE IF Resolve(answer, mode) = NoAddress THEN [ok |-> FALSE, is |-> [a EXCEPT !.origin = None]]
  ELSE [ok |-> TRUE,
        is |-> [FromIp(a, Resolve(answer, mode)) EXCEPT
                  !.origin = IF DetectKind(name) = "HOSTNAME" THEN text ELSE None]]

\* Mutant: a literal leaves the origin as it is.
FromHostnameKeepsOrigin(a, name, answer, text) ==
  IF DetectKind(name) \in {"EMPTY", "UNKNOWN"} \/ Resolve(answer, mode) = NoAddress
  THEN [ok |-> FALSE, is |-> a]
  ELSE [ok |-> TRUE,
        is |-> [FromIp(a, Resolve(answer, mode)) EXCEPT
                  !.origin = IF DetectKind(name) = "HOSTNAME" THEN text ELSE a.origin]]

\* The text of the new origin is what String(hostname) made of the name.
FromHostname(a, name, answer, text) ==
  IF DetectKind(name) \in {"EMPTY", "UNKNOWN"} \/ Resolve(answer, mode) = NoAddress
  THEN [ok |-> FALSE, is |-> a]
  ELSE [ok |-> TRUE,
        is |-> [FromIp(a, Resolve(answer, mode)) EXCEPT
                  !.origin = IF DetectKind(name) = "HOSTNAME" THEN text ELSE None]]

-------------------------------------------------------------------------------
(* The calls *)

Call(call, o, ok) == last' = [call |-> call, on |-> o, ok |-> ok]

\* from_hostname(name) on the object a at o, and then set_port(port).
TakeName(o, a, name, text, ports, call) ==
  \E answer \in Answers(name), port \in ports :
    LET done == FromHostname(a, name, answer, text) IN
    /\ object' = [object EXCEPT ![o] = IF port = None THEN done.is ELSE SetPort(done.is, port)]
    /\ from' = [from EXCEPT ![o] = IF ~done.ok THEN @
                                   ELSE IF DetectKind(name) = "HOSTNAME" THEN name ELSE None]
    /\ Call(call, o, done.ok)
    /\ UNCHANGED mode

\* The names at hand: the program's own, and the origins of other objects.  (Not the
\* object's own origin, which from_hostname frees before it copies the name.)
NamesFor(o) ==
  Name \cup {object[p].origin : p \in {q \in Object \ {o} : object[q] # Gone /\ object[q].origin # None}}

Construct(o) ==
  /\ object[o] = Gone
  /\ \/ object' = [object EXCEPT ![o] = Empty] /\ UNCHANGED <<mode, from>> /\ Call("construct", o, TRUE)
     \/ \E ip \in Ip, port \in Port :
          /\ object' = [object EXCEPT ![o] = SetPort(FromIp(Empty, ip), port)]
          /\ UNCHANGED <<mode, from>> /\ Call("construct", o, TRUE)
     \/ \E name \in NamesFor(o) : \E text \in {name, NullString} :
          TakeName(o, Empty, name, text, Port, "construct")

FromIpCall(o) ==
  /\ object[o] # Gone
  /\ \E ip \in Ip : object' = [object EXCEPT ![o] = FromIp(@, ip)]
  /\ from' = [from EXCEPT ![o] = None] /\ UNCHANGED mode /\ Call("from_ip", o, TRUE)

FromHostnameCall(o) ==
  /\ object[o] # Gone
  /\ \E name \in NamesFor(o) : \E text \in {name, NullString} :
       TakeName(o, object[o], name, text, {None}, "from_hostname")

SetPortCall(o) ==
  /\ object[o] # Gone
  /\ \E port \in Port : object' = [object EXCEPT ![o] = SetPort(@, port)]
  /\ UNCHANGED <<mode, from>> /\ Call("set_port", o, TRUE)

Clear(o) ==
  /\ object[o] # Gone
  /\ object' = [object EXCEPT ![o] = Empty] /\ from' = [from EXCEPT ![o] = None]
  /\ UNCHANGED mode /\ Call("clear", o, TRUE)

\* A copy allocates its origin; a move leaves an empty one behind.
CopyTo(o, p) ==
  /\ object[o] = Gone /\ object[p] # Gone
  /\ \E origin \in IF object[p].origin = None THEN {None} ELSE {object[p].origin, NullString} :
       object' = [object EXCEPT ![o] = [object[p] EXCEPT !.origin = origin]]
  /\ from' = [from EXCEPT ![o] = from[p]] /\ UNCHANGED mode /\ Call("construct", o, TRUE)

MoveTo(o, p) ==
  /\ o # p /\ object[p] # Gone
  /\ object' = [object EXCEPT ![o] = object[p],
                              ![p].origin = IF @ = None THEN None ELSE NullString]
  /\ from' = [from EXCEPT ![o] = from[p]] /\ UNCHANGED mode /\ Call("move", o, TRUE)

Destroy(o) ==
  /\ object[o] # Gone
  /\ object' = [object EXCEPT ![o] = Gone] /\ from' = [from EXCEPT ![o] = None]
  /\ UNCHANGED mode /\ Call("destroy", o, TRUE)

SetMode ==
  /\ mode' \in Modes /\ UNCHANGED <<object, from>> /\ Call("mode", None, TRUE)

Next ==
  \/ \E o \in Object :
       \/ Construct(o) \/ FromIpCall(o) \/ FromHostnameCall(o) \/ SetPortCall(o)
       \/ Clear(o) \/ Destroy(o) \/ \E p \in Object : CopyTo(o, p) \/ MoveTo(o, p)
  \/ SetMode

Spec == Init /\ [][Next]_vars

-------------------------------------------------------------------------------
TypeOK ==
  /\ \A o \in Object : object[o] # Gone =>
       /\ object[o].address # NoAddress => object[o].address \in [ip : Ip, port : Port \cup {0}]
       /\ object[o].origin # None => Len(object[o].origin) <= MaxName + 1
  /\ mode \in Modes /\ last.ok \in BOOLEAN

\* An object's origin is the host name its present IP was resolved from, whatever
\* calls, copies and moves have come since, or empty where its text was lost; an IP
\* that came from a host name has an origin, and one that did not has none.
OriginNamesIp ==
  \A o \in Object : object[o] # Gone =>
    /\ object[o].origin \in {from[o], IF from[o] = None THEN None ELSE NullString}
    /\ object[o].origin # None => object[o].address # NoAddress

\* A from_hostname that fails leaves its object as it was, origin and port included,
\* whether the text was refused or could not be resolved; a constructor then leaves
\* an empty object (include/sfap/net/address.hpp:99 and :58).
FailureChangesNothing ==
  [][~last'.ok => \A o \in Object :
       object'[o] = IF last'.call = "construct" /\ o = last'.on THEN Empty ELSE object[o]]_vars

\* An object that keeps an address keeps its port, unless set_port is called: an IP
\* that is resolved or replaced again is not suddenly connectable, nor no longer.
PortKept ==
  [][\A o \in Object :
       /\ object[o] # Gone /\ object'[o] # Gone
       /\ object[o].address # NoAddress /\ object'[o].address # NoAddress
       /\ object'[o].address.port # object[o].address.port
       => last'.on = o /\ last'.call \in {"set_port", "move"}]_vars

\* Where the statements about pure functions are evaluated: once.
Once == last.call = "none"

Texts == UNION {[1..n -> Char] : n \in 0..MaxText}
Lists == UNION {[1..n -> Known] : n \in 0..MaxAnswer}

\* is_fqdn accepts exactly the host names: labels of 1 to 63 letters, digits and
\* inner hyphens, the last one alphabetic or punycode unless a dot follows it, and
\* 253 characters without that dot.  So the classification that decides whether a
\* name is resolved, and whether it becomes an origin, has no gap at a limit.
KindFollowsRule == Once => \A s \in Texts : IsFqdn(s) <=> HostName(s)

\* resolve takes the first address of the preferred family wherever it stands in the
\* system's answer, and otherwise the first of the other family, if that may serve.
PicksPreferred ==
  Once => \A m \in Modes, list \in Lists : Resolve(list, m) \in Taken(list, m)

================================================================================
