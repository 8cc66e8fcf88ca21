---------------------------- MODULE AddressesProofs ----------------------------
(******************************************************************************)
(* Theorems about Addresses: an object's origin names the host its IP came    *)
(* from, a call that fails changes nothing, and a port is kept until somebody *)
(* sets it, for any texts, addresses, ports and number of objects.  What      *)
(* DetectKind says of a text and which address Resolve takes play no part in  *)
(* these; that an object holds what its type allows rests on both, and what   *)
(* both compute is AddressKindProofs.                                         *)
(******************************************************************************)
EXTENDS Addresses, AddressKindProofs

\* An address is missing, or an IP with a port.
IsAddress(v) == v = NoAddress \/ v = [ip |-> v.ip, port |-> v.port]

\* An object is an optional address with an optional origin.
IsObject(a) == a = [address |-> a.address, origin |-> a.origin] /\ IsAddress(a.address)

\* What an object holds agrees with the host name its IP came from.
Sound(a, name) ==
  \/ a = Gone /\ name = None
  \/ /\ IsObject(a)
     /\ a.origin \in {name, IF name = None THEN None ELSE NullString}
     /\ a.origin # None => a.address # NoAddress

\* The inductive invariant.  A constructor that cannot resolve its name leaves an
\* empty object and the history as it was: so the history of an object that does not
\* exist must be empty too.
IInv ==
  /\ object = [o \in Object |-> object[o]] /\ from = [o \in Object |-> from[o]]
  /\ \A o \in Object : Sound(object[o], from[o])

-------------------------------------------------------------------------------
(* Values *)

\* An IP with a port is not a missing address, and an object is not a missing object.
LEMMA Distinct ==
  /\ \A ip, port : [ip |-> ip, port |-> port] # NoAddress
  /\ \A address, origin : [address |-> address, origin |-> origin] # Gone
<1>1. ASSUME NEW ip, NEW port PROVE [ip |-> ip, port |-> port] # NoAddress
  <2>1. DOMAIN [ip |-> ip, port |-> port] = {"ip", "port"} /\ DOMAIN NoAddress = {"family"}
    BY DEF NoAddress
  <2> QED
    BY <2>1
<1>2. ASSUME NEW address, NEW origin PROVE [address |-> address, origin |-> origin] # Gone
  <2>1. DOMAIN [address |-> address, origin |-> origin] = {"address", "origin"} /\ DOMAIN Gone = {"state"}
    BY DEF Gone
  <2> QED
    BY <2>1
<1> QED
  BY <1>1, <1>2

\* A new object is empty.
LEMMA EmptyMade ==
  IsObject(Empty) /\ Empty.address = NoAddress /\ Empty.origin = None
BY DEF Empty, IsObject, IsAddress

\* from_ip makes an object with an address, the port there was and no origin.
LEMMA FromIpMade ==
  ASSUME NEW a, IsObject(a), NEW ip
  PROVE  /\ IsObject(FromIp(a, ip)) /\ FromIp(a, ip).origin = None
         /\ FromIp(a, ip).address # NoAddress
         /\ a.address # NoAddress => FromIp(a, ip).address.port = a.address.port
BY Distinct DEF FromIp, IsObject, IsAddress

\* Writing the origin leaves the address.
LEMMA OriginMade ==
  ASSUME NEW a, IsObject(a), NEW origin
  PROVE  /\ IsObject([a EXCEPT !.origin = origin])
         /\ [a EXCEPT !.origin = origin].origin = origin
         /\ [a EXCEPT !.origin = origin].address = a.address
<1>1. a = [address |-> a.address, origin |-> a.origin] /\ IsAddress(a.address)
  BY DEF IsObject
<1>2. [a EXCEPT !.origin = origin] = [address |-> a.address, origin |-> origin]
  BY <1>1
<1> QED
  BY <1>1, <1>2 DEF IsObject

\* set_port leaves the origin, and makes no address where there was none.
LEMMA SetPortMade ==
  ASSUME NEW a, IsObject(a), NEW port
  PROVE  /\ IsObject(SetPort(a, port)) /\ SetPort(a, port).origin = a.origin
         /\ SetPort(a, port).address = NoAddress <=> a.address = NoAddress
<1>1. a = [address |-> a.address, origin |-> a.origin] /\ IsAddress(a.address)
  BY DEF IsObject
<1>2. CASE a.address = NoAddress
  BY <1>2 DEF SetPort
<1>3. CASE a.address # NoAddress
  <2>1. a.address = [ip |-> a.address.ip, port |-> a.address.port]
    BY <1>1, <1>3 DEF IsAddress
  <2>2. [a.address EXCEPT !.port = port] = [ip |-> a.address.ip, port |-> port]
    BY <2>1
  <2>3. [a EXCEPT !.address.port = port]
          = [address |-> [a.address EXCEPT !.port = port], origin |-> a.origin]
    BY <1>1
  <2>4. SetPort(a, port) = [address |-> [ip |-> a.address.ip, port |-> port], origin |-> a.origin]
    BY <1>3, <2>2, <2>3 DEF SetPort
  <2> QED
    BY <1>3, <2>4, Distinct DEF IsObject, IsAddress
<1> QED
  BY <1>2, <1>3

\* from_hostname keeps its object when it fails, and otherwise stores an address with
\* the port there was, and the name of a host as its origin.
LEMMA Named ==
  ASSUME NEW a, IsObject(a), NEW name, NEW answer, NEW text
  PROVE  LET done == FromHostname(a, name, answer, text) IN
         /\ done.ok \in BOOLEAN /\ IsObject(done.is)
         /\ ~done.ok => done.is = a
         /\ done.ok => /\ done.is.address # NoAddress
                       /\ done.is.origin = IF DetectKind(name) = "HOSTNAME" THEN text ELSE None
         /\ a.address # NoAddress =>
              done.is.address # NoAddress /\ done.is.address.port = a.address.port
<1> DEFINE done == FromHostname(a, name, answer, text)
           origin == IF DetectKind(name) = "HOSTNAME" THEN text ELSE None
           new == FromIp(a, Resolve(answer, mode))
<1>1. CASE DetectKind(name) \in {"EMPTY", "UNKNOWN"} \/ Resolve(answer, mode) = NoAddress
  <2>1. done = [ok |-> FALSE, is |-> a]
    BY <1>1 DEF FromHostname
  <2> QED
    BY <2>1
<1>2. CASE ~(DetectKind(name) \in {"EMPTY", "UNKNOWN"} \/ Resolve(answer, mode) = NoAddress)
  <2>1. done = [ok |-> TRUE, is |-> [new EXCEPT !.origin = origin]]
    BY <1>2 DEF FromHostname
  <2>2. /\ IsObject(new) /\ new.address # NoAddress
        /\ a.address # NoAddress => new.address.port = a.address.port
    BY FromIpMade
  <2>3. /\ IsObject([new EXCEPT !.origin = origin])
        /\ [new EXCEPT !.origin = origin].origin = origin
        /\ [new EXCEPT !.origin = origin].address = new.address
    BY <2>2, OriginMade
  <2>4. done.ok = TRUE /\ done.is = [new EXCEPT !.origin = origin]
    BY <2>1
  <2> QED
    BY <2>2, <2>3, <2>4
<1> QED
  BY <1>1, <1>2

-------------------------------------------------------------------------------
(* The calls *)

\* A call that writes one object leaves the others sound.
LEMMA OneWritten ==
  ASSUME IInv, NEW o \in Object, NEW a, NEW name, Sound(a, name),
         object' = [object EXCEPT ![o] = a], from' = [from EXCEPT ![o] = name]
  PROVE  IInv'
<1>1. /\ object' = [q \in Object |-> IF q = o THEN a ELSE object[q]]
      /\ from' = [q \in Object |-> IF q = o THEN name ELSE from[q]]
  BY DEF IInv
<1>2. \A q \in Object : Sound(object'[q], from'[q])
  BY <1>1 DEF IInv
<1>3. object' = [q \in Object |-> object'[q]] /\ from' = [q \in Object |-> from'[q]]
  BY <1>1
<1> QED
  BY <1>2, <1>3 DEF IInv, Sound

\* A call that writes one object, whatever its history.
LEMMA OneKeepsName ==
  ASSUME IInv, NEW o \in Object, NEW a, Sound(a, from[o]),
         object' = [object EXCEPT ![o] = a], from' = from
  PROVE  IInv'
<1>1. from' = [from EXCEPT ![o] = from[o]]
  BY DEF IInv
<1> QED
  BY <1>1, OneWritten

\* What an existing object is.
LEMMA Existing ==
  ASSUME IInv, NEW o \in Object, object[o] # Gone
  PROVE  /\ IsObject(object[o])
         /\ object[o].origin \in {from[o], IF from[o] = None THEN None ELSE NullString}
         /\ object[o].origin # None => object[o].address # NoAddress
BY DEF IInv, Sound

\* The names at hand are none of them "no name".
LEMMA NamesAreNames ==
  ASSUME NEW o \in Object, NEW name \in NamesFor(o)
  PROVE  name # None
BY AddressesAssumption DEF NamesFor

\* Resolving a name into a sound object, and then setting a port, makes one.
LEMMA TakeNameSound ==
  ASSUME IInv, NEW o \in Object, NEW a, Sound(a, from[o]), IsObject(a),
         NEW name \in NamesFor(o), NEW text \in {name, NullString}, NEW ports, NEW call,
         TakeName(o, a, name, text, ports, call)
  PROVE  IInv'
<1>1. PICK answer \in Answers(name), port \in ports :
        LET done == FromHostname(a, name, answer, text) IN
        /\ object' = [object EXCEPT ![o] = IF port = None THEN done.is ELSE SetPort(done.is, port)]
        /\ from' = [from EXCEPT ![o] = IF ~done.ok THEN @
                                       ELSE IF DetectKind(name) = "HOSTNAME" THEN name ELSE None]
  BY DEF TakeName
<1> DEFINE done == FromHostname(a, name, answer, text)
           new  == IF port = None THEN done.is ELSE SetPort(done.is, port)
           host == IF ~done.ok THEN from[o]
                   ELSE IF DetectKind(name) = "HOSTNAME" THEN name ELSE None
<1>2. /\ IsObject(done.is)
      /\ ~done.ok => done.is = a
      /\ done.ok => /\ done.is.address # NoAddress
                    /\ done.is.origin = IF DetectKind(name) = "HOSTNAME" THEN text ELSE None
  BY Named
<1>3. /\ IsObject(new) /\ new.origin = done.is.origin
      /\ new.address = NoAddress <=> done.is.address = NoAddress
  BY <1>2, SetPortMade
<1>4. name # None
  BY NamesAreNames
<1>5. a # Gone
  BY Distinct DEF IsObject
<1>6. Sound(new, host)
  <2>1. CASE ~done.ok
    BY <1>2, <1>3, <1>5, <2>1 DEF Sound
  <2>2. CASE done.ok
    BY <1>2, <1>3, <1>4, <2>2 DEF Sound
  <2> QED
    BY <2>1, <2>2
<1>7. object' = [object EXCEPT ![o] = new] /\ from' = [from EXCEPT ![o] = host]
  BY <1>1 DEF IInv
<1> HIDE DEF new, host
<1> QED
  BY <1>6, <1>7, OneWritten

LEMMA ConstructSound ==
  ASSUME IInv, NEW o \in Object, Construct(o)
  PROVE  IInv'
<1>1. object[o] = Gone /\ from[o] = None
  BY Distinct DEF Construct, IInv, Sound, IsObject
<1>2. Sound(Empty, None)
  BY EmptyMade DEF Sound
<1>3. CASE object' = [object EXCEPT ![o] = Empty] /\ UNCHANGED <<mode, from>>
  BY <1>1, <1>2, <1>3, OneKeepsName
<1>4. CASE \E ip \in Ip, port \in Port :
             /\ object' = [object EXCEPT ![o] = SetPort(FromIp(Empty, ip), port)]
             /\ UNCHANGED <<mode, from>>
  <2>1. PICK ip \in Ip, port \in Port :
          object' = [object EXCEPT ![o] = SetPort(FromIp(Empty, ip), port)]
    BY <1>4
  <2>2. IsObject(FromIp(Empty, ip)) /\ FromIp(Empty, ip).origin = None
    BY EmptyMade, FromIpMade
  <2>3. IsObject(SetPort(FromIp(Empty, ip), port)) /\ SetPort(FromIp(Empty, ip), port).origin = None
    BY <2>2, SetPortMade
  <2>4. Sound(SetPort(FromIp(Empty, ip), port), from[o])
    BY <1>1, <2>3 DEF Sound
  <2> QED
    BY <1>4, <2>1, <2>4, OneKeepsName
<1>5. CASE \E name \in NamesFor(o) : \E text \in {name, NullString} :
             TakeName(o, Empty, name, text, Port, "construct")
  <2>1. IsObject(Empty)
    BY EmptyMade
  <2> QED
    BY <1>1, <1>2, <1>5, <2>1, TakeNameSound
<1> QED
  BY <1>3, <1>4, <1>5 DEF Construct

LEMMA FromIpSound ==
  ASSUME IInv, NEW o \in Object, FromIpCall(o)
  PROVE  IInv'
<1>1. PICK ip \in Ip : object' = [object EXCEPT ![o] = FromIp(object[o], ip)]
  BY DEF FromIpCall, IInv
<1>2. IsObject(FromIp(object[o], ip)) /\ FromIp(object[o], ip).origin = None
  BY Existing, FromIpMade DEF FromIpCall
<1>3. Sound(FromIp(object[o], ip), None)
  BY <1>2 DEF Sound
<1>4. from' = [from EXCEPT ![o] = None]
  BY DEF FromIpCall
<1> QED
  BY <1>1, <1>3, <1>4, OneWritten

LEMMA FromHostnameSound ==
  ASSUME IInv, NEW o \in Object, FromHostnameCall(o)
  PROVE  IInv'
<1>1. IsObject(object[o]) /\ Sound(object[o], from[o])
  BY Existing DEF FromHostnameCall, IInv
<1> QED
  BY <1>1, TakeNameSound DEF FromHostnameCall

LEMMA SetPortSound ==
  ASSUME IInv, NEW o \in Object, SetPortCall(o)
  PROVE  IInv'
<1>1. PICK port \in Port : object' = [object EXCEPT ![o] = SetPort(object[o], port)]
  BY DEF SetPortCall, IInv
<1>2. /\ IsObject(object[o])
      /\ object[o].origin \in {from[o], IF from[o] = None THEN None ELSE NullString}
      /\ object[o].origin # None => object[o].address # NoAddress
  BY Existing DEF SetPortCall
<1>3. /\ IsObject(SetPort(object[o], port)) /\ SetPort(object[o], port).origin = object[o].origin
      /\ SetPort(object[o], port).address = NoAddress <=> object[o].address = NoAddress
  BY <1>2, SetPortMade
<1>4. Sound(SetPort(object[o], port), from[o])
  BY <1>2, <1>3 DEF Sound
<1> QED
  BY <1>1, <1>4, OneKeepsName DEF SetPortCall

LEMMA ClearSound ==
  ASSUME IInv, NEW o \in Object, Clear(o)
  PROVE  IInv'
<1>1. Sound(Empty, None)
  BY EmptyMade DEF Sound
<1> QED
  BY <1>1, OneWritten DEF Clear

LEMMA DestroySound ==
  ASSUME IInv, NEW o \in Object, Destroy(o)
  PROVE  IInv'
<1>1. Sound(Gone, None)
  BY DEF Sound
<1> QED
  BY <1>1, OneWritten DEF Destroy

LEMMA CopyToSound ==
  ASSUME IInv, NEW o \in Object, NEW p \in Object, CopyTo(o, p)
  PROVE  IInv'
<1>1. PICK origin \in IF object[p].origin = None THEN {None} ELSE {object[p].origin, NullString} :
        object' = [object EXCEPT ![o] = [object[p] EXCEPT !.origin = origin]]
  BY DEF CopyTo
<1>2. /\ IsObject(object[p])
      /\ object[p].origin \in {from[p], IF from[p] = None THEN None ELSE NullString}
      /\ object[p].origin # None => object[p].address # NoAddress
  BY Existing DEF CopyTo
<1> DEFINE copy == [object[p] EXCEPT !.origin = origin]
<1>3. IsObject(copy) /\ copy.origin = origin /\ copy.address = object[p].address
  BY <1>2, OriginMade
<1>4. origin \in {from[p], IF from[p] = None THEN None ELSE NullString}
  BY <1>2
<1>5. origin # None => object[p].origin # None
  OBVIOUS
<1>6. Sound(copy, from[p])
  BY <1>2, <1>3, <1>4, <1>5 DEF Sound
<1>7. from' = [from EXCEPT ![o] = from[p]]
  BY DEF CopyTo
<1> HIDE DEF copy
<1> QED
  BY <1>1, <1>6, <1>7, OneWritten DEF copy

LEMMA MoveToSound ==
  ASSUME IInv, NEW o \in Object, NEW p \in Object, MoveTo(o, p)
  PROVE  IInv'
<1> DEFINE left == [object[p] EXCEPT !.origin = IF object[p].origin = None THEN None ELSE NullString]
<1>1. /\ IsObject(object[p])
      /\ object[p].origin \in {from[p], IF from[p] = None THEN None ELSE NullString}
      /\ object[p].origin # None => object[p].address # NoAddress
  BY Existing DEF MoveTo
<1>2. /\ IsObject(left) /\ left.address = object[p].address
      /\ left.origin = IF object[p].origin = None THEN None ELSE NullString
  BY <1>1, OriginMade
<1>3. Sound(left, from[p]) /\ Sound(object[p], from[p])
  BY <1>1, <1>2 DEF Sound
<1>4. object' = [q \in Object |-> IF q = p THEN left ELSE IF q = o THEN object[p] ELSE object[q]]
  <2>1. object' = [[object EXCEPT ![o] = object[p]] EXCEPT ![p] = left]
    BY DEF MoveTo, IInv
  <2> QED
    BY <2>1 DEF IInv
<1>5. from' = [q \in Object |-> IF q = o THEN from[p] ELSE from[q]]
  BY DEF MoveTo, IInv
<1>6. o # p
  BY DEF MoveTo
<1> HIDE DEF left
<1>7. \A q \in Object : Sound(object'[q], from'[q])
  BY <1>3, <1>4, <1>5, <1>6 DEF IInv
<1>8. object' = [q \in Object |-> object'[q]] /\ from' = [q \in Object |-> from'[q]]
  BY <1>4, <1>5
<1> QED
  BY <1>7, <1>8 DEF IInv, Sound

LEMMA InitIInv == Init => IInv
BY DEF Init, IInv, Sound

LEMMA NextIInv == IInv /\ [Next]_vars => IInv'
<1> SUFFICES ASSUME IInv, [Next]_vars PROVE IInv'
  OBVIOUS
<1>1. CASE UNCHANGED vars \/ SetMode
  BY <1>1 DEF IInv, Sound, vars, SetMode
<1>2. CASE \E o \in Object :
             \/ Construct(o) \/ FromIpCall(o) \/ FromHostnameCall(o) \/ SetPortCall(o)
             \/ Clear(o) \/ Destroy(o) \/ \E p \in Object : CopyTo(o, p) \/ MoveTo(o, p)
  BY <1>2, ConstructSound, FromIpSound, FromHostnameSound, SetPortSound, ClearSound,
     DestroySound, CopyToSound, MoveToSound
<1> QED
  BY <1>1, <1>2 DEF Next

-------------------------------------------------------------------------------
(* What one call may do *)

\* A step after which no address has got another port, but by set_port or a move.
PortsKept ==
  \A o \in Object :
    /\ object[o] # Gone /\ object'[o] # Gone
    /\ object[o].address # NoAddress /\ object'[o].address # NoAddress
    /\ object'[o].address.port # object[o].address.port
    => last'.on = o /\ last'.call \in {"set_port", "move"}

\* A step after which nothing has changed, if its call failed.
FailureHarmless ==
  ~last'.ok => \A o \in Object :
    object'[o] = IF last'.call = "construct" /\ o = last'.on THEN Empty ELSE object[o]

\* What a call says of itself.
LEMMA Said ==
  ASSUME NEW call, NEW o, NEW ok, Call(call, o, ok)
  PROVE  last'.call = call /\ last'.on = o /\ last'.ok = ok
BY DEF Call

\* A call that succeeds is not one that fails.
LEMMA SuccessHarmless ==
  ASSUME NEW call, NEW o, Call(call, o, TRUE)
  PROVE  FailureHarmless
BY Said DEF FailureHarmless

\* A call that writes one object, and leaves it without one of the two addresses or
\* with the port it had, keeps the ports.
LEMMA OneKeepsPorts ==
  ASSUME IInv, NEW o \in Object, NEW a, object' = [object EXCEPT ![o] = a],
         \/ object[o] = Gone \/ a = Gone
         \/ object[o].address = NoAddress \/ a.address = NoAddress
         \/ a.address.port = object[o].address.port
  PROVE  PortsKept
<1>1. object' = [q \in Object |-> IF q = o THEN a ELSE object[q]]
  BY DEF IInv
<1> QED
  BY <1>1 DEF PortsKept

\* A failed from_hostname, and a failed constructor.
LEMMA TakeNameHarmless ==
  ASSUME IInv, NEW o \in Object, NEW a, IsObject(a), NEW name, NEW text,
         NEW ports, NEW call, TakeName(o, a, name, text, ports, call),
         \/ call = "construct" /\ a = Empty
         \/ call = "from_hostname" /\ a = object[o] /\ ports = {None}
  PROVE  FailureHarmless
<1>1. PICK answer \in Answers(name), port \in ports :
        LET done == FromHostname(a, name, answer, text) IN
        /\ object' = [object EXCEPT ![o] = IF port = None THEN done.is ELSE SetPort(done.is, port)]
        /\ Call(call, o, done.ok)
  BY DEF TakeName
<1> DEFINE done == FromHostname(a, name, answer, text)
           new  == IF port = None THEN done.is ELSE SetPort(done.is, port)
<1>2. last'.call = call /\ last'.on = o /\ last'.ok = done.ok
  BY <1>1, Said
<1>3. ~done.ok => done.is = a
  BY Named
<1>4. object' = [q \in Object |-> IF q = o THEN new ELSE object[q]]
  BY <1>1 DEF IInv
<1>5. SetPort(Empty, port) = Empty
  BY EmptyMade DEF SetPort
<1> HIDE DEF done
<1>6. CASE call = "construct" /\ a = Empty
  BY <1>2, <1>3, <1>4, <1>5, <1>6 DEF FailureHarmless
<1>7. CASE call = "from_hostname" /\ a = object[o] /\ ports = {None}
  BY <1>2, <1>3, <1>4, <1>7 DEF FailureHarmless
<1> QED
  BY <1>6, <1>7

\* A call that resolves a name for an object keeps its port.
LEMMA FromHostnameKeepsPort ==
  ASSUME IInv, NEW o \in Object, FromHostnameCall(o)
  PROVE  PortsKept
<1>1. PICK name \in NamesFor(o) : \E text \in {name, NullString} :
        TakeName(o, object[o], name, text, {None}, "from_hostname")
  BY DEF FromHostnameCall
<1>2. PICK text : TakeName(o, object[o], name, text, {None}, "from_hostname")
  BY <1>1
<1>3. PICK answer : object' = [object EXCEPT ![o] = FromHostname(object[o], name, answer, text).is]
  BY <1>2 DEF TakeName
<1>4. IsObject(object[o])
  BY Existing DEF FromHostnameCall
<1>5. object[o].address # NoAddress =>
        FromHostname(object[o], name, answer, text).is.address.port = object[o].address.port
  BY <1>4, Named
<1> QED
  BY <1>3, <1>5, OneKeepsPorts

LEMMA ConstructHarmless ==
  ASSUME IInv, NEW o \in Object, Construct(o)
  PROVE  FailureHarmless /\ PortsKept
<1>1. object[o] = Gone
  BY DEF Construct
<1>2. \E a : object' = [object EXCEPT ![o] = a]
  BY DEF Construct, TakeName
<1>3. PortsKept
  BY <1>1, <1>2, OneKeepsPorts
<1>4. CASE Call("construct", o, TRUE)
  BY <1>3, <1>4, SuccessHarmless
<1>5. CASE \E name \in NamesFor(o) : \E text \in {name, NullString} :
             TakeName(o, Empty, name, text, Port, "construct")
  BY <1>3, <1>5, EmptyMade, TakeNameHarmless
<1> QED
  BY <1>3, <1>4, <1>5 DEF Construct

LEMMA FromHostnameHarmless ==
  ASSUME IInv, NEW o \in Object, FromHostnameCall(o)
  PROVE  FailureHarmless
<1>1. IsObject(object[o])
  BY Existing DEF FromHostnameCall
<1> QED
  BY <1>1, TakeNameHarmless DEF FromHostnameCall

\* The calls that cannot fail.
LEMMA OthersHarmless ==
  ASSUME IInv, NEW o \in Object,
         FromIpCall(o) \/ SetPortCall(o) \/ Clear(o) \/ Destroy(o) \/ \E p \in Object : CopyTo(o, p) \/ MoveTo(o, p)
  PROVE  FailureHarmless
BY SuccessHarmless DEF FromIpCall, SetPortCall, Clear, Destroy, CopyTo, MoveTo

LEMMA OthersKeepPorts ==
  ASSUME IInv, NEW o \in Object,
         FromIpCall(o) \/ SetPortCall(o) \/ Clear(o) \/ Destroy(o) \/ \E p \in Object : CopyTo(o, p) \/ MoveTo(o, p)
  PROVE  PortsKept
<1>1. CASE FromIpCall(o)
  <2>1. PICK ip \in Ip : object' = [object EXCEPT ![o] = FromIp(object[o], ip)]
    BY <1>1 DEF FromIpCall, IInv
  <2>2. IsObject(object[o])
    BY <1>1, Existing DEF FromIpCall
  <2> QED
    BY <2>1, <2>2, FromIpMade, OneKeepsPorts
<1>2. CASE SetPortCall(o)
  <2>1. PICK port \in Port : object' = [object EXCEPT ![o] = SetPort(object[o], port)]
    BY <1>2 DEF SetPortCall, IInv
  <2>2. \A q \in Object \ {o} : object'[q] = object[q]
    BY <2>1 DEF IInv
  <2>3. last'.call = "set_port" /\ last'.on = o
    BY <1>2, Said DEF SetPortCall
  <2> QED
    BY <2>2, <2>3 DEF PortsKept
<1>3. CASE Clear(o)
  BY <1>3, EmptyMade, OneKeepsPorts DEF Clear
<1>4. CASE Destroy(o)
  BY <1>4, OneKeepsPorts DEF Destroy
<1>5. ASSUME NEW p \in Object, CopyTo(o, p) PROVE PortsKept
  <2>1. object[o] = Gone /\ \E a : object' = [object EXCEPT ![o] = a]
    BY <1>5 DEF CopyTo
  <2> QED
    BY <2>1, OneKeepsPorts
<1>6. ASSUME NEW p \in Object, MoveTo(o, p) PROVE PortsKept
  <2> DEFINE left == [object[p] EXCEPT !.origin = IF object[p].origin = None THEN None ELSE NullString]
  <2>1. left.address = object[p].address
    BY <1>6, Existing, OriginMade DEF MoveTo
  <2>2. object' = [[object EXCEPT ![o] = object[p]] EXCEPT ![p] = left]
    BY <1>6 DEF MoveTo, IInv
  <2>3. object' = [q \in Object |-> IF q = p THEN left ELSE IF q = o THEN object[p] ELSE object[q]]
    BY <2>2 DEF IInv
  <2>4. last'.call = "move" /\ last'.on = o
    BY <1>6, Said DEF MoveTo
  <2> HIDE DEF left
  <2> QED
    BY <2>1, <2>3, <2>4 DEF PortsKept
<1> QED
  BY <1>1, <1>2, <1>3, <1>4, <1>5, <1>6

\* Every step is one or the other.
LEMMA NextHarmless == IInv /\ Next => FailureHarmless /\ PortsKept
<1> SUFFICES ASSUME IInv, Next PROVE FailureHarmless /\ PortsKept
  OBVIOUS
<1>1. CASE SetMode
  <2>1. FailureHarmless
    BY <1>1, SuccessHarmless DEF SetMode
  <2>2. PortsKept
    BY <1>1 DEF SetMode, PortsKept
  <2> QED
    BY <2>1, <2>2
<1>2. ASSUME NEW o \in Object,
             \/ Construct(o) \/ FromIpCall(o) \/ FromHostnameCall(o) \/ SetPortCall(o)
             \/ Clear(o) \/ Destroy(o) \/ \E p \in Object : CopyTo(o, p) \/ MoveTo(o, p)
      PROVE  FailureHarmless /\ PortsKept
  <2>1. CASE Construct(o)
    BY <2>1, ConstructHarmless
  <2>2. CASE FromHostnameCall(o)
    BY <2>2, FromHostnameHarmless, FromHostnameKeepsPort
  <2>3. CASE \/ FromIpCall(o) \/ SetPortCall(o) \/ Clear(o) \/ Destroy(o)
             \/ \E p \in Object : CopyTo(o, p) \/ MoveTo(o, p)
    BY <2>3, OthersHarmless, OthersKeepPorts
  <2> QED
    BY <1>2, <2>1, <2>2, <2>3
<1> QED
  BY <1>1, <1>2 DEF Next

-------------------------------------------------------------------------------
(* What an object may hold *)

HeldAddress == [ip : Ip, port : Port \cup {0}]

\* An IP the system knows, with a port, and an origin that a host name fits.
Fits(a) ==
  a # Gone => /\ a.address # NoAddress => a.address \in HeldAddress
              /\ a.origin # None => Len(a.origin) <= MaxName + 1

\* Of texts and families.
LEMMA Assumed ==
  /\ Families(Ip) /\ MaxName \in Nat /\ Len(NullString) <= MaxName + 1
  /\ \A name \in Name : Len(name) \in Nat
BY AddressesAssumption, AddressKindAssumption DEF Families, NullString

\* from_ip stores the IP with a port that is allowed.
LEMMA FromIpFits ==
  ASSUME NEW a, IsObject(a), Fits(a), NEW ip \in Ip
  PROVE  Fits(FromIp(a, ip)) /\ FromIp(a, ip).address \in HeldAddress
<1>1. a # Gone
  BY Distinct DEF IsObject
<1> DEFINE port == IF a.address = NoAddress THEN 0 ELSE a.address.port
<1>2. port \in Port \cup {0}
  BY <1>1 DEF Fits, HeldAddress
<1>3. FromIp(a, ip) = [address |-> [ip |-> ip, port |-> port], origin |-> None]
  BY DEF FromIp
<1> HIDE DEF port
<1>4. [ip |-> ip, port |-> port] \in HeldAddress
  BY <1>2 DEF HeldAddress
<1>5. FromIp(a, ip).address = [ip |-> ip, port |-> port] /\ FromIp(a, ip).origin = None
  BY <1>3
<1> QED
  BY <1>4, <1>5 DEF Fits

\* set_port stores a port that is allowed.
LEMMA SetPortFits ==
  ASSUME NEW a, IsObject(a), Fits(a), NEW port \in Port
  PROVE  Fits(SetPort(a, port))
<1>1. CASE a.address = NoAddress
  BY <1>1 DEF SetPort
<1>2. CASE a.address # NoAddress
  <2>1. a # Gone /\ a = [address |-> a.address, origin |-> a.origin]
    BY Distinct DEF IsObject
  <2>2. a.address \in HeldAddress /\ (a.origin # None => Len(a.origin) <= MaxName + 1)
    BY <1>2, <2>1 DEF Fits
  <2> DEFINE with == [a.address EXCEPT !.port = port]
  <2>3. with \in HeldAddress
    BY <2>2 DEF HeldAddress
  <2>4. SetPort(a, port) = [address |-> with, origin |-> a.origin]
    <3>1. SetPort(a, port) = [a EXCEPT !.address.port = port]
      BY <1>2 DEF SetPort
    <3> QED
      BY <2>1, <3>1
  <2> HIDE DEF with
  <2>5. SetPort(a, port).address = with /\ SetPort(a, port).origin = a.origin
    BY <2>4
  <2> QED
    BY <2>2, <2>3, <2>5 DEF Fits
<1> QED
  BY <1>1, <1>2

\* Another origin that fits may be written.
LEMMA OriginFits ==
  ASSUME NEW a, IsObject(a), Fits(a), NEW origin, origin # None => Len(origin) <= MaxName + 1
  PROVE  Fits([a EXCEPT !.origin = origin])
<1>1. a # Gone
  BY Distinct DEF IsObject
<1>2. /\ [a EXCEPT !.origin = origin].origin = origin
      /\ [a EXCEPT !.origin = origin].address = a.address
  BY OriginMade
<1> QED
  BY <1>1, <1>2 DEF Fits

\* What the system answers are addresses it knows, and resolve takes one of them.
LEMMA AnswersKnown ==
  ASSUME NEW name, NEW answer \in Answers(name), mode \in Modes
  PROVE  Resolve(answer, mode) \in Ip \cup {NoAddress}
<1>1. \A text \in DOMAIN Literal : Literal[text] \in Ip
  BY AddressesAssumption
<1>2. answer \in Seq(Ip)
  <2>1. /\ << >> \in Seq(Ip)
        /\ \A ip \in Ip : << ip >> \in Seq(Ip)
        /\ \A ip, jp \in Ip : << ip, jp >> \in Seq(Ip)
    OBVIOUS
  <2>2. CASE name \in DOMAIN Literal
    <3>1. answer \in {<< Literal[name] >>, << >>}
      BY <2>2 DEF Answers
    <3> QED
      BY <1>1, <2>1, <2>2, <3>1
  <2>3. CASE name \notin DOMAIN Literal
    <3>1. \/ answer = << >> \/ \E ip \in Ip : answer = << ip >>
          \/ \E ip, jp \in Ip : answer = << ip, jp >>
      <4> DEFINE known == {ip \in Ip : ip.family \in Asked(mode)}
      <4>1. Answers(name) = {<< >>} \cup {<< ip >> : ip \in known} \cup {<< ip, jp >> : ip, jp \in known}
        BY <2>3 DEF Answers
      <4>2. known \subseteq Ip
        OBVIOUS
      <4> HIDE DEF known
      <4>3. \/ answer = << >> \/ \E ip \in known : answer = << ip >>
            \/ \E ip, jp \in known : answer = << ip, jp >>
        BY <4>1
      <4> QED
        BY <4>2, <4>3
    <3> QED
      BY <2>1, <3>1
  <2> QED
    BY <2>2, <2>3
<1> QED
  BY <1>2, Assumed, ResolveTakes

\* A name that is_fqdn was asked about is not too long for an origin.
LEMMA HostFits ==
  ASSUME NEW name, Len(name) \in Nat \/ Len(name) <= MaxName + 1, DetectKind(name) = "HOSTNAME"
  PROVE  Len(name) <= MaxName + 1
<1>1. ~(Len(name) > MaxName + 1)
  BY DEF DetectKind
<1> QED
  BY <1>1, Assumed

\* from_hostname leaves an object that fits.
LEMMA NamedFits ==
  ASSUME NEW a, IsObject(a), Fits(a), mode \in Modes, NEW name, Len(name) \in Nat \/ Len(name) <= MaxName + 1,
         NEW text \in {name, NullString}, NEW answer \in Answers(name)
  PROVE  /\ Fits(FromHostname(a, name, answer, text).is)
         /\ FromHostname(a, name, answer, text).ok \in BOOLEAN
<1> DEFINE done == FromHostname(a, name, answer, text)
           origin == IF DetectKind(name) = "HOSTNAME" THEN text ELSE None
           new == FromIp(a, Resolve(answer, mode))
<1>1. CASE DetectKind(name) \in {"EMPTY", "UNKNOWN"} \/ Resolve(answer, mode) = NoAddress
  <2>1. done = [ok |-> FALSE, is |-> a]
    BY <1>1 DEF FromHostname
  <2> QED
    BY <2>1
<1>2. CASE ~(DetectKind(name) \in {"EMPTY", "UNKNOWN"} \/ Resolve(answer, mode) = NoAddress)
  <2>1. done = [ok |-> TRUE, is |-> [new EXCEPT !.origin = origin]]
    BY <1>2 DEF FromHostname
  <2>2. Resolve(answer, mode) \in Ip
    BY <1>2, AnswersKnown
  <2>3. IsObject(new) /\ Fits(new)
    BY <2>2, FromIpMade, FromIpFits
  <2>4. origin # None => Len(origin) <= MaxName + 1
    BY Assumed, HostFits
  <2> HIDE DEF origin, new
  <2>5. Fits([new EXCEPT !.origin = origin])
    BY <2>3, <2>4, OriginFits
  <2>6. done.is = [new EXCEPT !.origin = origin] /\ done.ok = TRUE
    BY <2>1
  <2> HIDE DEF done
  <2> QED
    BY <2>5, <2>6 DEF done
<1> QED
  BY <1>1, <1>2

\* The states with objects that fit.
AllFit == (\A o \in Object : Fits(object[o])) /\ mode \in Modes /\ last.ok \in BOOLEAN

LEMMA AllFitIsTypeOK == AllFit <=> TypeOK
BY DEF AllFit, Fits, HeldAddress, TypeOK

\* A call that writes one object leaves the others as they fit.
LEMMA OneFits ==
  ASSUME IInv, AllFit, NEW o \in Object, NEW a, Fits(a), object' = [object EXCEPT ![o] = a],
         UNCHANGED mode, NEW call, NEW ok \in BOOLEAN, Call(call, o, ok)
  PROVE  AllFit'
<1>1. \A q \in Object : object'[q] = IF q = o THEN a ELSE object[q]
  BY DEF IInv
<1>2. \A q \in Object : Fits(object'[q])
  BY <1>1 DEF AllFit
<1>3. last'.ok = ok
  BY Said
<1> QED
  BY <1>2, <1>3 DEF AllFit, Fits

LEMMA TakeNameFits ==
  ASSUME IInv, AllFit, NEW o \in Object, NEW a, IsObject(a), Fits(a), NEW name \in NamesFor(o),
         NEW text \in {name, NullString}, NEW ports, ports \subseteq Port \cup {None}, NEW call,
         TakeName(o, a, name, text, ports, call)
  PROVE  AllFit'
<1>1. PICK answer \in Answers(name), port \in ports :
        LET done == FromHostname(a, name, answer, text) IN
        /\ object' = [object EXCEPT ![o] = IF port = None THEN done.is ELSE SetPort(done.is, port)]
        /\ Call(call, o, done.ok) /\ UNCHANGED mode
  BY DEF TakeName
<1> DEFINE done == FromHostname(a, name, answer, text)
           new  == IF port = None THEN done.is ELSE SetPort(done.is, port)
<1>2. Len(name) \in Nat \/ Len(name) <= MaxName + 1
  <2>1. CASE name \in Name
    BY <2>1, Assumed
  <2>2. CASE \E q \in Object : object[q] # Gone /\ object[q].origin # None /\ name = object[q].origin
    BY <2>2 DEF AllFit, Fits
  <2> QED
    BY <2>1, <2>2 DEF NamesFor
<1>3. mode \in Modes
  BY DEF AllFit
<1>4. IsObject(done.is)
  BY Named
<1>5. Fits(done.is) /\ done.ok \in BOOLEAN
  BY <1>2, <1>3, NamedFits
<1>6. port = None \/ port \in Port
  OBVIOUS
<1>7. /\ object' = [object EXCEPT ![o] = new]
      /\ Call(call, o, done.ok) /\ UNCHANGED mode
  BY <1>1
<1> HIDE DEF done
<1>8. Fits(new)
  BY <1>4, <1>5, <1>6, SetPortFits
<1> HIDE DEF new
<1> QED
  BY <1>5, <1>7, <1>8, OneFits

\* An existing object fits.
LEMMA ExistingFits ==
  ASSUME IInv, AllFit, NEW o \in Object, object[o] # Gone
  PROVE  IsObject(object[o]) /\ Fits(object[o])
BY Existing DEF AllFit

LEMMA ConstructFits ==
  ASSUME IInv, AllFit, NEW o \in Object, Construct(o)
  PROVE  AllFit'
<1>1. IsObject(Empty) /\ Fits(Empty)
  BY EmptyMade DEF Fits
<1>2. CASE object' = [object EXCEPT ![o] = Empty] /\ UNCHANGED <<mode, from>> /\ Call("construct", o, TRUE)
  BY <1>1, <1>2, OneFits
<1>3. CASE \E ip \in Ip, port \in Port :
             /\ object' = [object EXCEPT ![o] = SetPort(FromIp(Empty, ip), port)]
             /\ UNCHANGED <<mode, from>> /\ Call("construct", o, TRUE)
  <2>1. PICK ip \in Ip, port \in Port :
          object' = [object EXCEPT ![o] = SetPort(FromIp(Empty, ip), port)]
    BY <1>3
  <2>2. IsObject(FromIp(Empty, ip)) /\ Fits(FromIp(Empty, ip))
    BY <1>1, FromIpMade, FromIpFits
  <2>3. Fits(SetPort(FromIp(Empty, ip), port))
    BY <2>2, SetPortFits
  <2> QED
    BY <1>3, <2>1, <2>3, OneFits
<1>4. CASE \E name \in NamesFor(o) : \E text \in {name, NullString} :
             TakeName(o, Empty, name, text, Port, "construct")
  <2>1. Port \subseteq Port \cup {None}
    OBVIOUS
  <2> QED
    BY <1>1, <1>4, <2>1, TakeNameFits
<1> QED
  BY <1>2, <1>3, <1>4 DEF Construct

\* The calls on an object that exists.
LEMMA CallFits ==
  ASSUME IInv, AllFit, NEW o \in Object,
         FromIpCall(o) \/ FromHostnameCall(o) \/ SetPortCall(o) \/ Clear(o) \/ Destroy(o)
  PROVE  AllFit'
<1>1. IsObject(object[o]) /\ Fits(object[o])
  BY ExistingFits DEF FromIpCall, FromHostnameCall, SetPortCall, Clear, Destroy
<1>2. CASE FromIpCall(o)
  <2>1. PICK ip \in Ip : object' = [object EXCEPT ![o] = FromIp(object[o], ip)]
    BY <1>2 DEF FromIpCall, IInv
  <2>2. Fits(FromIp(object[o], ip))
    BY <1>1, FromIpFits
  <2>3. UNCHANGED mode /\ Call("from_ip", o, TRUE)
    BY <1>2 DEF FromIpCall
  <2> QED
    BY <2>1, <2>2, <2>3, OneFits
<1>3. CASE FromHostnameCall(o)
  <2>1. {None} \subseteq Port \cup {None}
    OBVIOUS
  <2> QED
    BY <1>1, <1>3, <2>1, TakeNameFits DEF FromHostnameCall
<1>4. CASE SetPortCall(o)
  <2>1. PICK port \in Port : object' = [object EXCEPT ![o] = SetPort(object[o], port)]
    BY <1>4 DEF SetPortCall, IInv
  <2>2. Fits(SetPort(object[o], port))
    BY <1>1, SetPortFits
  <2>3. UNCHANGED mode /\ Call("set_port", o, TRUE)
    BY <1>4 DEF SetPortCall
  <2> QED
    BY <2>1, <2>2, <2>3, OneFits
<1>5. CASE Clear(o)
  <2>1. Fits(Empty)
    BY EmptyMade DEF Fits
  <2>2. object' = [object EXCEPT ![o] = Empty] /\ UNCHANGED mode /\ Call("clear", o, TRUE)
    BY <1>5 DEF Clear
  <2> QED
    BY <2>1, <2>2, OneFits
<1>6. CASE Destroy(o)
  <2>1. Fits(Gone)
    BY DEF Fits
  <2>2. object' = [object EXCEPT ![o] = Gone] /\ UNCHANGED mode /\ Call("destroy", o, TRUE)
    BY <1>6 DEF Destroy
  <2> QED
    BY <2>1, <2>2, OneFits
<1> QED
  BY <1>2, <1>3, <1>4, <1>5, <1>6

LEMMA CopyToFits ==
  ASSUME IInv, AllFit, NEW o \in Object, NEW p \in Object, CopyTo(o, p)
  PROVE  AllFit'
<1>1. PICK origin \in IF object[p].origin = None THEN {None} ELSE {object[p].origin, NullString} :
        object' = [object EXCEPT ![o] = [object[p] EXCEPT !.origin = origin]]
  BY DEF CopyTo
<1>2. object[p] # Gone /\ IsObject(object[p]) /\ Fits(object[p])
  BY ExistingFits DEF CopyTo
<1>3. origin # None => Len(origin) <= MaxName + 1
  BY <1>2, Assumed DEF Fits
<1>4. Fits([object[p] EXCEPT !.origin = origin])
  BY <1>2, <1>3, OriginFits
<1>5. UNCHANGED mode /\ Call("construct", o, TRUE)
  BY DEF CopyTo
<1> QED
  BY <1>1, <1>4, <1>5, OneFits

LEMMA MoveToFits ==
  ASSUME IInv, AllFit, NEW o \in Object, NEW p \in Object, MoveTo(o, p)
  PROVE  AllFit'
<1> DEFINE origin == IF object[p].origin = None THEN None ELSE NullString
           left == [object[p] EXCEPT !.origin = origin]
<1>1. IsObject(object[p]) /\ Fits(object[p])
  BY ExistingFits DEF MoveTo
<1>2. origin # None => Len(origin) <= MaxName + 1
  BY Assumed
<1>3. object' = [q \in Object |-> IF q = p THEN left ELSE IF q = o THEN object[p] ELSE object[q]]
  <2>1. object' = [[object EXCEPT ![o] = object[p]] EXCEPT ![p] = left]
    BY DEF MoveTo, IInv
  <2> QED
    BY <2>1 DEF IInv
<1>4. UNCHANGED mode /\ Call("move", o, TRUE)
  BY DEF MoveTo
<1>5. last'.ok = TRUE
  BY <1>4, Said
<1> HIDE DEF origin
<1>6. Fits(left)
  BY <1>1, <1>2, OriginFits
<1> HIDE DEF left
<1>7. \A q \in Object : Fits(object'[q])
  BY <1>1, <1>3, <1>6 DEF AllFit
<1> QED
  BY <1>4, <1>5, <1>7 DEF AllFit, Fits

LEMMA NextFits == IInv /\ AllFit /\ [Next]_vars => AllFit'
<1> SUFFICES ASSUME IInv, AllFit, [Next]_vars PROVE AllFit'
  OBVIOUS
<1>1. CASE UNCHANGED vars
  BY <1>1 DEF AllFit, Fits, vars
<1>2. CASE SetMode
  <2>1. mode' \in Modes /\ object' = object /\ last'.ok = TRUE
    BY <1>2, Said DEF SetMode
  <2> QED
    BY <2>1 DEF AllFit, Fits
<1>3. CASE \E o \in Object :
             \/ Construct(o) \/ FromIpCall(o) \/ FromHostnameCall(o) \/ SetPortCall(o)
             \/ Clear(o) \/ Destroy(o) \/ \E p \in Object : CopyTo(o, p) \/ MoveTo(o, p)
  BY <1>3, ConstructFits, CallFits, CopyToFits, MoveToFits
<1> QED
  BY <1>1, <1>2, <1>3 DEF Next

-------------------------------------------------------------------------------
(* Theorems *)

\* In every reachable state each object agrees with its history.
THEOREM Invariance == Spec => []IInv
<1> QED
  BY InitIInv, NextIInv, PTL DEF Spec

\* Whatever calls, copies, moves and failed allocations have come since, an object's
\* origin is the host name its present IP was resolved from or, where its text was
\* lost, empty; no IP that was given as such has an origin (address.cpp:23-88).
THEOREM OriginIsHost == Spec => []OriginNamesIp
<1>1. IInv => OriginNamesIp
  BY DEF IInv, Sound, OriginNamesIp
<1> QED
  BY <1>1, Invariance, PTL

\* A from_hostname that fails, at the classification or at the resolution, changes no
\* object; a constructor that fails so makes an empty one.
THEOREM FailuresChangeNothing == Spec => FailureChangesNothing
<1>1. IInv /\ [Next]_vars => [FailureHarmless]_vars
  BY NextHarmless
<1> QED
  BY <1>1, Invariance, PTL DEF Spec, FailureChangesNothing, FailureHarmless

\* No call but set_port and a move onto it gives an object's address another port.
THEOREM PortsAreKept == Spec => PortKept
<1>1. IInv /\ [Next]_vars => [PortsKept]_vars
  BY NextHarmless
<1> QED
  BY <1>1, Invariance, PTL DEF Spec, PortKept, PortsKept

\* Every object holds an IP the system knows, with port 0 or one that was set, and an
\* origin no longer than a host name with its final dot.
THEOREM TypeCorrect == Spec => []TypeOK
<1>1. Init => AllFit
  BY DEF Init, AllFit, Fits, Modes
<1>2. AllFit => TypeOK
  BY AllFitIsTypeOK
<1> QED
  BY <1>1, <1>2, Invariance, NextFits, PTL DEF Spec

\* For any alphabet, limits and texts: is_fqdn accepts exactly the host names.
THEOREM KindsFollowRule == Spec => []KindFollowsRule
<1>1. KindFollowsRule
  <2>1. ASSUME NEW s \in Texts PROVE IsFqdn(s) <=> HostName(s)
    <3>1. PICK n \in 0..MaxText : s \in [1..n -> Char]
      BY DEF Texts
    <3>2. n \in Nat
      BY AddressesAssumption
    <3>3. s \in Seq(Char)
      BY <3>1, <3>2
    <3> QED
      BY <3>3, FqdnIsHostName
  <2> QED
    BY <2>1 DEF KindFollowsRule
<1> QED
  BY <1>1, PTL

\* For answers of any length: resolve takes the first address of the preferred family,
\* and otherwise the first of the other, if that may serve.
THEOREM ResolvesPreferred == Spec => []PicksPreferred
<1>1. PicksPreferred
  <2>1. ASSUME NEW m \in Modes, NEW list \in Lists PROVE Resolve(list, m) \in Taken(list, m)
    <3>1. PICK n \in 0..MaxAnswer : list \in [1..n -> Known]
      BY DEF Lists
    <3>2. n \in Nat
      BY AddressesAssumption
    <3>3. list \in Seq(Known)
      BY <3>1, <3>2
    <3>4. Families(Known)
      BY AddressesAssumption DEF Families
    <3> QED
      BY <3>3, <3>4, ResolveTakes
  <2> QED
    BY <2>1 DEF PicksPreferred
<1> QED
  BY <1>1, PTL

================================================================================
