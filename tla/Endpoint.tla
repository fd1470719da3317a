------------------------------ MODULE Endpoint ------------------------------
(* Addresses: their texts (com/posix_naos.c and the parsers of endpoint.cpp) and
   the endpoint objects that keep an address, its text and a port side by side.

   A text is a sequence of characters: a digit is its value, the other three
   stand for all that the code tells apart.  An address is the sequence of its
   four bytes, the most significant first.  What a name resolves to is not
   known: it may be any address, or none. *)
EXTENDS Integers, Sequences, FiniteSets, SequencesExt

CONSTANTS
  Places,       \* places for endpoint objects
  Texts,        \* the host texts that callers pass, as characters (120 at most, see build)
  Addresses,    \* the addresses they pass, and that names resolve to
  Ports,
  Failed        \* a call that returns an error

Digits == 0..9
Dot == 10
Colon == 11
Letter == 12
Characters == 0..12

Zero == <<0, 0, 0, 0>>
BOARDCAST_TCPIP_ADDRESS == <<255, 255, 255, 255>>
INVALID_TCPIP_PORT_NUMBER == 65535

-----------------------------------------------------------------------------
(* The n-th element of a set of numbers, from the least. *)
Nth(S, n) == CHOOSE k \in S : Cardinality({j \in S : j < k}) = n - 1

(* The parts of a text between the occurrences of a character. *)
Split(text, symbol) ==
  LET at == {k \in DOMAIN text : text[k] = symbol}
      start(n) == IF n = 1 THEN 1 ELSE Nth(at, n - 1) + 1
      last(n) == IF n > Cardinality(at) THEN Len(text) ELSE Nth(at, n) - 1
  IN [n \in 1 .. Cardinality(at) + 1 |-> SubSeq(text, start(n), last(n))]

is_digit_str(text) == text # <<>> /\ \A k \in DOMAIN text : text[k] \in Digits

(* strtol and strtoul of digits. *)
Value(text) ==
  LET value[k \in 0 .. Len(text)] == IF k = 0 THEN 0 ELSE 10 * value[k - 1] + text[k]
  IN value[Len(text)]

Tens == <<1, 10, 100, 1000, 10000>>

(* A number of 16 bits at most, without zeros before it. *)
Decimal(n) ==
  LET length == CHOOSE k \in 1..5 : n < 10 * Tens[k] /\ (k = 1 \/ n >= Tens[k])
  IN [k \in 1 .. length |-> (n \div Tens[length + 1 - k]) % 10]

(* posix__ipv4tos into memory for cch characters. *)
ipv4tos(ip, cch) ==
  LET text == Decimal(ip[1]) \o <<Dot>> \o Decimal(ip[2]) \o <<Dot>> \o Decimal(ip[3]) \o
              <<Dot>> \o Decimal(ip[4])
  IN SubSeq(text, 1, IF Len(text) < cch THEN Len(text) ELSE cch - 1)

(* posix__ipv4tou: strtok passes over empty parts, and what is missing is 0.
   No part of an effective address exceeds a byte. *)
ipv4tou(text, bigEndian) ==
  LET segments == Split(text, Dot)
      tokens == {i \in DOMAIN segments : segments[i] # <<>>}
      bytes == [i \in 1..4 |-> IF i <= Cardinality(tokens) THEN Value(segments[Nth(tokens, i)]) % 256 ELSE 0]
  IN IF bigEndian THEN Reverse(bytes) ELSE bytes

(* posix__chord32, posix__chord16 and change_byte_order. *)
ByteOrderChanged(bytes) == Reverse(bytes)

is_effective_ipv4(text) ==
  LET value == Split(text, Dot) IN
  /\ text # <<>>
  /\ Len(value) = 4
  /\ \A i \in 1..4 : is_digit_str(value[i]) /\ Value(value[i]) <= 255

(* posix__is_effective_address_v4: the check for an empty part compares an array
   with 0 and never holds, and the last part is not compared with 255. *)
is_effective_address_v4(text) ==
  LET segm == Split(text, Dot) IN
  /\ Len(text) <= 15
  /\ \A k \in DOMAIN text : text[k] \in Digits \cup {Dot}
  /\ Len(segm) = 4
  /\ \A i \in 1..4 : Len(segm[i]) <= 3
  /\ \A i \in 1..3 : Value(segm[i]) <= 255
  /\ segm[4] # <<>>

(* The port 65535, which marks endpoints that are not set, is refused. *)
is_effective_port(text) ==
  /\ is_digit_str(text)
  /\ ~(text[1] = 0 /\ Len(text) > 1)
  /\ Value(text) < INVALID_TCPIP_PORT_NUMBER

(* Any address a name may resolve to (nis_gethost), as text, or a failure. *)
parse_domain(domain) == {ipv4tos(ip, 16) : ip \in Addresses} \cup {Failed}

(* The results parse_ep may return for the text of an endpoint. *)
parse_ep(text) ==
  LET colons == {k \in DOMAIN text : text[k] = Colon}
      loc == CHOOSE k \in colons : \A j \in colons : k <= j
      host == SubSeq(text, 1, loc - 1)
      port == SubSeq(text, loc + 1, Len(text))
  IN IF colons = {} \/ loc = 1 \/ ~is_effective_port(port) THEN {Failed}
     ELSE {IF ip = Failed THEN Failed ELSE [ipv4 |-> ip, port |-> Value(port)] :
             ip \in IF is_effective_ipv4(host) THEN {host} ELSE parse_domain(host)}

-----------------------------------------------------------------------------
VARIABLE ep     \* per place: an endpoint [ipstr, address, port], or NoObject

vars == <<ep>>

NoObject == [ipstr |-> <<>>, address |-> Zero, port |-> -1]
Invalid == [ipstr |-> <<>>, address |-> Zero, port |-> INVALID_TCPIP_PORT_NUMBER]
Exists(p) == ep[p] # NoObject

Init == ep = [p \in Places |-> NoObject]

\* posix_strcpy into the 16 characters of ipstr_ aborts the program otherwise.
Fits(text) == Len(text) < 16

(* endpoint::ipv4 of a text: what the object may become.  It stays as it is if
   the text is empty, or a name that is not resolved; there is no result if the
   program aborts on a text that is effective and too long (needless zeros). *)
WithText(e, text) ==
  LET found == IF is_effective_ipv4(text) THEN {text} ELSE parse_domain(text)
      texts == {t \in found : t = Failed \/ Fits(t)}
  IN IF text = <<>> THEN {e}
     ELSE {IF t = Failed THEN e ELSE [e EXCEPT !.ipstr = t, !.address = ipv4tou(t, FALSE)] : t \in texts}

(* The slip the mutant makes: the text is kept when the address is cleared. *)
SlipWithAddress(e, ip) ==
  IF ip # Zero THEN [e EXCEPT !.address = ip, !.ipstr = ipv4tos(ip, 16)] ELSE [e EXCEPT !.address = ip]

(* endpoint::ipv4 of a number. *)
WithAddress(e, ip) ==
  [e EXCEPT !.address = ip, !.ipstr = IF ip # Zero THEN ipv4tos(ip, 16) ELSE <<>>]

to_string(e) == e.ipstr \o <<Colon>> \o Decimal(e.port)

(* endpoint::build from a text: the object as it may be afterwards, or Failed. *)
BuiltFrom(e, text) ==
  UNION {IF r = Failed THEN {Failed} ELSE {[x EXCEPT !.port = r.port] : x \in WithText(e, r.ipv4)} :
           r \in parse_ep(text)}

Default(p) ==
  /\ ~Exists(p)
  /\ ep' = [ep EXCEPT ![p] = Invalid]

(* A constructor that cannot build throws, and there is no object. *)
Construct(p) ==
  /\ ~Exists(p)
  /\ \E host \in Texts, port \in Ports :
       LET ipstr == IF host = <<>> THEN ipv4tos(Zero, 16) ELSE host IN
       \E x \in BuiltFrom(NoObject, ipstr \o <<Colon>> \o Decimal(port)) :
         ep' = [ep EXCEPT ![p] = IF x = Failed THEN NoObject ELSE x]

(* boardcast: without a port to send to it would return the endpoint that is not
   set, whose port its constructor refuses. *)
Boardcast(p) ==
  /\ ~Exists(p)
  /\ \E port \in Ports :
       LET unset == port \in {0, INVALID_TCPIP_PORT_NUMBER}
           host == ipv4tos(IF unset THEN Zero ELSE BOARDCAST_TCPIP_ADDRESS, 16)
           text == host \o <<Colon>> \o Decimal(IF unset THEN INVALID_TCPIP_PORT_NUMBER ELSE port)
       IN \E x \in BuiltFrom(NoObject, text) : ep' = [ep EXCEPT ![p] = IF x = Failed THEN NoObject ELSE x]

(* endpoint::build into an object, which stays as it is when it fails. *)
Build(p) ==
  /\ Exists(p)
  /\ \E host \in Texts, port \in Ports :
       \E x \in BuiltFrom(ep[p], host \o <<Colon>> \o Decimal(port)) :
         ep' = [ep EXCEPT ![p] = IF x = Failed THEN @ ELSE x]

SetText(p) ==
  /\ Exists(p)
  /\ \E text \in Texts : \E x \in WithText(ep[p], text) : ep' = [ep EXCEPT ![p] = x]

SetAddress(p) ==
  /\ Exists(p)
  /\ \E ip \in Addresses : ep' = [ep EXCEPT ![p] = WithAddress(@, ip)]

SetPort(p) ==
  /\ Exists(p)
  /\ \E port \in Ports : ep' = [ep EXCEPT ![p].port = port]

Disable(p) ==
  /\ Exists(p)
  /\ ep' = [ep EXCEPT ![p] = [WithAddress(@, Zero) EXCEPT !.port = INVALID_TCPIP_PORT_NUMBER]]

CopyConstruct(p, q) ==
  /\ ~Exists(p) /\ Exists(q)
  /\ ep' = [ep EXCEPT ![p] = ep[q]]

(* The source is cleared, and its port is 0 afterwards. *)
MoveConstruct(p, q) ==
  /\ ~Exists(p) /\ Exists(q)
  /\ ep' = [ep EXCEPT ![p] = ep[q], ![q] = [Invalid EXCEPT !.port = 0]]

MoveAssign(p, q) ==
  /\ Exists(p) /\ Exists(q)
  /\ ep' = [ep EXCEPT ![p] = ep[q]]

(* The text of the source is set, so that a source without one leaves the
   address of the target as it is, and the port. *)
CopyAssign(p, q) ==
  /\ Exists(p) /\ Exists(q) /\ p # q
  /\ \E x \in WithText(ep[p], ep[q].ipstr) : ep' = [ep EXCEPT ![p] = [x EXCEPT !.port = ep[q].port]]

Destroy(p) ==
  /\ Exists(p)
  /\ ep' = [ep EXCEPT ![p] = NoObject]

Next ==
  \/ \E p \in Places :
       \/ Default(p) \/ Construct(p) \/ Boardcast(p) \/ Build(p) \/ Destroy(p)
       \/ SetText(p) \/ SetAddress(p) \/ SetPort(p) \/ Disable(p)
  \/ \E p, q \in Places :
       CopyConstruct(p, q) \/ MoveConstruct(p, q) \/ MoveAssign(p, q) \/ CopyAssign(p, q)

Spec == Init /\ [][Next]_vars

-----------------------------------------------------------------------------
(* operator== and operator<. *)
Equal(a, b) == a.ipstr = b.ipstr /\ a.address = b.address /\ a.port = b.port

Below(a, b) ==
  \/ \E i \in 1..4 : a.address[i] < b.address[i] /\ \A j \in 1 .. i - 1 : a.address[j] = b.address[j]
  \/ a.address = b.address /\ a.port < b.port

(* In every endpoint the address is the one its text denotes, and an endpoint
   without a text has the address 0, whatever constructors, assignments, moves
   and setters made it; its text is parsed back to it, unless its port marks it
   as not set; the two checks of an address agree on it, if its parts are not
   written with needless zeros; and no two endpoints that are equal are ordered. *)
TextAndAddressAgree ==
  \A p \in Places : Exists(p) =>
    /\ ep[p].address = ipv4tou(ep[p].ipstr, FALSE)
    /\ ep[p].address = ByteOrderChanged(ipv4tou(ep[p].ipstr, TRUE))
    /\ ep[p].ipstr # <<>> /\ ep[p].port # INVALID_TCPIP_PORT_NUMBER =>
         parse_ep(to_string(ep[p])) = {[ipv4 |-> ep[p].ipstr, port |-> ep[p].port]}
    /\ ep[p].ipstr # <<>> /\ (\A part \in Range(Split(ep[p].ipstr, Dot)) : Len(part) <= 3) =>
         is_effective_address_v4(ep[p].ipstr)
    /\ \A q \in Places : Exists(q) /\ Equal(ep[p], ep[q]) => ~Below(ep[p], ep[q])
=============================================================================
