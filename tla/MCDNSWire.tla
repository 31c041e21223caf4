----------------------------- MODULE MCDNSWire ------------------------------
(* The wire format of one lookup: the question MakePayload builds for a    *)
(* name (DNSQuery), and the decoding of a reply to a request of the same   *)
(* query type (DNSReply).  The two share this->type; the reply does not    *)
(* depend on the name, as nothing in the code ties what a server sends to  *)
(* the question it was asked.                                              *)
EXTENDS MCDNSReply

CONSTANTS Names,    \* the names looked up
          PtrAddrs, \* the addresses given to GetNameForce, as bytes
          QueryIds  \* request ids AddQuery may draw

Rep(n, x) == [k \in 1..n |-> x]

(* The name whose pieces between dots are runs of 'a' of the given        *)
(* lengths (a length 0 is an empty piece).                                *)
RECURSIVE Spell(_)
Spell(lens) ==
    IF Len(lens) = 1 THEN Rep(lens[1], Letter)
    ELSE Spell(Front(lens)) \o <<Period>> \o Rep(Last(lens), Letter)

(* Relative names of one to three labels of 1, 2 or 63 bytes, and names  *)
(* at the 507-byte limit: seven 63-byte labels and a last label of 57    *)
(* (accepted) or 58 bytes (refused), and eight 63-byte labels.            *)
ShortNames == {Spell(l) : l \in UNION {[1..n -> {1, 2, 63}] : n \in 1..3}}
LimitNames == {Spell(Rep(7, 63) \o <<57>>), Spell(Rep(7, 63) \o <<58>>), Spell(Rep(8, 63))}
ValidNames == ShortNames \cup LimitNames

(* Fully qualified names: a trailing dot. *)
FQDNames == {Spell(n \o <<0>>) : n \in UNION {[1..k -> {1, 2}] : k \in 1..2}}

(* Pieces that are not labels: 64 bytes, a length byte wrapping to 0, an *)
(* empty piece between two dots.                                          *)
BadLabelNames == {Spell(l) : l \in {<<64>>, <<1, 64>>, <<256, 1>>, <<1, 0, 1>>}}

(* Every payload MakePayload accepts for a name looked up (GetIP, GetIP6, *)
(* GetCName, GetName) fits header.payload[512] and parses as the question *)
(* for exactly that name, the request's type and class IN.                *)
QueryAsksForName == \A n \in Names : QueryAsksFor(n, qtype)

(* IPv4 addresses (RFC 5737 192.0.2.5 among them) and IPv6 addresses:    *)
(* all zero, 2001:db8::1, all ones, and one whose sixteen bytes have     *)
(* distinct high and low nibbles.                                         *)
Ptr4Addrs == {<<192, 0, 2, 5>>, <<0, 0, 0, 0>>, <<255, 255, 255, 255>>, <<10, 0, 0, 1>>}
Ptr6Addrs == {Rep(16, 0), <<32, 1, 13, 184>> \o Rep(11, 0) \o <<1>>, Rep(16, 255),
              [k \in 1..16 |-> 16 * ((k - 1) % 16) + (15 - ((k - 1) % 16))]}
MCPtrAddrs == Ptr4Addrs \cup Ptr6Addrs

(* GetNameForce for every address builds the reverse name of RFC 1035   *)
(* and RFC 3596 and asks for its PTR record in class IN.                  *)
PtrQueryAsksForName == \A a \in PtrAddrs : PtrAsksFor(a)

(* Ids at the byte boundaries of the 16-bit id space. *)
MCQueryIds == {0, 1, 255, 256, 65535}

(* For every id AddQuery may draw and every name looked up, the datagram *)
(* SendRequests sends is the RFC 1035 query for it and a reply echoing   *)
(* its id is found under the same id by Result.                          *)
DatagramCarriesId ==
    \A id \in QueryIds, n \in Names :
        Lookup(n, qtype).ok => DatagramFor(id, Lookup(n, qtype))

====
