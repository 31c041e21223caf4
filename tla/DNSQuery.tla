------------------------------ MODULE DNSQuery ------------------------------
(***************************************************************************)
(* The question a DNS query carries: DNS::MakePayload of src/src/dns.cpp, *)
(* and the names GetNameForce builds for reverse (PTR) lookups, checked   *)
(* against an RFC 1035 parser of the question section and the reverse     *)
(* names of RFC 1035 (3.5) and RFC 3596 (2.5).                             *)
(*                                                                         *)
(* A name is the C string the caller passes, as its byte values.          *)
(***************************************************************************)
EXTENDS Naturals, Sequences, SequencesExt

Letter == 97
Period == 46
ClassIN == 1

(* Big-endian bytes of an unsigned short: htons and memcpy. *)
Short(x) == <<x \div 256, x % 256>>

(* One label: the length byte (an unsigned short stored in an unsigned   *)
(* char) and a memcpy of its characters.                                  *)
Label(piece) == <<Len(piece) % 256>> \o piece

(* The result of MakePayload: the bytes written, or -1. *)
Fail == [ok |-> FALSE, bytes |-> <<>>]
Ok(p) == [ok |-> TRUE, bytes |-> p]

(***************************************************************************)
(* DNS::MakePayload(name, rr, rr_class, payload).                          *)
(***************************************************************************)

(* Mutant: the root label is not written after the last piece. *)
LastLabelNoRoot(piece, r) ==
    IF ~r.ok THEN Fail
    ELSE IF Len(piece) = 0 THEN r
    ELSE IF Len(r.bytes) + Len(piece) + 2 > 507 THEN Fail
    ELSE Ok(r.bytes \o Label(piece))

(* The piece after the last '.' (strlen(tempchr2)): only if non-empty,   *)
(* with the root label after it.                                          *)
LastLabel(piece, r) ==
    IF ~r.ok THEN Fail
    ELSE IF Len(piece) = 0 THEN r
    ELSE IF Len(r.bytes) + Len(piece) + 2 > 507 THEN Fail
    ELSE Ok(r.bytes \o Label(piece) \o <<0>>)

(* The while loop over strchr(tempchr2, '.'): each piece before a '.'    *)
(* becomes a label; fail (-1) when it would pass byte 507.                *)
RECURSIVE DottedLabels(_, _)
DottedLabels(s, payload) ==
    LET k == SelectInSeq(s, LAMBDA b : b = Period) IN
    IF k = 0 THEN LastLabel(s, Ok(payload))
    ELSE IF Len(payload) + (k - 1) + 1 > 507 THEN Fail
    ELSE DottedLabels(SubSeq(s, k + 1, Len(s)), payload \o Label(SubSeq(s, 1, k - 1)))

MakePayload(name, rr, rr_class) ==
    LET r == DottedLabels(name, <<>>)
    IN  IF ~r.ok \/ Len(r.bytes) > 508 THEN Fail
        ELSE Ok(r.bytes \o Short(rr) \o Short(rr_class))

(* GetIP, GetIP6 and GetCName: the payload for the name with the query   *)
(* type and class 1, or -1 before any request is made.                    *)
Lookup(name, t) == MakePayload(name, t, ClassIN)

(***************************************************************************)
(* GetNameForce(ip, fp): the reverse name of an address, then the PTR     *)
(* query for it.  An address is its bytes in network order (what          *)
(* inet_aton and inet_pton produce; a string they reject is -1).          *)
(***************************************************************************)
DnsQueryPtr == 12
InAddrArpa == <<105, 110, 45, 97, 100, 100, 114, 46, 97, 114, 112, 97>>  \* "in-addr.arpa"
Ip6Arpa == <<105, 112, 54, 46, 97, 114, 112, 97>>                         \* "ip6.arpa"
HexTable == <<48, 49, 50, 51, 52, 53, 54, 55, 56, 57, 97, 98, 99, 100, 101, 102>>

(* "%d" of a byte. *)
RECURSIVE Decimal(_)
Decimal(n) == IF n < 10 THEN <<48 + n>> ELSE Decimal(n \div 10) \o <<48 + (n % 10)>>

(* sprintf(query, "%d.%d.%d.%d.in-addr.arpa", c[3], c[2], c[1], c[0])     *)
(* with c the bytes of s_addr.                                            *)
ReverseName4(a) ==
    Decimal(a[4]) \o <<Period>> \o Decimal(a[3]) \o <<Period>>
      \o Decimal(a[2]) \o <<Period>> \o Decimal(a[1]) \o <<Period>> \o InAddrArpa

(* Mutant: the nibbles of each byte in the wrong order. *)
MakeIP6IntSwapped(a) ==
    LET nibble(index) == IF index % 2 = 1 THEN a[index \div 2 + 1] \div 16
                                          ELSE a[index \div 2 + 1] % 16
    IN  [k \in 1..64 |-> IF k % 2 = 1 THEN HexTable[nibble(32 - (k + 1) \div 2) + 1]
                                      ELSE Period] \o Ip6Arpa

(* DNS::MakeIP6Int: for index = 31 down to 0, hex[] of the low nibble of  *)
(* byte index/2 when index is odd and of its high nibble when even, each  *)
(* followed by '.'; then "ip6.arpa".                                      *)
MakeIP6Int(a) ==
    LET nibble(index) == IF index % 2 = 1 THEN a[index \div 2 + 1] % 16
                                          ELSE a[index \div 2 + 1] \div 16
    IN  [k \in 1..64 |-> IF k % 2 = 1 THEN HexTable[nibble(32 - (k + 1) \div 2) + 1]
                                      ELSE Period] \o Ip6Arpa

(* The query[128] GetNameForce builds, and its PTR payload. *)
ReverseName(a) == IF Len(a) = 4 THEN ReverseName4(a) ELSE MakeIP6Int(a)
PtrQuery(a) == MakePayload(ReverseName(a), DnsQueryPtr, ClassIN)

(***************************************************************************)
(* The datagram: AddQuery fills the header for the id it drew,            *)
(* SendRequests serialises it with EmptyHeader and sends length + 12      *)
(* bytes; Result takes the id of a reply back from its first two bytes.   *)
(***************************************************************************)
FlagsMaskRD == 1

QueryHeader(id) ==
    [id |-> <<(id \div 256) % 256, id % 256>>, flags1 |-> FlagsMaskRD, flags2 |-> 0,
     qdcount |-> 1, ancount |-> 0, nscount |-> 0, arcount |-> 0]

(* Each output[] byte is an unsigned char: a count's high and low byte. *)
Count(x) == <<(x \div 256) % 256, x % 256>>

(* Mutant: the bytes of each count written low byte first. *)
EmptyHeaderSwapped(h, payload) ==
    <<h.id[1], h.id[2], h.flags1 % 256, h.flags2 % 256>>
      \o <<h.qdcount % 256, (h.qdcount \div 256) % 256>>
      \o <<h.ancount % 256, (h.ancount \div 256) % 256>>
      \o <<h.nscount % 256, (h.nscount \div 256) % 256>>
      \o <<h.arcount % 256, (h.arcount \div 256) % 256>> \o payload

EmptyHeader(h, payload) ==
    <<h.id[1], h.id[2], h.flags1 % 256, h.flags2 % 256>>
      \o Count(h.qdcount) \o Count(h.ancount) \o Count(h.nscount) \o Count(h.arcount)
      \o payload

Datagram(id, r) == EmptyHeader(QueryHeader(id), r.bytes)

(* unsigned long this_id = header.id[1] + (header.id[0] << 8) *)
ReplyId(d) == d[2] + d[1] * 256

(***************************************************************************)
(* Reference: the question section as RFC 1035 (4.1.2) reads it.  A      *)
(* label length is 1..63; 0 is the root label ending the name; a byte of *)
(* 64 or more is a pointer or reserved, which a query never contains.     *)
(***************************************************************************)
Malformed == [ok |-> FALSE, labels |-> <<>>, next |-> 0]

RECURSIVE QName(_, _, _)
QName(p, i, labels) ==
    IF i > Len(p) THEN Malformed
    ELSE IF p[i] = 0 THEN [ok |-> TRUE, labels |-> labels, next |-> i + 1]
    ELSE IF p[i] > 63 \/ i + p[i] > Len(p) THEN Malformed
    ELSE QName(p, i + p[i] + 1, Append(labels, SubSeq(p, i + 1, i + p[i])))

Question(p) ==
    LET n == QName(p, 1, <<>>) IN
    IF ~n.ok \/ Len(p) # n.next + 3
    THEN [ok |-> FALSE, labels |-> <<>>, qtype |-> 0, qclass |-> 0]
    ELSE [ok |-> TRUE, labels |-> n.labels,
          qtype  |-> p[n.next] * 256 + p[n.next + 1],
          qclass |-> p[n.next + 2] * 256 + p[n.next + 3]]

(* The pieces of a name between its dots, split from the right. *)
RECURSIVE Pieces(_)
Pieces(s) ==
    LET k == SelectLastInSeq(s, LAMBDA b : b = Period) IN
    IF k = 0 THEN <<s>> ELSE Append(Pieces(SubSeq(s, 1, k - 1)), SubSeq(s, k + 1, Len(s)))

(* The labels a name denotes: a final empty piece is the root of a fully *)
(* qualified name, not a label.                                           *)
NameLabels(n) ==
    LET p == Pieces(n) IN IF p[Len(p)] = <<>> THEN Front(p) ELSE p

(* Every payload MakePayload accepts fits header.payload[512] and is a    *)
(* well-formed question for exactly the name, type and class asked for:  *)
(* a server answers the question the Resolver asked (GetIP, GetIP6,      *)
(* GetCName, GetName send this payload as built).                         *)
QueryAsksFor(n, t) ==
    LET r == MakePayload(n, t, ClassIN) IN
    r.ok =>
        /\ Len(r.bytes) <= 512
        /\ Question(r.bytes) = [ok |-> TRUE, labels |-> NameLabels(n),
                                qtype |-> t, qclass |-> ClassIN]


(* Reference reverse names: the octets of an IPv4 address in reverse     *)
(* order as decimal labels under in-addr.arpa (RFC 1035 3.5); the         *)
(* nibbles of an IPv6 address in reverse order, each a hex digit label,  *)
(* under ip6.arpa (RFC 3596 2.5).                                         *)
Digits(n) ==
    IF n >= 100 THEN <<48 + n \div 100, 48 + ((n \div 10) % 10), 48 + (n % 10)>>
    ELSE IF n >= 10 THEN <<48 + n \div 10, 48 + (n % 10)>> ELSE <<48 + n>>
HexDigit(d) == IF d < 10 THEN 48 + d ELSE 87 + d
Nibbles(a) == [k \in 1..2 * Len(a) |-> IF k % 2 = 1 THEN a[(k + 1) \div 2] \div 16
                                                   ELSE a[k \div 2] % 16]
ReverseLabels(a) ==
    IF Len(a) = 4
    THEN [k \in 1..4 |-> Digits(a[5 - k])] \o Pieces(InAddrArpa)
    ELSE [k \in 1..32 |-> <<HexDigit(Reverse(Nibbles(a))[k])>>] \o Pieces(Ip6Arpa)

(* GetNameForce asks for the PTR record of the reverse name of the       *)
(* address it was given: the name fits query[128], MakePayload accepts   *)
(* it, and the question is that name, type PTR, class IN.                 *)
PtrAsksFor(a) ==
    LET r == PtrQuery(a) IN
    /\ Len(ReverseName(a)) < 128
    /\ r.ok
    /\ Question(r.bytes) = [ok |-> TRUE, labels |-> ReverseLabels(a),
                            qtype |-> DnsQueryPtr, qclass |-> ClassIN]


(* Reference: the header of a query as RFC 1035 (4.1.1) lays it out. *)
Word(d, k) == d[k] * 256 + d[k + 1]
HeaderOf(d) ==
    [id |-> Word(d, 1), qr |-> d[3] \div 128, opcode |-> (d[3] \div 8) % 16,
     rd |-> d[3] % 2, qdcount |-> Word(d, 5), ancount |-> Word(d, 7),
     nscount |-> Word(d, 9), arcount |-> Word(d, 11)]

(* The datagram SendRequests sends for request id is a standard query    *)
(* with recursion desired, one question and no other records, carries id *)
(* in its first two bytes so that Result finds requests[id] again from  *)
(* the echoed bytes, and fits the payload[sizeof(DNSHeader)] buffer.     *)
DatagramFor(id, r) ==
    LET d == Datagram(id, r) IN
    /\ Len(d) = Len(r.bytes) + 12
    /\ Len(d) <= 12 + 512
    /\ HeaderOf(d) = [id |-> id, qr |-> 0, opcode |-> 0, rd |-> 1, qdcount |-> 1,
                      ancount |-> 0, nscount |-> 0, arcount |-> 0]
    /\ Question(SubSeq(d, 13, Len(d))) = Question(r.bytes)
    /\ ReplyId(d) = id

====
