----------------------------- MODULE MCDNSReply -----------------------------
(* Instance of DNSReply for TLC: replies built the way a name server       *)
(* writes them, and replies that break the decoder's assumptions.          *)
EXTENDS DNSReply, DNSQuery

MCQTypes == {QueryA, QueryCNAME, QueryPTR, QueryAAAA}

Lab(n) == <<n>> \o [k \in 1..n |-> 97]
(* A compression pointer to payload index k (message offset k + 12). *)
Ptr(k) == <<192 + (k + 12) \div 256, (k + 12) % 256>>
Pad(n) == [k \in 1..n |-> 0]

(* The question "a.a" at payload index 0 (9 bytes with type and class). *)
AskedName == Lab(1) \o Lab(1) \o <<0>>
QuestionFor(t) == AskedName \o Short(t) \o Short(RequestClass)
TTL == <<0, 0, 14, 16>>
RR(owner, t, class, ttl, rdata) ==
    owner \o Short(t) \o Short(class) \o ttl \o Short(Len(rdata)) \o rdata
Reply(f2, qd, an, data) == [f1 |-> 129, f2 |-> f2, qd |-> qd, an |-> an, data |-> data]

(* RDATA of each type; a name either spelled out or compressed against   *)
(* the question.                                                           *)
RData(t) ==
    CASE t = QueryA    -> {<<10, 0, 0, 1>>}
      [] t = QueryAAAA -> {[k \in 1..16 |-> k]}
      [] OTHER         -> {Lab(2) \o <<0>>, Lab(2) \o Ptr(0), Ptr(2)}

(* Records ahead of the answer: none, a CNAME, a record of the type asked *)
(* for in class CH.                                                        *)
Before(t) == {<<>>, RR(Ptr(0), QueryCNAME, 1, TTL, Lab(1) \o Ptr(0)),
                    RR(Ptr(0), t, 3, TTL, <<1, 2, 3, 4>>)}

WellFormed ==
    UNION { { Reply(128, 1, IF b = <<>> THEN 1 ELSE 2,
                    QuestionFor(t) \o b \o RR(o, t, RequestClass, TTL, d)) :
                o \in {Ptr(0), AskedName}, b \in Before(t), d \in RData(t) } :
            t \in MCQTypes }

(* Replies with no usable answer (an error code, no answers, fewer       *)
(* records than ancount, RDATA longer than the datagram), a second       *)
(* question compressed against the first, and one filling the 512-byte   *)
(* payload with padding.                                                  *)
Others ==
    { Reply(131, 1, 1, QuestionFor(QueryA)),
      Reply(128, 1, 0, QuestionFor(QueryA)),
      Reply(128, 1, 2, QuestionFor(QueryA) \o RR(Ptr(0), QueryCNAME, 1, TTL, Ptr(0))),
      Reply(128, 1, 1, QuestionFor(QueryA) \o Ptr(0) \o Short(QueryA) \o Short(1) \o TTL
                       \o Short(8) \o <<10, 0, 0, 1>>),
      Reply(128, 2, 1, QuestionFor(QueryA) \o Ptr(0) \o Short(QueryA) \o Short(1)
                       \o RR(Ptr(0), QueryA, 1, TTL, <<10, 0, 0, 2>>)),
      Reply(128, 1, 1, LET m == QuestionFor(QueryA) \o RR(Ptr(0), QueryA, 1, TTL, <<10, 0, 0, 3>>)
                       IN  m \o Pad(512 - Len(m))) }

ValidReplies == WellFormed \cup Others

(* A reply with an error code. *)
ErrorReplies == { Reply(131, 1, 1, QuestionFor(QueryA)) }

(* A datagram of sizeof(DNSHeader) bytes: 528 after the header. *)
BigReplies ==
    { LET m == QuestionFor(QueryA) \o RR(Ptr(0), QueryA, 1, TTL, <<10, 0, 0, 3>>)
      IN  Reply(128, 1, 1, m \o Pad(528 - Len(m))) }

(* A CNAME whose RDATA is a pointer to itself (payload index 21). *)
LoopReplies ==
    { Reply(128, 1, 1, QuestionFor(QueryCNAME) \o RR(Ptr(0), QueryCNAME, 1, TTL, Ptr(21))) }

(* A CNAME whose RDATA is a label followed by a pointer back to it. *)
GrowReplies ==
    { Reply(128, 1, 1, QuestionFor(QueryCNAME)
                       \o RR(Ptr(0), QueryCNAME, 1, TTL, Lab(63) \o Ptr(21))) }

(* A CNAME whose RDATA starts with a reserved label type (0x40). *)
ReservedReplies ==
    { Reply(128, 1, 1, QuestionFor(QueryCNAME) \o RR(Ptr(0), QueryCNAME, 1, TTL, <<64, 0>>)) }

(* An A record with two bytes of RDATA. *)
ShortAReplies ==
    { Reply(128, 1, 1, QuestionFor(QueryA) \o RR(Ptr(0), QueryA, 1, TTL, <<10, 0>>)) }

(* A TTL of 2^31 seconds or more. *)
LongTTLReplies ==
    { Reply(128, 1, 1, QuestionFor(QueryA) \o RR(Ptr(0), QueryA, 1, <<128, 0, 0, 0>>, <<10, 0, 0, 1>>)) }

MCQTypeA == {QueryA}
MCQTypeCNAME == {QueryCNAME}
====
