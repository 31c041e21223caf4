------------------------------ MODULE DNSReply ------------------------------
(***************************************************************************)
(* The decoding of one DNS reply: DNS::GetResult and DNS::FillHeader of    *)
(* src/src/dns.cpp copying the datagram into a DNSHeader, then             *)
(* DNSRequest::ResultIsReady walking header.payload with its index i, one  *)
(* step per iteration of each of its loops, and GetResult turning res into *)
(* the answer a Resolver receives.  The result is compared with what an    *)
(* RFC 1035 decoder finds in the same reply.                               *)
(*                                                                         *)
(* A reply is its header fields and the bytes after the 12-byte header     *)
(* (payload index k is message offset k + 12).  Reads and writes outside   *)
(* the received bytes or outside res[512] are undefined behaviour; the     *)
(* model stops in a fault state there.  A byte of res that was never       *)
(* written (res is allocated with new[] and only res[0] is set) is Undef. *)
(***************************************************************************)
EXTENDS Integers, Sequences, SequencesExt, Bitwise

CONSTANTS
    Replies,    \* datagrams that may arrive for the request
    QTypes      \* this->type of the request: DNS_QUERY_A, ... as numbers

QueryA == 1
QueryCNAME == 5
QueryPTR == 12
QueryAAAA == 28
RequestClass == 1
Dot == 46
Undef == 256

(* FLAGS_MASK_QR, FLAGS_MASK_OPCODE and FLAGS_MASK_RCODE. *)
FlagsOK(r) ==
    /\ (r.f1 & 128) # 0
    /\ (r.f1 & 120) = 0
    /\ (r.f2 & 15) = 0

(* The TTL as FillResourceRecord computes it: the four bytes are shifted  *)
(* as int, so a first byte of 128 or more gives a negative int, which the *)
(* assignment to the 64-bit unsigned long rr->ttl sign-extends.  Kept as  *)
(* eight big-endian bytes.                                                 *)
Ttl(b) == IF b[1] >= 128 THEN <<255, 255, 255, 255>> \o b
                         ELSE <<0, 0, 0, 0>> \o b

(* FillResourceRecord(&rr, &payload[k]) on the payload bytes d. *)
FillResourceRecord(d, k) ==
    [type     |-> d[k + 1] * 256 + d[k + 2],
     class    |-> d[k + 3] * 256 + d[k + 4],
     ttl      |-> Ttl(SubSeq(d, k + 5, k + 8)),
     rdlength |-> d[k + 9] * 256 + d[k + 10]]

(* The answer handed to the Resolver: ok, the TTL and the result bytes.   *)
NoResult == [ok |-> FALSE, ttl |-> <<0, 0, 0, 0, 0, 0, 0, 0>>, data |-> <<>>]

VARIABLES
    reply,      \* the datagram received
    qtype,      \* this->type
    pc,         \* where ResultIsReady is, or how it ended
    i,          \* the payload index
    q,          \* questions skipped, then the end-of-name flag
    cur,        \* curanswer
    rr,         \* the ResourceRecord last filled
    res,        \* res[0 .. o-1]: the bytes written to the result buffer
    result      \* what GetResult passes on

vars == <<reply, qtype, pc, i, q, cur, rr, res, result>>

Halted == {"done", "error", "smashed", "oob", "overflow"}

Length == Len(reply.data)
At(k) == reply.data[k + 1]
Received(k) == 0 <= k /\ k < Length

(* GetResult: A and AAAA print the first 4 or 16 bytes of res; CNAME and *)
(* PTR take res as a C string.                                             *)
Formatted(t, r) ==
    CASE t = QueryA    -> [k \in 1..4 |-> IF k <= Len(r) THEN r[k] ELSE Undef]
      [] t = QueryAAAA -> [k \in 1..16 |-> IF k <= Len(r) THEN r[k] ELSE Undef]
      [] OTHER         -> LET z == SelectInSeq(r, LAMBDA x : x = 0)
                          IN  IF z = 0 THEN r ELSE SubSeq(r, 1, z - 1)

Init ==
    /\ reply \in Replies
    /\ qtype \in QTypes
    /\ pc = "recv"
    /\ i = 0
    /\ q = 0
    /\ cur = 0
    /\ rr = [type |-> 0, class |-> 0, ttl |-> <<0, 0, 0, 0, 0, 0, 0, 1>>,
             rdlength |-> 0]
    /\ res = <<>>
    /\ result = NoResult

(***************************************************************************)
(* Steps.                                                                  *)
(***************************************************************************)

(* The byte count GetResult passes to FillHeader: length - 12. *)
PayloadLength == Length

(* FillHeader: memcpy(header->payload, &input[12], length) into the      *)
(* 512-byte payload.                                                      *)
FillHeaderOverflows == PayloadLength > 512

(* FillHeader copies the payload bytes into payload[512]; a datagram of   *)
(* up to sizeof(DNSHeader) bytes is accepted, so it can write past the   *)
(* header.  Then the flag and answer-count checks of ResultIsReady.       *)
Receive ==
    /\ pc = "recv"
    /\ pc' = IF FillHeaderOverflows THEN "smashed"
             ELSE IF ~FlagsOK(reply) \/ reply.an < 1 THEN "error"
             ELSE "question"
    /\ UNCHANGED <<reply, qtype, i, q, cur, rr, res, result>>

(* The loop skipping the question section. *)
QuestionStep ==
    /\ pc = "question"
    /\ q < reply.qd /\ i < Length
    /\ \/ At(i) > 63 /\ i' = i + 6 /\ q' = q + 1
       \/ At(i) = 0  /\ i' = i + 5 /\ q' = q + 1
       \/ At(i) \in 1..63 /\ i' = i + At(i) + 1 /\ UNCHANGED q
    /\ UNCHANGED <<reply, qtype, pc, cur, rr, res, result>>

QuestionEnd ==
    /\ pc = "question"
    /\ ~(q < reply.qd /\ i < Length)
    /\ pc' = "answer"
    /\ cur' = 0
    /\ UNCHANGED <<reply, qtype, i, q, rr, res, result>>

(* The top of the answer loop: all answers skipped is an error. *)
AnswerNext ==
    /\ pc = "answer"
    /\ IF cur < reply.an THEN pc' = "ansname" /\ q' = 0
                         ELSE pc' = "error" /\ UNCHANGED q
    /\ UNCHANGED <<reply, qtype, i, cur, rr, res, result>>

(* The loop skipping an answer's owner name. *)
AnsNameStep ==
    /\ pc = "ansname"
    /\ q = 0 /\ i < Length
    /\ \/ At(i) > 63 /\ i' = i + 2 /\ q' = 1
       \/ At(i) = 0  /\ i' = i + 1 /\ q' = 1
       \/ At(i) \in 1..63 /\ i' = i + At(i) + 1 /\ UNCHANGED q
    /\ UNCHANGED <<reply, qtype, pc, cur, rr, res, result>>

(* i += 10, then i += rr.rdlength for a record of another type or class. *)
SkipRecord(r) == i + 10 + r.rdlength

(* After the owner name: too few bytes left is an error; otherwise fill  *)
(* rr, and step over a record of another type or class.                   *)
ReadRecord ==
    /\ pc = "ansname"
    /\ ~(q = 0 /\ i < Length)
    /\ IF Length - i < 10
       THEN pc' = "error" /\ UNCHANGED <<i, cur, rr>>
       ELSE LET r == FillResourceRecord(reply.data, i) IN
            /\ rr' = r
            /\ IF r.type = qtype /\ r.class = RequestClass
               THEN pc' = "found" /\ i' = i + 10 /\ UNCHANGED cur
               ELSE pc' = "answer" /\ i' = SkipRecord(r) /\ cur' = cur + 1
    /\ UNCHANGED <<reply, qtype, q, res, result>>

(* The size checks, this->ttl = rr.ttl and the switch: CNAME and PTR      *)
(* decode a name; A, AAAA and the rest memcpy rdlength bytes to res and   *)
(* terminate them (i + rdlength <= length <= 512 keeps res[rdlength] in   *)
(* the buffer).                                                            *)
Found ==
    /\ pc = "found"
    /\ IF i + rr.rdlength > Length \/ rr.rdlength > 1023
       THEN pc' = "error" /\ UNCHANGED <<q, res, result>>
       ELSE IF rr.type \in {QueryCNAME, QueryPTR}
       THEN pc' = "name" /\ q' = 0 /\ UNCHANGED <<res, result>>
       ELSE LET r == SubSeq(reply.data, i + 1, i + rr.rdlength) \o <<0>> IN
            /\ res' = r
            /\ pc' = "done"
            /\ result' = [ok |-> TRUE, ttl |-> rr.ttl, data |-> Formatted(qtype, r)]
            /\ UNCHANGED q
    /\ UNCHANGED <<reply, qtype, i, cur, rr>>

NameGuard == q = 0 /\ i < Length /\ Len(res) + 256 < 1023

(* i = ntohs(ptr) - 0xC000 - 12: no check of the two top bits. *)
PointerTarget(hi, lo) == hi * 256 + lo - 49152 - 12

(* A byte above 63: a compression pointer, taken with no check of its    *)
(* target or of how many pointers were followed.                          *)
NamePointer ==
    /\ IF Received(i + 1)
       THEN i' = PointerTarget(At(i), At(i + 1)) /\ UNCHANGED pc
       ELSE pc' = "oob" /\ UNCHANGED i
    /\ UNCHANGED <<q, res>>

(* A zero byte: the end of the name. *)
NameRoot == q' = 1 /\ UNCHANGED <<pc, i, res>>

(* A label: res[o] = 0, a '.' unless o = 0, then memcpy of the label.     *)
Appended(len) ==
    res \o (IF res = <<>> THEN <<>> ELSE <<Dot>>)
        \o SubSeq(reply.data, i + 2, i + len + 1)

(* The label writes res[o..o+len] and reads payload[i+1..i+len], neither *)
(* checked; the write comes first.                                        *)
NameLabel(len) ==
    /\ IF Len(Appended(len)) > 512 THEN pc' = "overflow" /\ UNCHANGED <<i, res>>
       ELSE IF ~Received(i + len) THEN pc' = "oob" /\ UNCHANGED <<i, res>>
       ELSE res' = Appended(len) /\ i' = i + len + 1 /\ UNCHANGED pc
    /\ UNCHANGED q

(* One iteration of the CNAME/PTR name loop.  payload[i] is read whenever *)
(* i < length, a negative i included.                                      *)
NameStep ==
    /\ pc = "name" /\ NameGuard
    /\ IF ~Received(i) THEN pc' = "oob" /\ UNCHANGED <<i, q, res>>
       ELSE \/ At(i) > 63 /\ NamePointer
            \/ At(i) = 0 /\ NameRoot
            \/ At(i) \in 1..63 /\ NameLabel(At(i))
    /\ UNCHANGED <<reply, qtype, cur, rr, result>>

(* The loop ends: res[o] = 0 and GetResult hands on the C string. *)
NameEnd ==
    /\ pc = "name"
    /\ ~NameGuard
    /\ IF Len(res) > 511
       THEN pc' = "overflow" /\ UNCHANGED <<res, result>>
       ELSE /\ res' = res \o <<0>>
            /\ pc' = "done"
            /\ result' = [ok |-> TRUE, ttl |-> rr.ttl,
                          data |-> Formatted(qtype, res \o <<0>>)]
    /\ UNCHANGED <<reply, qtype, i, q, cur, rr>>

Next ==
    \/ Receive
    \/ QuestionStep \/ QuestionEnd
    \/ AnswerNext \/ AnsNameStep \/ ReadRecord
    \/ Found
    \/ NameStep \/ NameEnd

(* ResultIsReady runs to its end on the one thread that called it. *)
Spec == Init /\ [][Next]_vars /\ WF_vars(Next)

(***************************************************************************)
(* Reference: what RFC 1035 (4.1) finds in the reply: the first answer    *)
(* record of the type asked for in class IN, its TTL as a 32-bit unsigned *)
(* number and its RDATA: 4 bytes for A, 16 for AAAA, a domain name for    *)
(* CNAME and PTR.  Labels are 1..63 bytes, a byte of 192 or more starts a *)
(* two-byte pointer to an earlier offset, 64..191 are reserved, and a     *)
(* name must end inside its record.                                       *)
(***************************************************************************)
BadName == [ok |-> FALSE, bytes |-> <<>>]

(* The index just after the name at k as it is written, or -1. *)
RECURSIVE RefNameEnd(_, _)
RefNameEnd(d, k) ==
    IF k < 0 \/ k >= Len(d) THEN -1
    ELSE IF d[k + 1] = 0 THEN k + 1
    ELSE IF d[k + 1] >= 192 THEN IF k + 1 < Len(d) THEN k + 2 ELSE -1
    ELSE IF d[k + 1] > 63 THEN -1
    ELSE RefNameEnd(d, k + d[k + 1] + 1)

(* The dotted name at k; a pointer must go back before lim, the start of  *)
(* the piece being read, so that decoding ends.                           *)
RECURSIVE RefName(_, _, _, _)
RefName(d, k, lim, acc) ==
    IF k < 0 \/ k >= Len(d) THEN BadName
    ELSE LET b == d[k + 1] IN
         IF b = 0 THEN [ok |-> Len(acc) <= 255, bytes |-> acc]
         ELSE IF b >= 192
         THEN IF k + 1 >= Len(d) THEN BadName
              ELSE LET t == (b - 192) * 256 + d[k + 2] - 12 IN
                   IF t >= lim THEN BadName ELSE RefName(d, t, t, acc)
         ELSE IF b > 63 \/ k + b >= Len(d) THEN BadName
         ELSE RefName(d, k + b + 1, lim,
                      acc \o (IF acc = <<>> THEN <<>> ELSE <<Dot>>)
                          \o SubSeq(d, k + 2, k + b + 1))

RefRecord(d, k) ==
    [FillResourceRecord(d, k) EXCEPT !.ttl = <<0, 0, 0, 0>> \o SubSeq(d, k + 5, k + 8)]

RefRData(d, k, r, t) ==
    LET Answer(x) == [ok |-> TRUE, ttl |-> r.ttl, data |-> x] IN
    CASE t = QueryA    -> IF r.rdlength = 4 THEN Answer(SubSeq(d, k + 1, k + 4))
                          ELSE NoResult
      [] t = QueryAAAA -> IF r.rdlength = 16 THEN Answer(SubSeq(d, k + 1, k + 16))
                          ELSE NoResult
      [] OTHER         -> LET n == RefName(d, k, k, <<>>) IN
                          IF n.ok /\ RefNameEnd(d, k) = k + r.rdlength
                          THEN Answer(n.bytes) ELSE NoResult

(* The index after n questions from k, or -1. *)
RECURSIVE RefQuestions(_, _, _)
RefQuestions(d, k, n) ==
    IF n = 0 \/ k = -1 THEN k
    ELSE LET e == RefNameEnd(d, k) IN
         IF e = -1 \/ e + 4 > Len(d) THEN -1 ELSE RefQuestions(d, e + 4, n - 1)

(* The first of n answer records from k that has type t and class IN. *)
RECURSIVE RefAnswer(_, _, _, _)
RefAnswer(d, k, n, t) ==
    IF n = 0 \/ k = -1 THEN NoResult
    ELSE LET e == RefNameEnd(d, k) IN
         IF e = -1 \/ e + 10 > Len(d) THEN NoResult
         ELSE LET r == RefRecord(d, e) IN
              IF e + 10 + r.rdlength > Len(d) THEN NoResult
              ELSE IF r.type = t /\ r.class = RequestClass THEN RefRData(d, e + 10, r, t)
              ELSE RefAnswer(d, e + 10 + r.rdlength, n - 1, t)

Reference(r, t) ==
    IF ~FlagsOK(r) THEN NoResult
    ELSE RefAnswer(r.data, RefQuestions(r.data, 0, r.qd), r.an, t)

(***************************************************************************)
(* Properties.                                                             *)
(***************************************************************************)

(* FillHeader never writes past header.payload[512]: GetResult receives   *)
(* at most sizeof(DNSHeader) bytes and copies all but 12 of them.          *)
PayloadFits == pc # "smashed"

(* ResultIsReady reads only bytes of the reply that was received: the     *)
(* compression pointers and labels of a CNAME or PTR name stay inside it.  *)
ReadsWithinReply == pc # "oob"

(* ResultIsReady never writes past res[511], however the names of the     *)
(* reply point at each other.                                             *)
ResInBounds == pc # "overflow"

(* ResultIsReady returns for every reply: following compression pointers *)
(* comes to an end.                                                        *)
Terminates == <>(pc \in Halted)

(* When decoding ends normally, the Resolver gets exactly what an RFC      *)
(* 1035 decoder finds: the first answer of the type asked for with its     *)
(* TTL and data, or an error when there is none.                           *)
ResultMatchesReference ==
    pc \in {"done", "error"} => result = Reference(reply, qtype)

====
