----------------------------- MODULE DnsMessage -----------------------------
(***************************************************************************)
(* What the lookups of eloop/dns.c put into a query and take from an       *)
(* answer: names, headers, questions and records, and the struct hostent   *)
(* that the caller gets, laid out in the caller's buffer.                  *)
(*                                                                         *)
(* A message is a sequence of bytes; offsets count from 0.  A dotted name  *)
(* is the sequence of its labels, a label a sequence of bytes.             *)
(***************************************************************************)
EXTENDS Integers, Sequences, SequencesExt

CONSTANTS In,        (* sizeof(struct in_addr) *)
          Ptr,       (* size of a pointer *)
          ALIAS_DIM, (* pointers in the list of aliases *)
          NameRoom,  (* 256: what must be left for names, and their limit *)
          T_A        (* the type of record that is asked for *)

DnsMessageAssumption == {In, Ptr, ALIAS_DIM, NameRoom, T_A} \subseteq Nat \ {0}

HFIXEDSZ == 12
RRFIXEDSZ == 10
C_IN == 1
Pointer == 192  \* 0xc0, in the length of a name that goes on elsewhere

At(data, o) == data[o + 1]
Bytes(data, o, n) == SubSeq(data, o + 1, o + n)

Two(n) == <<(n \div 256) % 256, n % 256>>
Number(data, o) == At(data, o) * 256 + At(data, o + 1)

\* What the functions return as a negative length.
Fail == <<>>

-----------------------------------------------------------------------------
(* Names *)

\* The bytes in front of the k-th label, in a message or a dotted string.
Used(labels, k) == FoldLeft(LAMBDA n, l : n + Len(l) + 1, 0, SubSeq(labels, 1, k - 1))

EncodeDotted(labels, maxlen) ==
    IF \/ maxlen < 1
       \/ \E k \in DOMAIN labels : Len(labels[k]) >= maxlen - Used(labels, k) - 1
    THEN Fail
    ELSE FlattenSeq([k \in DOMAIN labels |-> <<Len(labels[k])>> \o labels[k]]) \o <<0>>

\* A name takes its labels and a zero, or its labels and a pointer of two bytes.
\* Mutation of LengthDotted: a pointer is one byte long.
LengthDottedShort(data, offset) ==
    LET length[o \in 0 .. Len(data) - 1] ==
            LET l == At(data, o)
            IN  IF l = 0 \/ l >= Pointer THEN 1 ELSE 1 + l + length[o + l + 1]
    IN  length[offset]

LengthDotted(data, offset) ==
    LET length[o \in 0 .. Len(data) - 1] ==
            LET l == At(data, o)
            IN  CASE l = 0 -> 1
                  [] l >= Pointer -> 2
                  [] OTHER -> 1 + l + length[o + l + 1]
    IN  length[offset]

\* The labels of a name; Fail when the string has no room for them.
DecodeDotted(data, offset, maxlen) ==
    LET labels[o \in 0 .. Len(data) - 1] ==
            LET l == At(data, o)
            IN  CASE l = 0 -> <<>>
                  [] l >= Pointer -> labels[(l - Pointer) * 256 + At(data, o + 1)]
                  [] OTHER -> <<Bytes(data, o + 1, l)>> \o labels[o + l + 1]
        name == labels[offset]
    IN  IF \E k \in DOMAIN name : Used(name, k) + Len(name[k]) + 1 >= maxlen
        THEN Fail ELSE name

-----------------------------------------------------------------------------
(* Headers, questions and records *)

Flag(b, n) == IF b THEN n ELSE 0
HasFlag(byte, n) == (byte \div n) % 2 = 1

EncodeHeader(h) ==
    Two(h.id)
    \o <<Flag(h.qr, 128) + (h.opcode % 16) * 8 + Flag(h.aa, 4) + Flag(h.tc, 2) + Flag(h.rd, 1),
         Flag(h.ra, 128) + (h.rcode % 16)>>
    \o Two(h.qdcount) \o Two(h.ancount) \o Two(h.nscount) \o Two(h.arcount)

DecodeHeader(data) ==
    LET flags == At(data, 2)
    IN  [id |-> Number(data, 0), qr |-> HasFlag(flags, 128), opcode |-> (flags \div 8) % 16,
         aa |-> HasFlag(flags, 4), tc |-> HasFlag(flags, 2), rd |-> HasFlag(flags, 1),
         ra |-> HasFlag(At(data, 3), 128), rcode |-> At(data, 3) % 16,
         qdcount |-> Number(data, 4), ancount |-> Number(data, 6),
         nscount |-> Number(data, 8), arcount |-> Number(data, 10)]

EncodeQuestion(labels, maxlen) ==
    LET name == EncodeDotted(labels, maxlen)
    IN  IF name = Fail \/ maxlen - Len(name) < 4
        THEN Fail ELSE name \o Two(T_A) \o Two(C_IN)

LengthQuestion(data, offset) == LengthDotted(data, offset) + 4

DecodeAnswer(data, offset) ==
    LET length == LengthDotted(data, offset)
        o == offset + length
        rdlength == Number(data, o + 8)
    IN  [dotted |-> DecodeDotted(data, offset, NameRoom), atype |-> Number(data, o),
         rdlength |-> rdlength, rdata |-> Bytes(data, o + RRFIXEDSZ, rdlength),
         length |-> length + RRFIXEDSZ + rdlength]

-----------------------------------------------------------------------------
(* The answer to a query *)

\* One record.  s is where the lookup is in the message, what it has of the
\* answer (the first record of the type asked for and the data of the others)
\* and how it goes on: it reads the next record, stops, or looks again.
\* j counts the records from 0.
TakeRecord(data, ancount, buflen, s, j) ==
    LET ma == DecodeAnswer(data, s.pos)
        next == [s EXCEPT !.pos = @ + ma.length]
        rest == ancount - j - 1
    IN  CASE s.go # "on" -> s
          [] s.go = "on" /\ ma.dotted = Fail -> [s EXCEPT !.go = "again"]
          [] s.go = "on" /\ ma.dotted # Fail /\ s.first /\ ma.atype # T_A ->
                [next EXCEPT !.a = ma]
          [] s.go = "on" /\ ma.dotted # Fail /\ s.first /\ ma.atype = T_A ->
                IF (ma.rdlength + Ptr) * rest > buflen
                THEN [s EXCEPT !.a = ma, !.add_count = rest, !.go = "stop"]
                ELSE [next EXCEPT !.a = ma, !.first = FALSE]
          [] s.go = "on" /\ ma.dotted # Fail /\ ~ s.first ->
                IF ma.atype # T_A THEN next
                ELSE IF ma.rdlength # s.a.rdlength THEN [s EXCEPT !.go = "again"]
                ELSE [next EXCEPT !.add_count = @ + 1, !.more = @ \o ma.rdata]

\* The answer with the id of the query, or none.
ReadAnswer(data, id, buflen) ==
    LET h == DecodeHeader(data)
        skipped == FoldLeft(LAMBDA pos, j : pos + LengthQuestion(data, pos), HFIXEDSZ,
                            [j \in 1 .. h.qdcount |-> j])
        start == [pos |-> skipped, first |-> TRUE, a |-> <<>>, add_count |-> 0,
                  more |-> <<>>, go |-> "on"]
    IN  IF h.id # id \/ ~ h.qr \/ h.rcode # 0 \/ h.ancount < 1
        THEN [start EXCEPT !.go = "again"]
        ELSE FoldLeft(LAMBDA s, j : TakeRecord(data, h.ancount, buflen, s, j), start,
                      [j \in 1 .. h.ancount |-> j - 1])

-----------------------------------------------------------------------------
(* The buffer of a struct hostent: an address, a list of two pointers, the  *)
(* list of aliases, and the rest for the other addresses, their list and    *)
(* the name.  A cell of the buffer holds a byte, the k-th part of a pointer *)
(* or the k-th character of a name.                                         *)

Rest == In + 2 * Ptr + ALIAS_DIM * Ptr

Pointers(targets) ==
    FlattenSeq([i \in DOMAIN targets |-> [k \in 1 .. Ptr |-> <<"ptr", targets[i], k>>]])
Name(labels) == [k \in 1 .. Used(labels, Len(labels) + 1) |-> <<"name", labels, k>>]
Data(bytes) == [k \in DOMAIN bytes |-> <<"byte", bytes[k], 0>>]

NullPtr == -1

Write(mem, at, cells) ==
    [o \in DOMAIN mem |-> IF o \in at .. at + Len(cells) - 1 THEN cells[o - at + 1] ELSE mem[o]]

\* memmove
\* Mutation of Move: the cells are moved on by a pointer only.
MoveLess(mem, from, to, n) == Write(mem, to + Ptr, [k \in 1 .. n |-> mem[from + k - 1]])

Move(mem, from, to, n) == Write(mem, to, [k \in 1 .. n |-> mem[from + k - 1]])

\* The hostent for the answer s to a lookup of name with total bytes of buffer:
\* h_addr_list, h_name and what the buffer holds.  Fail when it is too small or
\* the answer has no address.
Hostent(s, name, total) ==
    LET n == s.add_count
        rd == s.a.rdlength
        buflen == total - Rest
        Empty == [o \in 0 .. total - 1 |-> <<"byte", 0, 0>>]
        Filled == Write(Write(Write(Empty, In, Pointers(<<0, NullPtr>>)), Rest, Name(name)),
                        Rest, Data(s.more))
        moved == Rest - 2 * Ptr
        list == IF n = 0 THEN In ELSE Rest + n * rd
        targets == <<0>> \o [i \in 1 .. n |-> moved + (i - 1) * rd] \o <<NullPtr>>
        named == IF n = 0 THEN Rest ELSE list + (n + 2) * Ptr
        Listed == IF n = 0 THEN Filled
                  ELSE Write(Move(Filled, Rest, moved, n * rd), list, Pointers(targets))
    IN  IF s.go = "again" \/ (rd + Ptr) * n + NameRoom > buflen \/ s.a.atype # T_A
        THEN Fail
        ELSE [addr_list |-> list, name |-> named,
              mem |-> Write(Write(Listed, named, Name(s.a.dotted)), 0, Data(s.a.rdata))]

\* What the caller finds in it: the pointers up to NULL and what they point to.
AddrList(he) ==
    LET list[o \in DOMAIN he.mem] ==
            LET p == he.mem[o]
            IN  IF p[1] = "ptr" /\ p[2] = NullPtr THEN <<>> ELSE <<p>> \o list[o + Ptr]
    IN  list[he.addr_list]
Addresses(he) ==
    [i \in DOMAIN AddrList(he) |-> [k \in 1 .. In |-> he.mem[AddrList(he)[i][2] + k - 1]]]
NameFound(he, labels) ==
    \A k \in DOMAIN Name(labels) : he.mem[he.name + k - 1] = Name(labels)[k]

\* dup_hostentry takes the distance of the first two addresses for the length
\* of each, and copies that much; the addresses of the copy, or Fail when the
\* lists, the addresses and a name and an alias of nameLen do not fit.
Stride(he) == LET l == AddrList(he) IN IF Len(l) > 1 THEN l[2][2] - l[1][2] ELSE In

DupHostentry(he, nameLen, buflen) ==
    LET n == Len(AddrList(he))
        rd == Stride(he)
        need == In + (n + 1) * Ptr + n * rd + 2 * Ptr + 2 * nameLen
    IN  IF need >= buflen THEN Fail
        ELSE IF rd <= 0 THEN <<Data([k \in 1 .. In |-> 0])>>
        ELSE [i \in 1 .. n |-> [k \in 1 .. rd |-> he.mem[AddrList(he)[i][2] + k - 1]]]

-----------------------------------------------------------------------------
(* Properties *)

\* A name, written in full or with its end replaced by a pointer to the same
\* labels elsewhere, is read as it was written, and skipped by its length.
\* data holds, at offset, name with a pointer for the labels behind the k-th.
NameSurvives(data, offset, name, k) ==
    /\ DecodeDotted(data, offset, NameRoom) = name
    /\ LengthDotted(data, offset) =
           Used(name, k + 1) + IF k = Len(name) THEN 1 ELSE 2

\* The addresses of an answer are found in the hostent, in order, whatever
\* other records lie between them, and the name of the first of them; the
\* same is found in a copy.
AddressesReturned(he, first, addresses, nameLen, buflen) ==
    /\ Addresses(he) = [i \in DOMAIN addresses |-> Data(addresses[i])]
    /\ NameFound(he, first)
    /\ LET copy == DupHostentry(he, nameLen, buflen)
       IN  copy # Fail => /\ Len(copy) = Len(addresses)
                          /\ \A i \in DOMAIN addresses : SubSeq(copy[i], 1, In) = Data(addresses[i])

=============================================================================
