------------------------------ MODULE MCCodecs ------------------------------
(* The operators of DnsMessage, WsFrame, LineStream, HexText and OsString   *)
(* on bounded inputs: a step chooses an input for one of them, the next one *)
(* puts it away.                                                            *)
EXTENDS DnsMessage, LineStream, HexText

Strings == INSTANCE OsString

VARIABLES input

None == [for |-> "none"]
Init == input = None

\* Names of up to three labels of up to two bytes.
Labels == {<<97>>, <<98, 99>>}
Names == UNION {[1 .. n -> Labels] : n \in 1 .. 3}

\* A name at offset, with a pointer for the labels behind the k-th: to the same
\* labels of a name that is written in full at offset 1.
Written(name, k) ==
    IF k = Len(name) THEN EncodeDotted(name, NameRoom)
    ELSE FlattenSeq([i \in 1 .. k |-> <<Len(name[i])>> \o name[i]])
         \o <<Pointer, 1 + Used(name, k + 1)>>
NameAt(name) == 1 + Len(EncodeDotted(name, NameRoom))
Message(name, k) == <<7>> \o EncodeDotted(name, NameRoom) \o Written(name, k) \o <<5>>

\* Answers to a question about name: the header and the question of the query,
\* and records with addresses and other records, whose names are pointers.
Id == 4711
Header(n) == [id |-> Id, qr |-> TRUE, opcode |-> 0, aa |-> n > 1, tc |-> FALSE, rd |-> TRUE,
              ra |-> TRUE, rcode |-> 0, qdcount |-> 1, ancount |-> n, nscount |-> 0, arcount |-> 0]
Other == 5
Records == [type : {T_A}, data : {<<1, 2>>, <<3, 0>>}] \cup {[type |-> Other, data |-> <<1, 120, 0>>]}
Answer(name, records) ==
    EncodeHeader(Header(Len(records))) \o EncodeQuestion(name, NameRoom)
    \o FlattenSeq([i \in DOMAIN records |->
           <<Pointer, HFIXEDSZ>> \o Two(records[i].type) \o Two(C_IN) \o <<0, 0, 0, 9>>
           \o Two(Len(records[i].data)) \o records[i].data])
AddressesOf(records) ==
    LET as == SelectSeq(records, LAMBDA r : r.type = T_A)
    IN  [i \in DOMAIN as |-> as[i].data]

Payloads == UNION {[1 .. n -> {0, 1}] : n \in 0 .. 2} \cup {<<1, 0, 1>>, <<1, 0, 0, 1, 1>>}
Messages == [opcode : {Text, Close}, msg : Payloads, key : {<<>>, <<1, 0>>}]

\* What is sent to the log server, over the serial port and typed.
PINGBytes == <<3, 4>>
Requests == {<<b, 4, Nul>> : b \in {3, Brace, 5}} \cup {<<5, 5, 5, Nul>>, <<3, Nul>>, <<Nul>>}
Lines == {<<5, NewLine>>, <<Nul, 5, Nul, NewLine>>, <<5, 4, 3, 5, 4, NewLine>>,
          <<5, 5, 5, 5, 5, 5, NewLine>>, <<NewLine>>}
Cuts(units) == SUBSET (1 .. Len(FlattenSeq(units)) - 1)

\* Strings of up to four bytes, and memory with strings in it.
ShortStrings == UNION {[1 .. n -> {1, 2}] : n \in 0 .. 4}
Memory(s1, s2) == s1 \o <<Nul>> \o s2 \o <<Nul>>

Next ==
    \/ /\ input = None
       /\ \/ \E name \in Names : \E k \in 0 .. Len(name) :
                input' = [for |-> "name", name |-> name, k |-> k]
          \/ \E name \in {<<<<97>>>>, <<<<98, 99>>, <<97>>>>}, n \in 1 .. 4, total \in 20 .. 50 :
                \E records \in [1 .. n -> Records] :
                input' = [for |-> "answer", name |-> name, records |-> records, total |-> total]
          \/ \E n \in 1 .. 2 : \E messages \in [1 .. n -> Messages] :
                input' = [for |-> "frames", messages |-> messages]
          \/ \E n \in 1 .. 2 : \E units \in [1 .. n -> Requests] : \E cuts \in Cuts(units) :
                input' = [for |-> "requests", units |-> units, cuts |-> cuts]
          \/ \E units \in UNION {[1 .. n -> Lines] : n \in 1 .. 2} : \E cuts \in Cuts(units) :
                input' = [for |-> "lines", units |-> units, cuts |-> cuts]
          \/ \E n \in {1, 2, 3, 6} : \E data \in [1 .. n -> {0, 58, 255}] :
                input' = [for |-> "bytes", data |-> data]
          \/ \E n \in 0 .. 4 : \E text \in [1 .. n -> {Quote, Backslash, 47, 10, 31, U}] :
                input' = [for |-> "text", text |-> text]
          \/ \E s1, s2 \in ShortStrings : input' = [for |-> "strings", s1 |-> s1, s2 |-> s2]
    \/ /\ input # None
       /\ input' = None

Spec == Init /\ [][Next]_input

-----------------------------------------------------------------------------
(* The properties of the modules for the input *)

\* A name is read as it was written, with or without a pointer (__encode_dotted,
\* __decode_dotted, __length_dotted); so are bytes and addresses in hex
\* (hexstr2bin, hwaddr_aton, wpa_snprintf_hex), a text in a JSON string
\* (jss_encode, jss_decode), and what is moved, copied, compared or searched
\* with the functions of os_internal.c.
TextsSurvive ==
    CASE input.for = "name" ->
             NameSurvives(Message(input.name, input.k), NameAt(input.name), input.name, input.k)
      [] input.for = "bytes" ->
             /\ \A uppercase \in BOOLEAN :
                    /\ \A buf_size \in 0 .. 2 * Len(input.data) + 2 :
                           HexSurvives(input.data, buf_size, uppercase)
                    /\ Len(input.data) = 6 => HwaddrSurvives(input.data, uppercase)
             /\ Len(input.data) <= 3 => CounterCounts(input.data)
             /\ NamePrintable(input.data)
      [] input.for = "text" -> JssSurvives(<<Brace, Quote, U>>, input.text, Brace)
      [] input.for = "strings" ->
             /\ Strings!MoveMoves(Memory(input.s1, input.s2))
             /\ Strings!ComparisonOrders(input.s1, input.s2)
             /\ Strings!NeedleFound(input.s1, input.s2)
             /\ Strings!CopiesFit(Memory(input.s1, input.s2), input.s2)
      [] OTHER -> TRUE

\* A lookup that is answered with addresses returns them (__dns_lookup,
\* gethostbyname_r_2, dup_hostentry); it fails only for want of an address or
\* of room for as many as there are records.
AddressesSurvive ==
    input.for = "answer" =>
        LET s == ReadAnswer(Answer(input.name, input.records), Id, input.total - Rest)
            addresses == AddressesOf(input.records)
            he == Hostent(s, input.name, input.total)
            room == (In + Ptr) * Len(input.records) + NameRoom
        IN  IF he = Fail
            THEN addresses = <<>> \/ room > input.total - Rest
            ELSE AddressesReturned(he, input.name, addresses, 4, input.total)

\* What a stream carries survives the way it is cut into reads: the frames of a
\* web socket (encodeWebSockMsg, decodeWebSockMsg), the requests to the log
\* server (logServ_TCP_ev_handler), the lines of the serial port
\* (OnSerialReceive) and what is typed into nc (on_stdin_read).
StreamSurvives ==
    CASE input.for = "frames" ->
             /\ FramesSurvive(input.messages)
             /\ TypedSent("frames", [i \in DOMAIN input.messages |-> EncodeAll(<<input.messages[i]>>)],
                          <<Text>>)
      [] input.for = "requests" -> RequestsAnswered(input.units, input.cuts)
      [] input.for = "lines" ->
             /\ LinesDelivered(input.units, input.cuts)
             /\ TypedSent("lines", input.units, <<5>>)
             /\ TypedSent("chars", [i \in 1 .. 5 |-> <<i>>], <<>>)
      [] OTHER -> TRUE

=============================================================================
