------------------------------ MODULE WsFrame ------------------------------
(***************************************************************************)
(* The frames of a web socket as etc/ws_encode.c, ws_decode.c and          *)
(* ws_transcode.c write and read them: an opcode, the length of the        *)
(* payload in one of three forms, a key that masks the payload if there is *)
(* one, and the payload.  A frame is read from a stream byte by byte.      *)
(*                                                                         *)
(* The sizes of the code are parameters, so that small frames meet all     *)
(* three forms.  A byte of a payload or a key is one bit, which exclusive  *)
(* or treats alike.                                                        *)
(***************************************************************************)
EXTENDS Integers, Sequences, SequencesExt

CONSTANTS ShortMax, (* 125: the longest payload of the first form *)
          Base,     (* 256: what a byte of a length counts to *)
          MaskLen   (* WEBSOCK_MSKLEN *)

WsFrameAssumption == {ShortMax, Base, MaskLen} \subseteq Nat \ {0}

Text == 1
Close == 8
Known == {Text, Close, 9, 10}  \* opcodes that the decoder accepts

\* The second byte: a length or the mark of a longer form, and the flag of a key.
MediumMark == ShortMax + 1
LongMark == ShortMax + 2
Masked == ShortMax + 3
MediumMax == Base * Base - 1

Xor(a, b) == (a + b) % 2
Mask(bytes, key) == [i \in DOMAIN bytes |-> Xor(bytes[i], key[((i - 1) % MaskLen) + 1])]

\* A length in n bytes.
InBytes(length, n) == [i \in 1 .. n |-> (length \div Base ^ (n - i)) % Base]

\* Mutation of LengthBytes: the limit of the first form is one too high.
LengthBytesLate(n) ==
    CASE n > MediumMax -> <<LongMark>> \o <<0, 0, 0, 0>> \o InBytes(n, 4)
      [] n > ShortMax + 1 /\ n <= MediumMax -> <<MediumMark>> \o InBytes(n, 2)
      [] n <= ShortMax + 1 -> <<n>>

\* encodeWebSockMsg; the key is <<>> when encKey is NULL.  The upper half of a
\* long length is shifted out of an int.
LengthBytes(n) ==
    CASE n > MediumMax -> <<LongMark>> \o <<0, 0, 0, 0>> \o InBytes(n, 4)
      [] n > ShortMax /\ n <= MediumMax -> <<MediumMark>> \o InBytes(n, 2)
      [] n <= ShortMax -> <<n>>

Encode(opcode, msg, key) ==
    LET length == LengthBytes(Len(msg))
        flagged == [length EXCEPT ![1] = IF key = <<>> THEN @ ELSE @ + Masked]
    IN  <<opcode>> \o flagged \o key \o IF key = <<>> THEN msg ELSE Mask(msg, key)

Incomplete == [complete |-> FALSE, opcode |-> 0, msg |-> <<>>]

\* The form of the length, the bytes before the payload and the payload, as the
\* second byte and those behind it say.
Form(bytes) == bytes[2] % Masked
KeyLen(bytes) == IF bytes[2] >= Masked THEN MaskLen ELSE 0
Least(bytes) ==
    CASE Form(bytes) = MediumMark -> 4 + KeyLen(bytes)
      [] Form(bytes) = LongMark -> 10 + KeyLen(bytes)
      [] OTHER -> 2
HeadLen(bytes) == KeyLen(bytes) + CASE Form(bytes) = MediumMark -> 4
                                    [] Form(bytes) = LongMark -> 10
                                    [] OTHER -> 2
PayloadLen(bytes) ==
    CASE Form(bytes) = MediumMark -> bytes[3] * Base + bytes[4]
      [] Form(bytes) = LongMark -> FoldLeft(LAMBDA n, b : n * Base + b, 0, SubSeq(bytes, 7, 10))
      [] OTHER -> Form(bytes)

\* What decodeWebSockMsg returns: the length of the payload, or how many bytes
\* there are too many or, negative, too few.
BadOpcode == -9999
Returned(bytes) ==
    LET netLen == Len(bytes)
    IN  IF netLen < 2 THEN netLen - 2
        ELSE IF bytes[1] \notin Known THEN BadOpcode
        ELSE IF netLen < Least(bytes) THEN netLen - Least(bytes)
        ELSE IF HeadLen(bytes) + PayloadLen(bytes) = netLen THEN PayloadLen(bytes)
        ELSE netLen - (HeadLen(bytes) + PayloadLen(bytes))

\* decodeWebSockMsg: the frame that the bytes are, if they are one.
Decode(bytes) ==
    LET payload == SubSeq(bytes, HeadLen(bytes) + 1, Len(bytes))
        key == SubSeq(bytes, HeadLen(bytes) - KeyLen(bytes) + 1, HeadLen(bytes))
    IN  IF \/ Len(bytes) < 2
           \/ bytes[1] \notin Known
           \/ Len(bytes) < Least(bytes)
           \/ HeadLen(bytes) + PayloadLen(bytes) # Len(bytes)
        THEN Incomplete
        ELSE [complete |-> TRUE, opcode |-> bytes[1],
              msg |-> IF KeyLen(bytes) = 0 THEN payload ELSE Mask(payload, key)]

\* The loop of the programs: one more byte, and what it completes.
Accept(s, byte) ==
    LET bytes == Append(s.bytes, byte)
        frame == Decode(bytes)
    IN  IF frame.complete
        THEN [bytes |-> <<>>, out |-> Append(s.out, [opcode |-> frame.opcode, msg |-> frame.msg])]
        ELSE [s EXCEPT !.bytes = bytes]

Receive(stream) == FoldLeft(Accept, [bytes |-> <<>>, out |-> <<>>], stream)

-----------------------------------------------------------------------------
(* Property *)

\* What was encoded, message after message, is what the reader of the stream
\* gets, message by message: no frame is taken for complete too early or too
\* late, with any form of the length, masked or not.
EncodeAll(messages) ==
    FlattenSeq([i \in DOMAIN messages |->
        Encode(messages[i].opcode, messages[i].msg, messages[i].key)])

FramesSurvive(messages) ==
    LET stream == EncodeAll(messages)
    IN  Receive(stream) =
            [bytes |-> <<>>,
             out |-> [i \in DOMAIN messages |->
                         [opcode |-> messages[i].opcode, msg |-> messages[i].msg]]]

=============================================================================
