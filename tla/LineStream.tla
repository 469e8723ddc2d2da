----------------------------- MODULE LineStream -----------------------------
(***************************************************************************)
(* The programs that cut a stream of bytes into what it says: the log      *)
(* server (etc/ns_log_server.c) into requests that end in a NUL, the       *)
(* serial port (etc/unix_UART.c) into lines, and nc (etc/nc.c) what is     *)
(* typed into lines, frames or characters.  Each keeps the beginning of    *)
(* the next one in a buffer from call to call.                             *)
(*                                                                         *)
(* A reader is a record of its buffer and of what it has handed on.        *)
(***************************************************************************)
EXTENDS WsFrame

CONSTANTS Nul, NewLine,
          Brace,    (* an opening brace or bracket *)
          PING,     (* the bytes of the word *)
          TcpRoom,  (* 32000000: sizeof tcpBuf *)
          SerialMax,  (* 250: bytes read at a time *)
          LineMax   (* 250: characters of a line *)

LineStreamAssumption ==
    /\ {TcpRoom, SerialMax, LineMax} \subseteq Nat \ {0}
    /\ Cardinality({Nul, NewLine, Brace}) = 3

Empty == [buf |-> <<>>, out |-> <<>>]

-----------------------------------------------------------------------------
(* The log server *)

\* OnTCPLogServDataReceived: the service, which is not modelled, or an answer.
Reply(request) ==
    CASE request[1] = Brace -> [to |-> "service", data |-> request]
      [] request[1] # Brace /\ IsPrefix(PING, request) -> [to |-> "peer", data |-> <<"PONG">>]
      [] request[1] # Brace /\ ~ IsPrefix(PING, request) -> [to |-> "peer", data |-> request]

\* isTerminatedRequestStr is outside of the repository.
isTerminatedRequestStr(bytes) == Last(bytes) = Nul

\* The received bytes up to each NUL, and those behind the last.
Pieces(io) ==
    LET ends == SelectSeq([i \in DOMAIN io |-> i], LAMBDA i : io[i] = Nul)
        from(k) == IF k = 1 THEN 1 ELSE ends[k - 1] + 1
        last == IF ends = <<>> THEN 0 ELSE Last(ends)
    IN  [k \in DOMAIN ends |-> SubSeq(io, from(k), ends[k])]
        \o IF last = Len(io) THEN <<>> ELSE <<SubSeq(io, last + 1, Len(io))>>

\* Mutation of Kept: the buffer is cleared after every read.
KeptNot(s, piece) == [s EXCEPT !.buf = <<>>]

\* A piece that is not the end of a request stays in the buffer.
Kept(s, piece) == [s EXCEPT !.buf = @ \o piece]

\* A piece is appended and, if it ends a request, that is answered.  Without
\* room the buffer is cleared and the rest of what was received is dropped.
Take(s, piece) ==
    IF s.full THEN s
    ELSE IF Len(s.buf) + Len(piece) > TcpRoom THEN [s EXCEPT !.buf = <<>>, !.full = TRUE]
    ELSE IF isTerminatedRequestStr(piece)
    THEN [s EXCEPT !.buf = <<>>, !.out = Append(@, Reply(s.buf \o piece))]
    ELSE Kept(s, piece)

\* NS_RECV of logServ_TCP_ev_handler.
logServ_TCP(s, io) ==
    LET t == FoldLeft(Take, [buf |-> s.buf, out |-> s.out, full |-> FALSE], Pieces(io))
    IN  [buf |-> t.buf, out |-> t.out]

\* NS_RECV of logServ_UDP_ev_handler: a datagram is a request.
logServ_UDP(s, io) == [s EXCEPT !.out = Append(@, Reply(io))]

-----------------------------------------------------------------------------
(* The serial port *)

\* A character of OnSerialReceive; a line that fills the buffer is never
\* delivered, nor is any other behind it.
SerialChar(s, c) ==
    CASE Len(s.buf) >= LineMax \/ c = Nul -> s
      [] Len(s.buf) < LineMax /\ c = NewLine ->
             [buf |-> <<>>, out |-> Append(s.out, Append(s.buf, c))]
      [] Len(s.buf) < LineMax /\ c \notin {Nul, NewLine} -> [s EXCEPT !.buf = Append(@, c)]

\* OnSerialReceive with the bytes that wait (FIONREAD); it is called again for
\* those it leaves.
OnSerialReceive(s, waiting) ==
    FoldLeft(SerialChar, s,
             SubSeq(waiting, 1, IF Len(waiting) > SerialMax THEN SerialMax ELSE Len(waiting)))

ReceiveAll(s, waiting) ==
    FoldLeft(LAMBDA t, k : OnSerialReceive(t, SubSeq(waiting, (k - 1) * SerialMax + 1, Len(waiting))),
             s, [k \in 1 .. (Len(waiting) + SerialMax - 1) \div SerialMax |-> k])

-----------------------------------------------------------------------------
(* nc *)

isWSpacket(bytes) == Returned(bytes) >= 0

\* on_stdin_read for a character; mode says b_wsMode and g_bufferedSend.
on_stdin_read(mode, s, ch) ==
    LET buf == Append(s.buf, ch)
        flush == CASE mode = "chars" -> TRUE
                   [] mode = "frames" -> isWSpacket(buf)
                   [] mode = "lines" -> ch = NewLine
    IN  IF flush THEN [buf |-> <<>>, out |-> Append(s.out, buf)] ELSE [s EXCEPT !.buf = buf]

\* stdio_thread_func: at the end of the input the rest is sent as well.
stdio_thread(mode, input) ==
    LET s == FoldLeft(LAMBDA t, ch : on_stdin_read(mode, t, ch), Empty, input)
    IN  IF s.buf = <<>> THEN s.out ELSE Append(s.out, s.buf)

-----------------------------------------------------------------------------
(* Properties *)

\* The stream, cut behind the given positions.
Cut(stream, cuts) ==
    LET at == SelectSeq([i \in DOMAIN stream |-> i], LAMBDA i : i \in cuts \cup {Len(stream)})
    IN  [k \in DOMAIN at |-> SubSeq(stream, IF k = 1 THEN 1 ELSE at[k - 1] + 1, at[k])]

\* Every request that fits the buffer is answered once, in order, however the
\* stream was cut into reads; over UDP every datagram is.
RequestsAnswered(requests, cuts) ==
    LET replies == [i \in DOMAIN requests |-> Reply(requests[i])]
    IN  /\ (\A i \in DOMAIN requests : Len(requests[i]) <= TcpRoom) =>
               FoldLeft(logServ_TCP, Empty, Cut(FlattenSeq(requests), cuts))
                   = [buf |-> <<>>, out |-> replies]
        /\ FoldLeft(logServ_UDP, Empty, requests).out = replies

\* The lines of the serial port are delivered whole, without their NULs, up to
\* the first that is too long, however they came.
LinesDelivered(lines, cuts) ==
    LET text(line) == SelectSeq(line, LAMBDA c : c # Nul)
        long == {i \in DOMAIN lines : Len(text(lines[i])) > LineMax}
        first == IF long = {} THEN Len(lines) ELSE (CHOOSE i \in long : \A j \in long : i <= j) - 1
    IN  FoldLeft(ReceiveAll, Empty, Cut(FlattenSeq(lines), cuts)).out
            = [i \in 1 .. first |-> text(lines[i])]

\* nc sends what was typed, line by line or frame by frame.
TypedSent(mode, units, rest) ==
    stdio_thread(mode, FlattenSeq(units) \o rest)
        = units \o IF rest = <<>> THEN <<>> ELSE <<rest>>

=============================================================================
