------------------------------ MODULE HexText ------------------------------
(***************************************************************************)
(* The conversions of eloop/common.c: bytes written in hex and read again, *)
(* Ethernet addresses, the counter of bytes, and names of networks made    *)
(* printable; and the filters etc/jss_encode.c and jss_decode.c, which     *)
(* make a text the value of a JSON string and find it there again.         *)
(* Characters are their codes.                                             *)
(***************************************************************************)
EXTENDS Integers, Sequences, SequencesExt, FiniteSetsExt, TLC

CONSTANTS Colon, Underscore,
          SsidMax  (* 32: the bytes of a network's name *)

HexTextAssumption == SsidMax \in Nat \ {0}

\* Mutation of hex2num: a is ten more than 0, not 0 ten less than a.
hex2numLow(c) ==
    CASE c \in 48 .. 57 -> c - 48
      [] c \in 97 .. 102 -> c - 97
      [] c \in 65 .. 70 -> c - 65 + 10
      [] OTHER -> -1

hex2num(c) ==
    CASE c \in 48 .. 57 -> c - 48
      [] c \in 97 .. 102 -> c - 97 + 10
      [] c \in 65 .. 70 -> c - 65 + 10
      [] OTHER -> -1

\* The digit at i of a text, -1 for none; no text is read beyond its end.
Digit(txt, i) == IF i \in DOMAIN txt THEN hex2num(txt[i]) ELSE -1

\* hex2byte: the byte that begins at i, -1 if there is none.
hex2byte(txt, i) ==
    IF Digit(txt, i) < 0 \/ Digit(txt, i + 1) < 0 THEN -1
    ELSE Digit(txt, i) * 16 + Digit(txt, i + 1)

NotHex == <<-1>>

\* hwaddr_aton: six bytes with colons between them.
hwaddr_aton(txt) ==
    LET at(i) == 3 * i - 2
    IN  IF \A i \in 1 .. 6 : /\ hex2byte(txt, at(i)) >= 0
                             /\ i < 6 => at(i) + 2 \in DOMAIN txt /\ txt[at(i) + 2] = Colon
        THEN [i \in 1 .. 6 |-> hex2byte(txt, at(i))]
        ELSE NotHex

\* hexstr2bin: len bytes.
hexstr2bin(hex, len) ==
    IF \A i \in 1 .. len : hex2byte(hex, 2 * i - 1) >= 0
    THEN [i \in 1 .. len |-> hex2byte(hex, 2 * i - 1)]
    ELSE NotHex

\* inc_byte_array: a byte is counted up when all behind it become 0.
inc_byte_array(counter) ==
    [i \in DOMAIN counter |->
        IF \A j \in DOMAIN counter : j > i => counter[j] = 255
        THEN (counter[i] + 1) % 256 ELSE counter[i]]

HexDigit(n, uppercase) ==
    IF n < 10 THEN 48 + n ELSE (IF uppercase THEN 65 ELSE 97) + n - 10

\* _wpa_snprintf_hex: the text left in a buffer of so many bytes and the number
\* of characters that is returned, which does not count half a byte.
_wpa_snprintf_hex(buf_size, data, uppercase) ==
    LET digits == FlattenSeq([i \in DOMAIN data |->
                      <<HexDigit(data[i] \div 16, uppercase), HexDigit(data[i] % 16, uppercase)>>])
        whole == 2 * Min({Len(data), (buf_size - 1) \div 2})
    IN  IF buf_size = 0 THEN [text |-> <<>>, ret |-> 0]
        ELSE [text |-> SubSeq(digits, 1, Min({Len(digits), buf_size - 1})), ret |-> whole]

\* wpa_ssid_txt
wpa_ssid_txt(ssid) ==
    LET kept == SubSeq(ssid, 1, Min({Len(ssid), SsidMax}))
        nul == {i \in DOMAIN kept : kept[i] = 0}
        name == SubSeq(kept, 1, IF nul = {} THEN Len(kept) ELSE Min(nul) - 1)
    IN  [i \in DOMAIN name |-> IF name[i] < 32 \/ name[i] >= 127 THEN Underscore ELSE name[i]]

-----------------------------------------------------------------------------
(* The filters *)

Quote == 34
Backslash == 92
U == 117

\* The characters that are escaped with a letter, and the letters.
Escape == (Quote :> Quote) @@ (Backslash :> Backslash) @@ (47 :> 47)
          @@ (8 :> 98) @@ (12 :> 102) @@ (10 :> 110) @@ (13 :> 114) @@ (9 :> 116)

\* Mutation of EscapeChar: a quote alone is escaped.
EscapeQuote(c) == IF c = Quote THEN <<Backslash, Quote>> ELSE <<c>>

\* A character of jss_encode.
EscapeChar(c) ==
    CASE c \in DOMAIN Escape -> <<Backslash, Escape[c]>>
      [] c \notin DOMAIN Escape /\ c < 32 ->
             <<Backslash, U, 48, 48, HexDigit(c \div 16, FALSE), HexDigit(c % 16, FALSE)>>
      [] c \notin DOMAIN Escape /\ c >= 32 -> <<c>>

\* jss_encode: the text, between what the arguments give.
jss_encode(insertPre, text, appendPost) ==
    insertPre \o FlattenSeq([i \in DOMAIN text |-> EscapeChar(text[i])]) \o appendPost

\* A character of jss_decode: skipN characters are skipped, escaped ones not
\* counted, and at a quote tailCut are cut.  Behind \u there are four digits.
UnescapeChar(s, c) ==
    CASE s.mode = "cut" -> [s EXCEPT !.mode = "plain"]
      [] s.mode = "plain" /\ c = Backslash -> [s EXCEPT !.mode = "escape"]
      [] s.mode = "plain" /\ c # Backslash /\ s.skipN > 0 -> [s EXCEPT !.skipN = @ - 1]
      [] s.mode = "plain" /\ c # Backslash /\ s.skipN = 0 /\ s.tailCut > 0 /\ c = Quote ->
             [s EXCEPT !.mode = IF s.tailCut > 1 THEN "cut" ELSE "plain",
                       !.tailCut = IF @ > 1 THEN @ - 2 ELSE 0]
      [] s.mode = "plain" /\ c # Backslash /\ s.skipN = 0 /\ (s.tailCut = 0 \/ c # Quote) ->
             [s EXCEPT !.out = Append(@, c)]
      [] s.mode = "escape" /\ c = U -> [s EXCEPT !.mode = "hex"]
      [] s.mode = "escape" /\ c # U ->
             [s EXCEPT !.mode = "plain",
                       !.out = @ \o SetToSeq({d \in DOMAIN Escape : Escape[d] = c})]
      [] s.mode = "hex" /\ Len(s.hex) < 3 -> [s EXCEPT !.hex = Append(@, c)]
      [] s.mode = "hex" /\ Len(s.hex) = 3 ->
             [s EXCEPT !.mode = "plain", !.hex = <<>>,
                       !.out = Append(@, hexstr2bin(Append(s.hex, c), 2)[2])]

jss_decode(skipN, tailCut, text) ==
    FoldLeft(UnescapeChar,
             [mode |-> "plain", skipN |-> skipN, tailCut |-> tailCut, hex |-> <<>>, out |-> <<>>],
             text).out

-----------------------------------------------------------------------------
(* Properties *)

Value(bytes) == FoldLeft(LAMBDA n, b : n * 256 + b, 0, bytes)

\* As many bytes as the buffer has room for are read as they were written.
HexSurvives(data, buf_size, uppercase) ==
    LET written == _wpa_snprintf_hex(buf_size, data, uppercase)
    IN  /\ hexstr2bin(written.text, written.ret \div 2) = SubSeq(data, 1, written.ret \div 2)
        /\ buf_size > 2 * Len(data) => written.ret = 2 * Len(data)
        /\ Len(written.text) < buf_size \/ written.text = <<>>

\* An address with colons between its bytes is read as it is, one without is not.
HwaddrSurvives(addr, uppercase) ==
    LET hex(i) == _wpa_snprintf_hex(3, <<addr[i]>>, uppercase).text
        with(colon) == FlattenSeq([i \in 1 .. 6 |-> hex(i) \o IF i < 6 THEN colon ELSE <<>>])
    IN  /\ hwaddr_aton(with(<<Colon>>)) = addr
        /\ hwaddr_aton(with(<<>>)) = NotHex

\* The counter counts up by one; network names are printable.
CounterCounts(counter) ==
    Value(inc_byte_array(counter)) = (Value(counter) + 1) % (256 ^ Len(counter))
NamePrintable(ssid) ==
    /\ Len(wpa_ssid_txt(ssid)) <= SsidMax
    /\ \A c \in ToSet(wpa_ssid_txt(ssid)) : c \in 32 .. 126

\* The text between a beginning of so many characters and a quote with one more
\* behind it is found again, whatever characters it has.
JssSurvives(insertPre, text, last) ==
    jss_decode(Len(insertPre), 2, jss_encode(insertPre, text, <<Quote, last>>)) = text

=============================================================================
